-------------------------- MODULE SubscriptionsProofs --------------------------
(***************************************************************************)
(* Proofs about Subscriptions, for any threads, rows, plans and settings.  *)
(*                                                                         *)
(* The inductive invariant says that a row in one thread's hand only is as *)
(* that thread loaded it, but for a period that has ended since; so what   *)
(* the thread saves is the row it has made, whole.  And that, unless two   *)
(* checkouts crossed, the one under way has loaded the user's customer.    *)
(***************************************************************************)
EXTENDS Subscriptions, TLAPS

Labels == {"activate", "deactivate", "link", "hook", "cancel", "resume"}

Loaded == \A t \in Threads : \A r \in found[t] : r \in Rows /\ seen[t][r] \in Sub

SavedExist == \A t \in Threads : since[t] \subseteq Rows

Alone ==
  \A r \in SubRows \ raced : \A t, u \in Threads : r \in found[t] /\ r \in found[u] => t = u

\* But for the end of its period.
SameRow(loaded, current) ==
  /\ loaded.plan = current.plan /\ loaded.provider = current.provider
  /\ loaded.sub = current.sub /\ loaded.status = current.status
  /\ loaded.cancel = current.cancel /\ loaded.entitled = current.entitled
  /\ loaded.period = current.period \/ current.period = "past"

Current == \A t \in Threads : \A r \in found[t] \ raced : SameRow(seen[t][r], subs[r])

\* What FlagFollowsRow says of one row.
FlagOK(status, period, entitled) ==
  /\ status = "active" /\ period # "past" => entitled
  /\ entitled => status \in ActiveStatuses

CheckoutCurrent ==
  ~crossed => \A t, u \in Threads :
    pc[t] = "checkout" => seenCustomer[t] = customer /\ (pc[u] = "checkout" => t = u)

IInv ==
  TypeOK /\ Loaded /\ SavedExist /\ Alone /\ Current /\ FlagFollowsRow /\ CheckoutCurrent
  /\ SoldToKnownCustomer

-------------------------------------------------------------------------------
(* Rows *)

LEMMA NoSubIsNoRow == NoSub \notin Sub
BY SubscriptionAssumption DEF Sub, NoSub

LEMMA RowIsSub == ASSUME TypeOK, NEW r \in Rows PROVE r \in SubRows /\ subs[r] \in Sub
BY DEF TypeOK, Rows

LEMMA EmptyType == Empty \in [SubRows -> Sub \cup {NoSub}] /\ Unique(Empty)
BY DEF Empty, Unique, NoSub

LEMMA MergeType ==
  ASSUME NEW new \in Sub, NEW loaded, NEW current \in Sub, NEW dated \in BOOLEAN
  PROVE  Merge(new, loaded, current, dated) \in Sub
<1> DEFINE plan == Column(new.plan, loaded.plan, current.plan)
           provider == Column(new.provider, loaded.provider, current.provider)
           sub == Column(new.sub, loaded.sub, current.sub)
           status == Column(new.status, loaded.status, current.status)
           period == IF dated THEN new.period ELSE current.period
           cancel == Column(new.cancel, loaded.cancel, current.cancel)
           entitled == Column(new.entitled, loaded.entitled, current.entitled)
<1>1. plan \in Plans /\ provider \in {"internal", "stripe"} /\ sub \in SubIds \cup {NoSubId}
  BY DEF Sub, Column
<1>2. status \in Statuses /\ period \in {"none", "future", "past"}
  BY DEF Sub, Column
<1>3. cancel \in BOOLEAN /\ entitled \in BOOLEAN
  BY DEF Sub, Column
<1>4. Merge(new, loaded, current, dated) =
        [plan |-> plan, provider |-> provider, sub |-> sub, status |-> status,
         period |-> period, cancel |-> cancel, entitled |-> entitled]
  BY DEF Merge
<1> HIDE DEF plan, provider, sub, status, period, cancel, entitled
<1> QED  BY <1>1, <1>2, <1>3, <1>4 DEF Sub

\* What is saved over the row that was loaded is the new row.
LEMMA MergeWhole ==
  ASSUME NEW new, NEW loaded, NEW current, NEW dated, SameRow(loaded, current)
  PROVE  /\ Merge(new, loaded, current, dated).status = new.status
         /\ Merge(new, loaded, current, dated).entitled = new.entitled
         /\ Merge(new, loaded, current, dated).period = IF dated THEN new.period ELSE current.period
BY DEF Merge, Column, SameRow

LEMMA ActivatedType ==
  ASSUME NEW plan \in Plans
  PROVE  /\ Activated(plan) \in Sub
         /\ FlagOK(Activated(plan).status, Activated(plan).period, Activated(plan).entitled)
BY DEF Activated, Sub, Statuses, FlagOK, ActiveStatuses

LEMMA DeactivatedType ==
  ASSUME NEW row \in Sub
  PROVE  /\ Deactivated(row) \in Sub
         /\ Deactivated(row).status = "canceled" /\ Deactivated(row).entitled = FALSE
BY DEF Deactivated, Sub, Statuses, PeriodNow

LEMMA LinkedType ==
  ASSUME NEW row \in Sub \cup {NoSub},
         NEW plan \in Plans, NEW sub \in SubIds \cup {NoSubId}, NEW status \in Statuses
  PROVE  /\ Linked(row, plan, sub, status) \in Sub
         /\ Linked(row, plan, sub, status).status = status
         /\ Linked(row, plan, sub, status).entitled = (status \in ActiveStatuses)
<1>1. row.period \in {"none", "future", "past"}  BY DEF Sub, NoSub
<1> QED  BY <1>1 DEF Linked, Sub

LEMMA UpsertedType ==
  ASSUME NEW row, NEW plan \in Plans, NEW sub \in SubIds \cup {NoSubId}, NEW status \in Statuses,
         NEW period \in {"none", "future", "past"}, NEW cancel \in BOOLEAN
  PROVE  /\ Upserted(row, plan, sub, status, period, cancel) \in Sub
         /\ Upserted(row, plan, sub, status, period, cancel).status = status
         /\ Upserted(row, plan, sub, status, period, cancel).period = period
         /\ Upserted(row, plan, sub, status, period, cancel).entitled = IsEntitled(status, period)
BY DEF Upserted, Sub, IsEntitled

LEMMA RequestedType ==
  ASSUME NEW row \in Sub, NEW cancel \in BOOLEAN
  PROVE  /\ Requested(row, cancel) \in Sub
         /\ Requested(row, cancel).status = "active"
         /\ Requested(row, cancel).entitled = (row.period # "past")
BY DEF Requested, Sub, IsEntitled, Statuses, ActiveStatuses

-------------------------------------------------------------------------------
(* Loads *)

LEMMA InitInv == Init => IInv
<1> SUFFICES ASSUME Init PROVE IInv  OBVIOUS
<1> USE DEF Init
<1>1. TypeOK
  <2>1. /\ subs \in [SubRows -> Sub \cup {NoSub}] /\ Unique(subs)
        /\ seen \in [Threads -> [SubRows -> Sub \cup {NoSub}]]
    BY EmptyType
  <2>2. /\ latest \subseteq Rows /\ found \in [Threads -> SUBSET SubRows]
        /\ since \in [Threads -> SUBSET SubRows]
        /\ raced \subseteq SubRows /\ ended \subseteq SubRows /\ sold \subseteq Customers
    OBVIOUS
  <2>3. /\ customer \in Customers \cup {NoCustomer}
        /\ seenCustomer \in [Threads -> Customers \cup {NoCustomer}]
        /\ answer \in {"none", "admit", "refuse"} /\ crossed \in BOOLEAN
    OBVIOUS
  <2>4. pc \in [Threads -> {"idle", "activate", "deactivate", "link", "hook", "cancel", "resume",
                            "checkout"}]
    OBVIOUS
  <2>5. requests \in 0..MaxRequests  BY SubscriptionAssumption
  <2> HIDE DEF Init
  <2> QED  BY <2>1, <2>2, <2>3, <2>4, <2>5 DEF TypeOK
<1>2. Loaded /\ SavedExist /\ Alone /\ Current  BY DEF Loaded, SavedExist, Alone, Current
<1>3. FlagFollowsRow  BY DEF FlagFollowsRow, Empty, NoSub
<1>4. CheckoutCurrent /\ SoldToKnownCustomer  BY DEF CheckoutCurrent, SoldToKnownCustomer
<1> QED  BY <1>1, <1>2, <1>3, <1>4 DEF IInv

\* Any request but a checkout may load any rows there are.
LEMMA LoadStep ==
  ASSUME IInv, NEW t \in Threads, NEW rows \in SUBSET Rows, NEW label \in Labels,
         Load(t, rows, label)
  PROVE  IInv'
<1> USE DEF IInv, Load, Goto, tables
<1>1. rows \in SUBSET SubRows /\ \A r \in rows : subs[r] \in Sub  BY RowIsSub DEF Rows
<1>2. TypeOK'
  <2>1. seen' \in [Threads -> [SubRows -> Sub \cup {NoSub}]]  BY <1>1 DEF TypeOK
  <2>2. /\ Rows' = Rows /\ Unique(subs)' /\ subs' \in [SubRows -> Sub \cup {NoSub}]
        /\ latest' \subseteq Rows'
    BY DEF TypeOK, Rows, Unique
  <2>3. /\ found' \in [Threads -> SUBSET SubRows]
        /\ pc' \in [Threads -> {"idle", "activate", "deactivate", "link", "hook", "cancel",
                                "resume", "checkout"}]
        /\ raced' \subseteq SubRows
    BY <1>1 DEF TypeOK, Labels
  <2>4. requests' \in 0..MaxRequests  BY SubscriptionAssumption DEF TypeOK
  <2> QED  BY <2>1, <2>2, <2>3, <2>4 DEF TypeOK
<1>3. /\ found'[t] = rows /\ \A u \in Threads \ {t} : found'[u] = found[u] /\ seen'[u] = seen[u]
      /\ \A r \in rows : seen'[t][r] = subs[r]
  BY <1>1 DEF TypeOK
<1>4. Loaded' /\ SavedExist'  BY <1>1, <1>3 DEF Loaded, SavedExist, Rows
<1>5. raced \subseteq raced' /\ \A r \in rows \ raced' : \A u \in Threads : r \notin found[u]
  OBVIOUS
<1>6. Alone'  BY <1>3, <1>5 DEF Alone
<1>7. Current'
  <2> SUFFICES ASSUME NEW u \in Threads, NEW r \in found'[u] \ raced'
               PROVE  SameRow(seen'[u][r], subs'[r])
    BY DEF Current, SameRow
  <2>1. subs' = subs  OBVIOUS
  <2>2. CASE u = t  BY <1>3, <2>1, <2>2 DEF SameRow
  <2>3. CASE u # t  BY <1>3, <1>5, <2>1, <2>3 DEF Current
  <2> QED  BY <2>2, <2>3
<1>8. FlagFollowsRow'  BY <1>5 DEF FlagFollowsRow, Passes
<1>9. CheckoutCurrent' /\ SoldToKnownCustomer'
  BY DEF CheckoutCurrent, SoldToKnownCustomer, TypeOK, Labels
<1> QED  BY <1>2, <1>4, <1>6, <1>7, <1>8, <1>9

-------------------------------------------------------------------------------
(* Saves *)

LEMMA CloseTypes ==
  ASSUME TypeOK, NEW t \in Threads, NEW rows \in SUBSET SubRows, Close(t, rows)
  PROVE  /\ pc' \in [Threads -> {"idle", "activate", "deactivate", "link", "hook", "cancel",
                                 "resume", "checkout"}]
         /\ found' \in [Threads -> SUBSET SubRows]
         /\ seen' \in [Threads -> [SubRows -> Sub \cup {NoSub}]]
         /\ since' \in [Threads -> SUBSET SubRows]
         /\ \A u \in Threads : since'[u] \subseteq since[u] \cup rows
         /\ seenCustomer' \in [Threads -> Customers \cup {NoCustomer}]
         /\ pc'[t] = "idle" /\ found'[t] = {}
         /\ \A u \in Threads \ {t} : /\ pc'[u] = pc[u] /\ found'[u] = found[u]
                                     /\ seen'[u] = seen[u] /\ seenCustomer'[u] = seenCustomer[u]
BY EmptyType DEF TypeOK, Close, Goto

LEMMA AbortStep == ASSUME IInv, NEW t \in Threads, Abort(t) PROVE IInv'
<1> USE DEF IInv, Abort, tables, history
<1>1. TypeOK'  BY CloseTypes DEF TypeOK, Rows, Unique
<1>2. Loaded' /\ Alone'  BY CloseTypes DEF Loaded, Alone, Rows
<1>6. SavedExist'
  <2>1. \A u \in Threads : since'[u] \subseteq since[u] \cup {}  BY CloseTypes
  <2> QED  BY <2>1 DEF SavedExist, Rows
<1>3. Current'  BY CloseTypes DEF Current, SameRow
<1>4. FlagFollowsRow'  BY DEF FlagFollowsRow, Passes
<1>5. CheckoutCurrent' /\ SoldToKnownCustomer'
  BY CloseTypes DEF CheckoutCurrent, SoldToKnownCustomer
<1> QED  BY <1>1, <1>2, <1>3, <1>4, <1>5, <1>6

\* Rows are saved as they were made, if nobody else had them in hand.
LEMMA UpdateStep ==
  ASSUME IInv, NEW t \in Threads, NEW dated \in BOOLEAN, NEW new,
         \A r \in found[t] : new[r] \in Sub,
         \A r \in found[t] \ raced :
           FlagOK(new[r].status, IF dated THEN new[r].period ELSE subs[r].period, new[r].entitled),
         Update(t, new, dated), ended' \subseteq SubRows
  PROVE  IInv'
<1> USE DEF IInv
<1> DEFINE table == [r \in SubRows |-> IF r \in found[t]
                                       THEN Merge(new[r], seen[t][r], subs[r], dated)
                                       ELSE subs[r]]
<1>1. /\ subs' = table /\ Unique(table) /\ Close(t, found[t]) /\ SetLatest(t, found[t])
      /\ found[t] \in SUBSET SubRows
      /\ UNCHANGED <<customer, answer, raced, sold, crossed, requests>>
  BY DEF Update, history, TypeOK
<1>2. \A r \in found[t] : r \in SubRows /\ r \in Rows /\ subs[r] \in Sub
  BY RowIsSub DEF Loaded
<1>3. \A r \in found[t] : table[r] \in Sub  BY <1>2, MergeType
<1>4. \A r \in SubRows \ found[t] : table[r] = subs[r]  OBVIOUS
<1>5. table \in [SubRows -> Sub \cup {NoSub}]  BY <1>3, <1>4 DEF TypeOK
<1>6. \A r \in SubRows : r \in Rows => r \in Rows'
  BY <1>1, <1>3, <1>4, NoSubIsNoRow DEF Rows
<1>7. \A r \in found[t] \ raced : /\ table[r].status = new[r].status
                                  /\ table[r].entitled = new[r].entitled
                                  /\ table[r].period = IF dated THEN new[r].period ELSE subs[r].period
  BY <1>2, MergeWhole DEF Current
<1> HIDE DEF table
<1>8. TypeOK'
  <2>1. latest' \subseteq Rows'
    BY <1>1, <1>2, <1>6 DEF TypeOK, SetLatest, SavedExist, Rows
  <2>2. subs' \in [SubRows -> Sub \cup {NoSub}] /\ Unique(subs)'
    BY <1>1, <1>5 DEF Unique
  <2> QED  BY <1>1, <2>1, <2>2, CloseTypes DEF TypeOK
<1>9. Loaded' /\ SavedExist'
  BY <1>1, <1>2, <1>6, CloseTypes DEF Loaded, SavedExist, Rows
<1>10. Alone'  BY <1>1, CloseTypes DEF Alone
<1>11. Current'
  <2> SUFFICES ASSUME NEW u \in Threads, NEW r \in found'[u] \ raced
               PROVE  SameRow(seen'[u][r], subs'[r])
    BY <1>1 DEF Current, SameRow
  <2>1. u # t /\ found'[u] = found[u] /\ seen'[u] = seen[u]  BY <1>1, CloseTypes
  <2>2. r \in SubRows \ found[t]  BY <2>1 DEF Alone, Loaded, Rows
  <2> QED  BY <1>1, <1>4, <2>1, <2>2 DEF Current
<1>12. FlagFollowsRow'
  <2> SUFFICES ASSUME NEW r \in SubRows \ raced
               PROVE  FlagOK(subs'[r].status, subs'[r].period, subs'[r].entitled)
    BY <1>1 DEF FlagFollowsRow, FlagOK, Passes
  <2>1. CASE r \in found[t]  BY <1>1, <1>7, <2>1
  <2>2. CASE r \notin found[t]
    BY <1>1, <1>4, <2>2 DEF FlagFollowsRow, FlagOK, Passes
  <2> QED  BY <2>1, <2>2
<1>13. CheckoutCurrent' /\ SoldToKnownCustomer'
  BY <1>1, CloseTypes DEF CheckoutCurrent, SoldToKnownCustomer
<1> QED  BY <1>8, <1>9, <1>10, <1>11, <1>12, <1>13

\* Nobody has a new row in hand.
LEMMA InsertStep ==
  ASSUME IInv, NEW t \in Threads, NEW new \in Sub, FlagOK(new.status, new.period, new.entitled),
         Insert(t, new), ended' \subseteq SubRows
  PROVE  IInv'
<1> USE DEF IInv
<1>1. PICK r \in SubRows \ Rows :
        /\ subs' = [subs EXCEPT ![r] = new] /\ Unique([subs EXCEPT ![r] = new])
        /\ SetLatest(t, {r}) /\ Close(t, {r})
        /\ UNCHANGED <<customer, answer, raced, sold, crossed, requests>>
  BY DEF Insert, history
<1>2. subs'[r] = new /\ \A q \in SubRows \ {r} : subs'[q] = subs[q]  BY <1>1 DEF TypeOK
<1>3. \A q \in SubRows : (q \in Rows \/ q = r) => q \in Rows'
  BY <1>1, <1>2, NoSubIsNoRow DEF Rows
<1>4. TypeOK'
  <2>1. subs' \in [SubRows -> Sub \cup {NoSub}] /\ Unique(subs)'  BY <1>1 DEF TypeOK, Unique
  <2>2. latest' \subseteq Rows'  BY <1>1, <1>3 DEF SetLatest, SavedExist, Rows
  <2> QED  BY <1>1, <2>1, <2>2, CloseTypes DEF TypeOK
<1>5. Loaded' /\ SavedExist'
  <2>1. Loaded'  BY <1>1, <1>3, CloseTypes DEF Loaded, Rows
  <2>2. \A u \in Threads : since'[u] \subseteq since[u] \cup {r}  BY <1>1, CloseTypes
  <2>3. since' \in [Threads -> SUBSET SubRows]  BY <1>1, CloseTypes
  <2> QED  BY <1>1, <1>3, <2>1, <2>2, <2>3 DEF SavedExist, Rows
<1>6. Alone'  BY <1>1, CloseTypes DEF Alone
<1>7. Current'
  <2> SUFFICES ASSUME NEW u \in Threads, NEW q \in found'[u] \ raced
               PROVE  SameRow(seen'[u][q], subs'[q])
    BY <1>1 DEF Current, SameRow
  <2>1. u # t /\ found'[u] = found[u] /\ seen'[u] = seen[u]  BY <1>1, CloseTypes
  <2>2. q \in SubRows \ {r}  BY <1>1, <2>1 DEF Loaded, Rows
  <2> QED  BY <1>2, <2>1, <2>2 DEF Current
<1>8. FlagFollowsRow'
  <2> SUFFICES ASSUME NEW q \in SubRows \ raced
               PROVE  FlagOK(subs'[q].status, subs'[q].period, subs'[q].entitled)
    BY <1>1 DEF FlagFollowsRow, FlagOK, Passes
  <2>1. CASE q = r  BY <1>2, <2>1
  <2>2. CASE q # r  BY <1>2, <2>2 DEF FlagFollowsRow, FlagOK, Passes
  <2> QED  BY <2>1, <2>2
<1>9. CheckoutCurrent' /\ SoldToKnownCustomer'
  BY <1>1, CloseTypes DEF CheckoutCurrent, SoldToKnownCustomer
<1> QED  BY <1>4, <1>5, <1>6, <1>7, <1>8, <1>9

-------------------------------------------------------------------------------
(* The other steps *)

LEMMA CheckoutLoadStep == ASSUME IInv, NEW t \in Threads, CheckoutLoad(t) PROVE IInv'
<1> USE DEF IInv, CheckoutLoad, Goto, tables
<1>1. TypeOK'
  <2>1. requests' \in 0..MaxRequests  BY SubscriptionAssumption DEF TypeOK
  <2>2. crossed' \in BOOLEAN  BY DEF TypeOK
  <2>3. /\ pc' \in [Threads -> {"idle", "activate", "deactivate", "link", "hook", "cancel",
                                "resume", "checkout"}]
        /\ seenCustomer' \in [Threads -> Customers \cup {NoCustomer}]
    BY DEF TypeOK
  <2> QED  BY <2>1, <2>2, <2>3 DEF TypeOK, Rows, Unique
<1>2. Loaded' /\ SavedExist' /\ Alone'  BY DEF Loaded, SavedExist, Alone, Rows
<1>3. Current'  BY DEF Current, SameRow
<1>4. FlagFollowsRow'  BY DEF FlagFollowsRow, Passes
<1>5. CheckoutCurrent'
  <2> SUFFICES ASSUME ~crossed', NEW u \in Threads, NEW v \in Threads, pc'[u] = "checkout"
               PROVE  seenCustomer'[u] = customer /\ (pc'[v] = "checkout" => u = v)
    BY DEF CheckoutCurrent
  <2>1. \A w \in Threads : pc[w] # "checkout"  OBVIOUS
  <2>2. u = t  BY <2>1 DEF TypeOK
  <2> QED  BY <2>1, <2>2 DEF TypeOK
<1>6. SoldToKnownCustomer'  BY DEF SoldToKnownCustomer
<1> QED  BY <1>1, <1>2, <1>3, <1>4, <1>5, <1>6

LEMMA CheckoutSaveStep == ASSUME IInv, NEW t \in Threads, CheckoutSave(t) PROVE IInv'
<1> USE DEF IInv
<1>1. PICK c \in CustomerFor(t) :
        customer' = Column(c, seenCustomer[t], customer) /\ sold' = sold \cup {c}
  BY DEF CheckoutSave
<1>2. /\ Close(t, {}) /\ pc[t] = "checkout"
      /\ UNCHANGED <<subs, latest, answer, raced, crossed, ended, requests>>
  BY DEF CheckoutSave
<1>3. c \in Customers  BY <1>1 DEF CustomerFor, TypeOK
<1>4. TypeOK'
  <2>1. customer' \in Customers \cup {NoCustomer} /\ sold' \subseteq Customers
    BY <1>1, <1>3 DEF TypeOK, Column
  <2> QED  BY <1>2, <2>1, CloseTypes DEF TypeOK, Rows, Unique
<1>5. Loaded' /\ SavedExist' /\ Alone'
  BY <1>2, CloseTypes DEF Loaded, SavedExist, Alone, Rows
<1>6. Current'  BY <1>2, CloseTypes DEF Current, SameRow
<1>7. FlagFollowsRow'  BY <1>2 DEF FlagFollowsRow, Passes
<1>8. CheckoutCurrent'  BY <1>2, CloseTypes DEF CheckoutCurrent
<1>9. SoldToKnownCustomer'
  <2> SUFFICES ASSUME ~crossed PROVE sold' \subseteq {customer'}
    BY <1>2 DEF SoldToKnownCustomer
  <2>1. seenCustomer[t] = customer /\ sold \subseteq {customer}
    BY <1>2 DEF CheckoutCurrent, SoldToKnownCustomer
  <2>2. CASE customer # NoCustomer
    BY <1>1, <2>1, <2>2 DEF CustomerFor, Column
  <2>3. CASE customer = NoCustomer
    <3>1. sold = {}  BY <2>1, <2>3, SubscriptionAssumption DEF TypeOK
    <3>2. customer' = c  BY <1>1, <2>1 DEF Column
    <3> QED  BY <1>1, <3>1, <3>2
  <2> QED  BY <2>2, <2>3
<1> QED  BY <1>4, <1>5, <1>6, <1>7, <1>8, <1>9

LEMMA PeriodEndsStep == ASSUME IInv, NEW r \in SubRows, PeriodEnds(r) PROVE IInv'
<1> USE DEF IInv
<1>1. /\ UNCHANGED <<latest, customer, answer, pc, found, seen, since, seenCustomer, raced, sold,
                     crossed, ended, requests>>
      /\ subs' = [subs EXCEPT ![r].period = "past"]
  BY DEF PeriodEnds, thread, history
<1>2. subs[r] \in Sub  BY DEF TypeOK, PeriodEnds, NoSub
<1>3. subs'[r] = [subs[r] EXCEPT !.period = "past"] /\ \A q \in SubRows \ {r} : subs'[q] = subs[q]
  BY <1>1 DEF TypeOK
<1>4. /\ subs'[r] \in Sub /\ subs'[r].period = "past"
      /\ subs'[r].plan = subs[r].plan /\ subs'[r].provider = subs[r].provider
      /\ subs'[r].sub = subs[r].sub /\ subs'[r].status = subs[r].status
      /\ subs'[r].cancel = subs[r].cancel /\ subs'[r].entitled = subs[r].entitled
  BY <1>2, <1>3 DEF Sub
<1>5. Rows \subseteq Rows'  BY <1>3, <1>4, NoSubIsNoRow DEF Rows
<1>6. TypeOK'
  <2>1. \A q \in SubRows : subs'[q].sub = subs[q].sub /\ subs'[q].provider = subs[q].provider
    BY <1>3, <1>4
  <2>2. Unique(subs)'  BY <2>1 DEF TypeOK, Unique
  <2>3. subs' \in [SubRows -> Sub \cup {NoSub}]  BY <1>1, <1>3, <1>4 DEF TypeOK
  <2> QED  BY <1>1, <1>5, <2>2, <2>3 DEF TypeOK
<1>7. Loaded' /\ SavedExist'  BY <1>1, <1>5 DEF Loaded, SavedExist
<1>8. Alone'  BY <1>1 DEF Alone
<1>9. Current'
  <2> SUFFICES ASSUME NEW u \in Threads, NEW q \in found[u] \ raced
               PROVE  SameRow(seen[u][q], subs'[q])
    BY <1>1 DEF Current, SameRow
  <2>1. SameRow(seen[u][q], subs[q]) /\ q \in SubRows  BY DEF Current, Loaded, Rows
  <2>2. CASE q = r  BY <1>4, <2>1, <2>2 DEF SameRow
  <2>3. CASE q # r  BY <1>3, <2>1, <2>3
  <2> QED  BY <2>2, <2>3
<1>10. FlagFollowsRow'
  <2> SUFFICES ASSUME NEW q \in SubRows \ raced
               PROVE  FlagOK(subs'[q].status, subs'[q].period, subs'[q].entitled)
    BY <1>1 DEF FlagFollowsRow, FlagOK, Passes
  <2>1. CASE q = r  BY <1>4, <2>1 DEF FlagFollowsRow, FlagOK
  <2>2. CASE q # r  BY <1>3, <2>2 DEF FlagFollowsRow, FlagOK, Passes
  <2> QED  BY <2>1, <2>2
<1>11. CheckoutCurrent' /\ SoldToKnownCustomer'
  BY <1>1 DEF CheckoutCurrent, SoldToKnownCustomer
<1> QED  BY <1>6, <1>7, <1>8, <1>9, <1>10, <1>11

LEMMA GateStep == ASSUME IInv, Gate PROVE IInv'
<1> USE DEF IInv
<1>1. /\ UNCHANGED <<subs, latest, customer, pc, found, seen, since, seenCustomer, raced, sold,
                     crossed, ended, requests>>
      /\ answer' \in {"admit", "refuse"}
  BY DEF Gate, tables, thread, history
<1>2. TypeOK'  BY <1>1 DEF TypeOK, Rows, Unique
<1>3. Loaded' /\ SavedExist' /\ Alone'  BY <1>1 DEF Loaded, SavedExist, Alone, Rows
<1>4. Current' /\ FlagFollowsRow'  BY <1>1 DEF Current, SameRow, FlagFollowsRow, Passes
<1>5. CheckoutCurrent' /\ SoldToKnownCustomer'
  BY <1>1 DEF CheckoutCurrent, SoldToKnownCustomer
<1> QED  BY <1>2, <1>3, <1>4, <1>5

-------------------------------------------------------------------------------
(* Requests *)

LEMMA LoadsStep ==
  ASSUME IInv, NEW t \in Threads,
         \/ \E plan \in Plans : ActivateLoad(t, plan)
         \/ DeactivateLoad(t) \/ LinkLoad(t)
         \/ \E sub \in SubIds \cup {NoSubId} : HookLoad(t, sub)
         \/ \E label \in {"cancel", "resume"} : OwnLoad(t, label)
  PROVE  IInv'
<1>1. {r \in SubRows : subs[r].provider = "stripe"} \subseteq Rows  BY DEF Rows, NoSub
<1>2. ASSUME NEW set \in SUBSET Rows PROVE First(set) \subseteq SUBSET Rows
  BY DEF First
<1>3. ASSUME NEW rows \in SUBSET Rows, NEW label \in Labels, Load(t, rows, label) PROVE IInv'
  BY <1>3, LoadStep
<1>4. ASSUME NEW plan \in Plans, ActivateLoad(t, plan) PROVE IInv'
  <2>1. {r \in SubRows : subs[r].plan = plan} \subseteq Rows
    BY SubscriptionAssumption DEF Rows, NoSub
  <2> QED  BY <1>2, <1>3, <1>4, <2>1 DEF ActivateLoad, Labels
<1>5. CASE DeactivateLoad(t)  BY <1>3, <1>5 DEF DeactivateLoad, Labels
<1>6. CASE LinkLoad(t)  BY <1>1, <1>2, <1>3, <1>6 DEF LinkLoad, Labels
<1>7. ASSUME NEW sub \in SubIds \cup {NoSubId}, HookLoad(t, sub) PROVE IInv'
  <2> DEFINE known == {r \in SubRows :
                        sub # NoSubId /\ subs[r].provider = "stripe" /\ subs[r].sub = sub}
  <2>1. known \in SUBSET Rows /\ {} \in SUBSET Rows  BY <1>1
  <2>2. \E rows \in SUBSET Rows : Load(t, rows, "hook")
    <3>1. CASE known # {}  BY <1>7, <2>1, <3>1 DEF HookLoad
    <3>2. CASE known = {}
      <4>1. PICK one \in {{}} \cup First({r \in SubRows : subs[r].provider = "stripe"}) :
              Load(t, one, "hook")
        BY <1>7, <3>2 DEF HookLoad
      <4> QED  BY <1>1, <1>2, <4>1
    <3> QED  BY <3>1, <3>2
  <2> QED  BY <1>3, <2>2 DEF Labels
<1>8. ASSUME NEW label \in {"cancel", "resume"}, OwnLoad(t, label) PROVE IInv'
  <2>1. latest \subseteq Rows  BY DEF IInv, TypeOK
  <2> QED  BY <1>3, <1>8, <2>1 DEF OwnLoad, Labels
<1> QED  BY <1>4, <1>5, <1>6, <1>7, <1>8

LEMMA ActivateSaveStep ==
  ASSUME IInv, NEW t \in Threads, NEW plan \in Plans, ActivateSave(t, plan) PROVE IInv'
<1>0. ended' \subseteq SubRows  BY DEF IInv, TypeOK, ActivateSave
<1>1. CASE Insert(t, Activated(plan))  BY <1>0, <1>1, InsertStep, ActivatedType
<1>2. CASE Update(t, [r \in found[t] |-> Activated(seen[t][r].plan)], TRUE)
  <2>1. PICK new : new = [r \in found[t] |-> Activated(seen[t][r].plan)]  OBVIOUS
  <2>2. \A r \in found[t] : seen[t][r].plan \in Plans  BY DEF IInv, Loaded, Sub
  <2>3. \A r \in found[t] : /\ new[r] \in Sub
                            /\ FlagOK(new[r].status, new[r].period, new[r].entitled)
    BY <2>1, <2>2, ActivatedType
  <2> QED  BY <1>0, <1>2, <2>1, <2>3, UpdateStep
<1> QED  BY <1>1, <1>2 DEF ActivateSave

LEMMA DeactivateSaveStep ==
  ASSUME IInv, NEW t \in Threads, DeactivateSave(t) PROVE IInv'
<1>0. ended' \subseteq SubRows  BY DEF IInv, TypeOK, DeactivateSave
<1>1. PICK new : new = [r \in found[t] |-> Deactivated(seen[t][r])]  OBVIOUS
<1>2. \A r \in found[t] : /\ new[r] \in Sub
                          /\ new[r].status = "canceled" /\ new[r].entitled = FALSE
  BY <1>1, DeactivatedType DEF IInv, Loaded
<1>3. \A r \in found[t] : FlagOK(new[r].status, new[r].period, new[r].entitled)
  BY <1>2 DEF FlagOK
<1> QED  BY <1>0, <1>1, <1>2, <1>3, UpdateStep DEF DeactivateSave

LEMMA LinkSaveStep ==
  ASSUME IInv, NEW t \in Threads, NEW plan \in Plans, NEW sub \in SubIds \cup {NoSubId},
         NEW status \in Statuses, LinkSave(t, plan, sub, status)
  PROVE  IInv'
<1>0. ended' \subseteq SubRows  BY DEF IInv, TypeOK, LinkSave
<1>1. ASSUME NEW new, NEW period, new.status = status, new.entitled = (status \in ActiveStatuses)
      PROVE  FlagOK(new.status, period, new.entitled)
  BY <1>1 DEF FlagOK, ActiveStatuses
<1>2. CASE Insert(t, Linked(NoSub, plan, sub, status))
  <2>1. PICK new : new = Linked(NoSub, plan, sub, status)  OBVIOUS
  <2>2. new \in Sub /\ FlagOK(new.status, new.period, new.entitled)  BY <1>1, <2>1, LinkedType
  <2> QED  BY <1>0, <1>2, <2>1, <2>2, InsertStep
<1>3. CASE Update(t, [r \in found[t] |-> Linked(seen[t][r], plan, sub, status)], FALSE)
  <2>1. PICK new : new = [r \in found[t] |-> Linked(seen[t][r], plan, sub, status)]  OBVIOUS
  <2>2. \A r \in found[t] : /\ new[r] \in Sub /\ new[r].status = status
                            /\ new[r].entitled = (status \in ActiveStatuses)
    BY <2>1, LinkedType DEF IInv, Loaded
  <2>3. \A r \in found[t] : FlagOK(new[r].status, subs[r].period, new[r].entitled)
    BY <1>1, <2>2
  <2> QED  BY <1>0, <1>3, <2>1, <2>2, <2>3, UpdateStep
<1> QED  BY <1>2, <1>3 DEF LinkSave

LEMMA HookSaveStep ==
  ASSUME IInv, NEW t \in Threads, NEW plan \in Plans, NEW sub \in SubIds \cup {NoSubId},
         NEW status \in Statuses, NEW period \in {"none", "future", "past"},
         NEW cancel \in BOOLEAN, HookSave(t, plan, sub, status, period, cancel)
  PROVE  IInv'
<1>0. ended' \subseteq SubRows  BY DEF IInv, TypeOK, HookSave
<1>1. ASSUME NEW row
      PROVE  /\ Upserted(row, plan, sub, status, period, cancel) \in Sub
             /\ FlagOK(Upserted(row, plan, sub, status, period, cancel).status,
                       Upserted(row, plan, sub, status, period, cancel).period,
                       Upserted(row, plan, sub, status, period, cancel).entitled)
  <2>1. FlagOK(status, period, IsEntitled(status, period))
    BY DEF FlagOK, IsEntitled, ActiveStatuses
  <2> QED  BY <2>1, UpsertedType
<1>2. CASE Insert(t, Upserted(NoSub, plan, sub, status, period, cancel))
  BY <1>0, <1>1, <1>2, InsertStep
<1>3. ASSUME NEW dated \in Redated(t, period),
             Update(t, [r \in found[t] |->
                          Upserted(seen[t][r], plan, sub, status, period, cancel)], dated)
      PROVE  IInv'
  <2>1. PICK new : new = [r \in found[t] |-> Upserted(seen[t][r], plan, sub, status, period, cancel)]
    OBVIOUS
  <2>2. \A r \in found[t] : /\ new[r] \in Sub /\ new[r].period = period
                            /\ FlagOK(new[r].status, new[r].period, new[r].entitled)
    <3>1. ASSUME NEW r \in found[t]
          PROVE  new[r] = Upserted(seen[t][r], plan, sub, status, period, cancel)
      BY <2>1
    <3>2. ASSUME NEW row PROVE Upserted(row, plan, sub, status, period, cancel).period = period
      BY DEF Upserted
    <3> QED  BY <1>1, <3>1, <3>2
  <2>3. dated \in BOOLEAN  BY DEF Redated
  <2>4. ASSUME NEW r \in found[t] \ raced, ~dated
        PROVE  subs[r].period = period \/ subs[r].period = "past"
    <3>1. seen[t][r].period = period  BY <2>4 DEF Redated
    <3> QED  BY <3>1 DEF IInv, Current, SameRow
  <2>5. ASSUME NEW r \in found[t] \ raced
        PROVE  FlagOK(new[r].status, IF dated THEN new[r].period ELSE subs[r].period,
                      new[r].entitled)
    BY <2>2, <2>4 DEF FlagOK
  <2> QED  BY <1>0, <1>3, <2>1, <2>2, <2>3, <2>5, UpdateStep
<1> QED  BY <1>2, <1>3 DEF HookSave

\* The flag is computed from the loaded period; an unraced row's can only have ended.
LEMMA RequestedStep ==
  ASSUME IInv, NEW t \in Threads, NEW cancel \in BOOLEAN,
         Update(t, [r \in found[t] |-> Requested(seen[t][r], cancel)], FALSE),
         UNCHANGED ended
  PROVE  IInv'
<1>0. ended' \subseteq SubRows  BY DEF IInv, TypeOK
<1>1. PICK new : new = [r \in found[t] |-> Requested(seen[t][r], cancel)]  OBVIOUS
<1>2. \A r \in found[t] : /\ new[r] \in Sub /\ new[r].status = "active"
                          /\ new[r].entitled = (seen[t][r].period # "past")
  BY <1>1, RequestedType DEF IInv, Loaded
<1>3. ASSUME NEW r \in found[t] \ raced
      PROVE  FlagOK(new[r].status, subs[r].period, new[r].entitled)
  <2>1. seen[t][r].period = subs[r].period \/ subs[r].period = "past"
    BY DEF IInv, Current, SameRow
  <2> QED  BY <1>2, <2>1 DEF FlagOK, ActiveStatuses
<1> QED  BY <1>0, <1>1, <1>2, <1>3, UpdateStep

LEMMA NextStep == IInv /\ [Next]_vars => IInv'
<1> SUFFICES ASSUME IInv, [Next]_vars PROVE IInv'  OBVIOUS
<1>1. ASSUME NEW t \in Threads, NEW plan \in Plans, ActivateLoad(t, plan) \/ ActivateSave(t, plan)
      PROVE IInv'
  BY <1>1, LoadsStep, ActivateSaveStep
<1>2. ASSUME NEW t \in Threads, DeactivateLoad(t) \/ DeactivateSave(t) \/ LinkLoad(t)
      PROVE IInv'
  BY <1>2, LoadsStep, DeactivateSaveStep
<1>3. ASSUME NEW t \in Threads, NEW plan \in Plans, NEW sub \in SubIds \cup {NoSubId},
             NEW status \in Statuses, LinkSave(t, plan, sub, status)
      PROVE IInv'
  BY <1>3, LinkSaveStep
<1>4. ASSUME NEW t \in Threads, NEW sub \in SubIds \cup {NoSubId}, HookLoad(t, sub) PROVE IInv'
  BY <1>4, LoadsStep
<1>5. ASSUME NEW t \in Threads, NEW plan \in Plans, NEW sub \in SubIds \cup {NoSubId},
             NEW status \in Statuses, NEW period \in {"none", "future", "past"},
             NEW cancel \in BOOLEAN, HookSave(t, plan, sub, status, period, cancel)
      PROVE IInv'
  BY <1>5, HookSaveStep
<1>6. ASSUME NEW t \in Threads, NEW label \in {"cancel", "resume"}, OwnLoad(t, label)
      PROVE IInv'
  BY <1>6, LoadsStep
<1>7. ASSUME NEW t \in Threads, CancelSave(t) \/ ResumeSave(t) PROVE IInv'
  BY <1>7, RequestedStep DEF CancelSave, ResumeSave
<1>8. ASSUME NEW t \in Threads, CheckoutLoad(t) \/ CheckoutSave(t) \/ Abort(t) PROVE IInv'
  BY <1>8, CheckoutLoadStep, CheckoutSaveStep, AbortStep
<1>9. ASSUME NEW r \in SubRows, PeriodEnds(r) PROVE IInv'  BY <1>9, PeriodEndsStep
<1>10. CASE Gate  BY <1>10, GateStep
<1>11. CASE UNCHANGED vars
  <2> USE <1>11 DEF IInv, vars, tables, thread, history
  <2>1. TypeOK'  BY DEF TypeOK, Rows, Unique
  <2>2. Loaded' /\ SavedExist' /\ Alone'  BY DEF Loaded, SavedExist, Alone, Rows
  <2>3. Current' /\ FlagFollowsRow'  BY DEF Current, SameRow, FlagFollowsRow, Passes
  <2>4. CheckoutCurrent' /\ SoldToKnownCustomer'  BY DEF CheckoutCurrent, SoldToKnownCustomer
  <2> QED  BY <2>1, <2>2, <2>3, <2>4
<1> QED
  BY <1>1, <1>2, <1>3, <1>4, <1>5, <1>6, <1>7, <1>8, <1>9, <1>10, <1>11 DEF Next

LEMMA Invariance == Spec => []IInv
BY InitInv, NextStep, PTL DEF Spec

-------------------------------------------------------------------------------
(* Theorems *)

\* Every table, thread and history variable keeps its type, and a provider's
\* subscription ids stay unique.
THEOREM TypeCorrect == Spec => []TypeOK
BY Invariance, PTL DEF IInv

\* A row that no two requests had in hand at one time carries the flag whenever the
\* gate passes it, and carries it only when active or trialing (entitlement_active,
\* user_has_active_subscription).
THEOREM FlagFollows == Spec => []FlagFollowsRow
BY Invariance, PTL DEF IInv

\* Unless two checkouts crossed, each checkout session is for the user's stored
\* customer (create_checkout_session).
THEOREM SoldToKnown == Spec => []SoldToKnownCustomer
BY Invariance, PTL DEF IInv

\* The inductive form: without grace, the period of an ended row is over.
Closed == ~Grace => \A r \in ended : subs[r].period = "past"

LEMMA UpdateKeepsClosed ==
  ASSUME IInv, Closed, NEW t \in Threads, NEW new, Update(t, new, FALSE), UNCHANGED ended
  PROVE  Closed'
<1>1. \A r \in SubRows : subs'[r].period = subs[r].period
  BY DEF Update, Merge
<1> QED  BY <1>1 DEF Closed, IInv, TypeOK

LEMMA OpenedRowsLeave ==
  ASSUME IInv, Closed, NEW t \in Threads, NEW new, NEW dated, Update(t, new, dated),
         ended' = ended \ found[t]
  PROVE  Closed'
<1>1. \A r \in SubRows \ found[t] : subs'[r] = subs[r]  BY DEF Update
<1> QED  BY <1>1 DEF Closed, IInv, TypeOK

LEMMA InsertKeepsClosed ==
  ASSUME IInv, Closed, NEW t \in Threads, NEW new, Insert(t, new), ended' \subseteq ended
  PROVE  Closed'
<1>1. PICK r \in SubRows \ Rows : subs' = [subs EXCEPT ![r] = new]  BY DEF Insert
<1>2. \A q \in SubRows \ {r} : subs'[q] = subs[q]  BY <1>1 DEF IInv, TypeOK
<1>3. subs[r].period = "none"  BY DEF Rows, NoSub
<1> QED  BY <1>2, <1>3 DEF Closed, IInv, TypeOK

LEMMA DeactivateCloses ==
  ASSUME IInv, Closed, NEW t \in Threads, DeactivateSave(t) PROVE Closed'
<1> SUFFICES ASSUME ~Grace, NEW r \in ended' PROVE subs'[r].period = "past"  BY DEF Closed
<1>1. PICK new : new = [q \in found[t] |-> Deactivated(seen[t][q])]  OBVIOUS
<1>2. Update(t, new, TRUE) /\ ended' = ended \cup found[t]  BY <1>1 DEF DeactivateSave
<1>3. r \in SubRows  BY <1>2 DEF IInv, TypeOK
<1>4. CASE r \in found[t]
  <2>1. subs'[r].period = new[r].period  BY <1>2, <1>3, <1>4 DEF Update, Merge
  <2>2. seen[t][r] \in Sub  BY <1>4 DEF IInv, Loaded
  <2> QED  BY <1>1, <1>4, <2>1, <2>2 DEF Deactivated, PeriodNow, Sub
<1>5. CASE r \notin found[t]
  <2>1. subs'[r] = subs[r]  BY <1>2, <1>3, <1>5 DEF Update
  <2> QED  BY <1>2, <1>5, <2>1 DEF Closed
<1> QED  BY <1>4, <1>5

LEMMA StaysClosed == IInv /\ Closed /\ [Next]_vars => Closed'
<1> SUFFICES ASSUME IInv, Closed, [Next]_vars PROVE Closed'  OBVIOUS
<1>1. ASSUME UNCHANGED <<subs, ended>> PROVE Closed'  BY <1>1 DEF Closed
<1>2. ASSUME NEW t \in Threads, NEW plan \in Plans, ActivateSave(t, plan) PROVE Closed'
  <2>1. ended' = ended \ found[t]  BY <1>2 DEF ActivateSave
  <2> QED  BY <1>2, <2>1, OpenedRowsLeave, InsertKeepsClosed DEF ActivateSave
<1>3. ASSUME NEW t \in Threads, NEW plan \in Plans, NEW sub \in SubIds \cup {NoSubId},
             NEW status \in Statuses, LinkSave(t, plan, sub, status)
      PROVE  Closed'
  <2>1. ended' = ended  BY <1>3 DEF LinkSave
  <2> QED  BY <1>3, <2>1, UpdateKeepsClosed, InsertKeepsClosed DEF LinkSave
<1>4. ASSUME NEW t \in Threads, NEW plan \in Plans, NEW sub \in SubIds \cup {NoSubId},
             NEW status \in Statuses, NEW period \in {"none", "future", "past"},
             NEW cancel \in BOOLEAN, HookSave(t, plan, sub, status, period, cancel)
      PROVE  Closed'
  <2>1. ended' = ended \ found[t]  BY <1>4 DEF HookSave
  <2> QED  BY <1>4, <2>1, OpenedRowsLeave, InsertKeepsClosed DEF HookSave
<1>5. ASSUME NEW t \in Threads, CancelSave(t) \/ ResumeSave(t) PROVE Closed'
  BY <1>5, UpdateKeepsClosed DEF CancelSave, ResumeSave
<1>6. ASSUME NEW r \in SubRows, PeriodEnds(r) PROVE Closed'
  <2>1. subs' = [subs EXCEPT ![r].period = "past"] /\ ended' = ended
    BY <1>6 DEF PeriodEnds
  <2>2. \A q \in SubRows : q # r => subs'[q] = subs[q]  BY <2>1 DEF IInv, TypeOK
  <2>3. subs[r] \in Sub  BY <1>6 DEF PeriodEnds, IInv, TypeOK, NoSub
  <2>4. subs'[r].period = "past"  BY <2>1, <2>3 DEF Sub, IInv, TypeOK
  <2> QED  BY <2>1, <2>2, <2>4 DEF Closed, IInv, TypeOK
<1>7. ASSUME NEW t \in Threads,
             \/ \E plan \in Plans : ActivateLoad(t, plan)
             \/ DeactivateLoad(t) \/ LinkLoad(t)
             \/ \E sub \in SubIds \cup {NoSubId} : HookLoad(t, sub)
             \/ \E label \in {"cancel", "resume"} : OwnLoad(t, label)
      PROVE  Closed'
  <2>1. ASSUME NEW rows, NEW label, Load(t, rows, label) PROVE UNCHANGED <<subs, ended>>
    BY <2>1 DEF Load, tables
  <2> QED
    BY <1>1, <1>7, <2>1 DEF ActivateLoad, DeactivateLoad, LinkLoad, HookLoad, OwnLoad
<1>8. ASSUME NEW t \in Threads, CheckoutLoad(t) \/ CheckoutSave(t) \/ Abort(t) PROVE Closed'
  BY <1>1, <1>8 DEF CheckoutLoad, CheckoutSave, Abort, tables
<1>9. CASE Gate \/ UNCHANGED vars  BY <1>1, <1>9 DEF Gate, vars, tables
<1> QED
  BY <1>2, <1>3, <1>4, <1>5, <1>6, <1>7, <1>8, <1>9, DeactivateCloses DEF Next

\* Without grace, no interleaving of cancels, resumes and links with a deactivation lets
\* the gate pass a row that the deactivation has saved (deactivate_internal_test_plan,
\* request_cancel_subscription, request_resume_subscription, link_test_subscription).
THEOREM DeactivatedStays == Spec => []DeactivatedStaysClosed
<1>1. Init => Closed  BY DEF Init, Closed
<1>2. Closed => DeactivatedStaysClosed  BY DEF Closed, DeactivatedStaysClosed, Passes
<1> QED  BY <1>1, <1>2, StaysClosed, Invariance, PTL DEF Spec

\* A deactivation ends each row it loaded and nobody else had in hand
\* (deactivate_internal_test_plan).
THEOREM DeactivateEnds == Spec => DeactivateEndsAccess
<1> DEFINE P == \A t \in Threads : DeactivateSave(t) =>
                  \A r \in found[t] \ raced : subs'[r].status # "active" /\ ~subs'[r].entitled
<1>1. IInv /\ [Next]_vars => P
  <2> SUFFICES ASSUME IInv, NEW t \in Threads, DeactivateSave(t), NEW r \in found[t] \ raced
               PROVE  subs'[r].status # "active" /\ ~subs'[r].entitled
    OBVIOUS
  <2>1. PICK dated \in BOOLEAN : Update(t, [q \in found[t] |-> Deactivated(seen[t][q])], dated)
    BY DEF DeactivateSave
  <2>2. r \in SubRows /\ seen[t][r] \in Sub /\ SameRow(seen[t][r], subs[r])
    BY DEF IInv, Loaded, Current, Rows
  <2>3. PICK new : new = Deactivated(seen[t][r])  OBVIOUS
  <2>4. new.status = "canceled" /\ new.entitled = FALSE  BY <2>2, <2>3, DeactivatedType
  <2>5. subs'[r] = Merge(new, seen[t][r], subs[r], dated)  BY <2>1, <2>2, <2>3 DEF Update
  <2>6. subs'[r].status = new.status /\ subs'[r].entitled = new.entitled
    BY <2>2, <2>5, MergeWhole
  <2> QED  BY <2>4, <2>6
<1> QED  BY <1>1, Invariance, PTL DEF Spec, DeactivateEndsAccess

\* While no two requests met on a row, the gate parts from the flag only over a trial
\* or over an active row whose period is over (user_has_active_subscription).
THEOREM GateAgrees == Spec => GateAgreesWithFlag
<1> DEFINE P == Gate /\ Enforced /\ raced = {} =>
                  /\ answer' = "admit" => \E r \in SubRows : subs[r].entitled
                  /\ answer' = "refuse" =>
                       \/ \E r \in ActiveRows : ~Passes(subs[r])
                       \/ \A r \in SubRows : subs[r].entitled => subs[r].status = "trialing"
<1>1. IInv /\ [Next]_vars => P
  <2> SUFFICES ASSUME IInv, Gate, Enforced, raced = {} PROVE P  OBVIOUS
  <2>1. PICK one \in Judged :
          answer' = IF ~Enforced \/ \E r \in one : Passes(subs[r]) THEN "admit" ELSE "refuse"
    BY DEF Gate
  <2>2. /\ one \subseteq ActiveRows /\ (ActiveRows # {} => one # {})
        /\ ActiveRows \subseteq SubRows
    BY DEF Judged, First, ActiveRows
  <2>3. \A r \in SubRows : /\ subs[r].status = "active" /\ Passes(subs[r]) => subs[r].entitled
                           /\ subs[r].entitled => subs[r].status \in ActiveStatuses
    BY DEF IInv, FlagFollowsRow
  <2>4. CASE \E r \in one : Passes(subs[r])
    <3>1. answer' = "admit"  BY <2>1, <2>4
    <3> QED  BY <2>2, <2>3, <2>4, <3>1 DEF ActiveRows
  <2>5. CASE ~\E r \in one : Passes(subs[r])
    <3>1. answer' = "refuse"  BY <2>1, <2>5
    <3>2. CASE ActiveRows # {}  BY <2>2, <2>5, <3>1, <3>2
    <3>3. CASE ActiveRows = {}
      <4>1. \A r \in SubRows : subs[r].entitled => subs[r].status = "trialing"
        BY <2>3, <3>3 DEF ActiveRows, ActiveStatuses
      <4> QED  BY <3>1, <4>1
    <3> QED  BY <3>2, <3>3
  <2> QED  BY <2>4, <2>5
<1> QED  BY <1>1, Invariance, PTL DEF Spec, GateAgreesWithFlag

-------------------------------------------------------------------------------
(* One request at a time *)

\* The hypothesis of this section: requests come one after the other.
OneThread == \A t, u \in Threads : t = u

IdleHoldsNothing == \A t \in Threads : pc[t] = "idle" => found[t] = {}

NothingRaced == IdleHoldsNothing /\ raced = {} /\ crossed = FALSE

LEMMA NothingRaces ==
  ASSUME OneThread, IInv, NothingRaced, [Next]_vars PROVE NothingRaced'
<1> USE DEF IInv, NothingRaced, IdleHoldsNothing, Goto, history, thread
<1>0. /\ pc \in [Threads -> {"idle", "activate", "deactivate", "link", "hook", "cancel",
                            "resume", "checkout"}]
      /\ found \in [Threads -> SUBSET SubRows]
  BY DEF TypeOK
<1>1. ASSUME NEW t \in Threads, NEW rows, Close(t, rows), UNCHANGED <<raced, crossed>> PROVE NothingRaced'
  BY <1>1, <1>0 DEF Close
<1>2. ASSUME NEW t \in Threads, NEW rows, NEW label, label # "idle", Load(t, rows, label)
      PROVE  NothingRaced'
  <2>1. \A u \in Threads : found[u] = {}  BY <1>2 DEF OneThread, Load
  <2>2. raced' = {} /\ crossed' = FALSE  BY <1>2, <2>1 DEF Load
  <2>3. pc'[t] # "idle"  BY <1>2, <1>0 DEF Load
  <2> QED  BY <2>2, <2>3 DEF OneThread
<1>3. ASSUME NEW t \in Threads, NEW new, NEW dated, Update(t, new, dated) PROVE NothingRaced'
  BY <1>1, <1>3 DEF Update
<1>4. ASSUME NEW t \in Threads, NEW new, Insert(t, new) PROVE NothingRaced'
  BY <1>1, <1>4 DEF Insert
<1>5. ASSUME NEW t \in Threads,
             \/ \E plan \in Plans : ActivateLoad(t, plan)
             \/ DeactivateLoad(t) \/ LinkLoad(t)
             \/ \E sub \in SubIds \cup {NoSubId} : HookLoad(t, sub)
             \/ \E label \in {"cancel", "resume"} : OwnLoad(t, label)
      PROVE  NothingRaced'
  BY <1>2, <1>5 DEF ActivateLoad, DeactivateLoad, LinkLoad, HookLoad, OwnLoad
<1>6. ASSUME NEW t \in Threads,
             \/ \E plan \in Plans : ActivateSave(t, plan)
             \/ DeactivateSave(t)
             \/ \E plan \in Plans, sub \in SubIds \cup {NoSubId}, status \in Statuses :
                  LinkSave(t, plan, sub, status)
             \/ \E plan \in Plans, sub \in SubIds \cup {NoSubId}, status \in Statuses,
                   period \in {"none", "future", "past"}, cancel \in BOOLEAN :
                  HookSave(t, plan, sub, status, period, cancel)
             \/ CancelSave(t) \/ ResumeSave(t)
      PROVE  NothingRaced'
  BY <1>3, <1>4, <1>6
  DEF ActivateSave, DeactivateSave, LinkSave, HookSave, CancelSave, ResumeSave
<1>7. ASSUME NEW t \in Threads, CheckoutLoad(t) PROVE NothingRaced'
  <2>1. crossed' = FALSE  BY <1>7 DEF CheckoutLoad, OneThread
  <2>2. pc'[t] # "idle"  BY <1>7, <1>0 DEF CheckoutLoad
  <2> QED  BY <1>7, <2>1, <2>2 DEF CheckoutLoad, OneThread
<1>8. ASSUME NEW t \in Threads, CheckoutSave(t) \/ Abort(t) PROVE NothingRaced'
  BY <1>1, <1>8 DEF CheckoutSave, Abort
<1>9. ASSUME UNCHANGED <<pc, found, raced, crossed>> PROVE NothingRaced'
  BY <1>9
<1> QED
  BY <1>5, <1>6, <1>7, <1>8, <1>9 DEF Next, PeriodEnds, Gate, vars

LEMMA SerialInvariance == ASSUME OneThread PROVE Spec => [](IInv /\ NothingRaced)
<1>1. Init => NothingRaced  BY DEF Init, NothingRaced, IdleHoldsNothing
<1>2. IInv /\ NothingRaced /\ [Next]_vars => NothingRaced'  BY NothingRaces
<1> QED  BY <1>1, <1>2, Invariance, PTL DEF Spec

\* Every row of a user has the flag that goes with it (entitlement_active), and every
\* checkout session is for the stored customer.
FlagIsRight ==
  /\ \A r \in SubRows : /\ subs[r].status = "active" /\ Passes(subs[r]) => subs[r].entitled
                        /\ subs[r].entitled => subs[r].status \in ActiveStatuses
  /\ sold \subseteq {customer}

\* One request at a time, the flag never parts from its row, whatever the order of
\* events, tests, cancels and resumes, and a user has one customer: two requests in hand
\* at one time are the only way (upsert_subscription, create_or_get_customer).
THEOREM SerialFlag == ASSUME OneThread PROVE Spec => []FlagIsRight
<1>1. IInv /\ NothingRaced => FlagIsRight
  BY DEF IInv, NothingRaced, FlagFollowsRow, SoldToKnownCustomer, FlagIsRight
<1> QED  BY <1>1, SerialInvariance, PTL

===============================================================================
