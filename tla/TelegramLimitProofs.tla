------------------------- MODULE TelegramLimitProofs --------------------------
(***************************************************************************)
(* Proofs about the rate limiters of TelegramBot, for any limits, any      *)
(* window and any number of users.                                         *)
(*                                                                         *)
(* A bucket forgets: it holds what _prune has left of the events let       *)
(* through, and admitted holds them all.  The inductive invariant relates  *)
(* the two: whatever moment of the window one looks back to, the bucket    *)
(* has as many events since as have been let through.                      *)
(***************************************************************************)
EXTENDS TelegramBotProofs, FiniteSetTheorems, SequenceTheorems

Scopes == {"prompt", "action"}

\* The events of a user that bot b has let through from a moment on.
Since(b, scope, u, moment) ==
  {e \in admitted[b] : e[1] = scope /\ e[2] = u /\ e[4] >= moment}

\* Those of them in the window that begins at a moment.
Within(b, scope, u, start) ==
  {e \in admitted[b] : e[1] = scope /\ e[2] = u /\ e[4] \in start..(start + Window)}

AdmittedTyped ==
  /\ buckets \in [Bots -> [Scopes \X Users -> Seq(Int)]]
  /\ admitted \in [Bots -> SUBSET (Scopes \X Users \X Int \X Int)]
  /\ \A b \in Bots : IsFiniteSet(admitted[b]) /\ \A e \in admitted[b] : e[4] <= now

\* If all but the last n events of a bucket are older than a moment in the window, at
\* most n have been let through since.
CountedBy(queue, b, scope, u, time) ==
  \A moment \in Int, n \in 0..Len(queue) :
    /\ moment >= time - Window
    /\ n = Len(queue) \/ queue[Len(queue) - n] < moment
    => Cardinality(Since(b, scope, u, moment)) <= n

Counted ==
  \A b \in Bots, scope \in Scopes, u \in Users :
    Limit(b, scope) > 0 => CountedBy(buckets[b][<<scope, u>>], b, scope, u, now)

LimitInv == AdmittedTyped /\ Counted /\ LimitPerWindow

-------------------------------------------------------------------------------
(* _prune *)

\* The scan stops: at the first event that has not expired, or past the last.
LEMMA ScanStops ==
  ASSUME NEW queue \in Seq(Int), NEW time \in Int
  PROVE  \E i \in 1..(Len(queue) + 1) :
           /\ \A j \in 1..(i - 1) : Expired(queue[j], time)
           /\ i <= Len(queue) => ~Expired(queue[i], time)
<1> DEFINE stops == {i \in 1..(Len(queue) + 1) : i <= Len(queue) => ~Expired(queue[i], time)}
<1>1. Len(queue) \in Nat  BY LenProperties
<1>2. stops \subseteq Nat /\ Len(queue) + 1 \in stops  BY <1>1
<1> HIDE DEF stops
<1>3. PICK i \in stops : \A j \in stops : ~ (j < i)
  <2> DEFINE before == {1..i : i \in stops}
  <2>1. before \subseteq FiniteSubsetsOf(Nat) /\ before # {}
    <3>1. \A i \in stops : 1..i \in SUBSET Nat /\ IsFiniteSet(1..i)  BY <1>2, FS_Interval
    <3> QED  BY <1>2, <3>1 DEF FiniteSubsetsOf
  <2> HIDE DEF before
  <2>2. PICK T \in before : \A U \in before : ~ (<<U, T>> \in StrictSubsetOrdering(Nat))
    BY <2>1, FS_StrictSubsetOrderingWellFounded, WFMin
  <2>3. PICK i \in stops : T = 1..i  BY DEF before
  <2>4. ASSUME NEW j \in stops, j < i PROVE FALSE
    <3>1. 1..j \subseteq 1..i /\ i \in 1..i /\ i \notin 1..j
      <4>1. i \in Nat /\ j \in Nat /\ 1 <= i  BY <1>1, <1>2 DEF stops
      <4> QED  BY <2>4, <4>1
    <3>2. 1..j \in SUBSET Nat /\ 1..i \in SUBSET Nat  OBVIOUS
    <3>3. <<1..j, 1..i>> \in StrictSubsetOrdering(Nat)
      BY <3>1, <3>2 DEF StrictSubsetOrdering
    <3> QED  BY <2>2, <2>3, <3>3 DEF before
  <2> QED  BY <2>4
<1>4. \A j \in 1..(i - 1) : Expired(queue[j], time)
  <2>1. i \in 1..(Len(queue) + 1)  BY DEF stops
  <2> QED  BY <1>1, <1>3, <2>1 DEF stops
<1> QED  BY <1>4 DEF stops

\* What _prune leaves is an end of the queue, and all it takes away has expired.
LEMMA PrunedIsEnd ==
  ASSUME NEW queue \in Seq(Int), NEW time \in Int
  PROVE  \E i \in 1..(Len(queue) + 1) :
           /\ Pruned(queue, time) \in Seq(Int)
           /\ Len(Pruned(queue, time)) = Len(queue) - i + 1
           /\ \A j \in 1..(Len(queue) - i + 1) : Pruned(queue, time)[j] = queue[i + j - 1]
           /\ \A j \in 1..(i - 1) : queue[j] < time - Window
<1> DEFINE stop(i) == /\ \A j \in 1..(i - 1) : Expired(queue[j], time)
                      /\ i <= Len(queue) => ~Expired(queue[i], time)
           first == CHOOSE i \in 1..(Len(queue) + 1) : stop(i)
<1>1. first \in 1..(Len(queue) + 1) /\ stop(first)  BY ScanStops
<1>2. Pruned(queue, time) = SubSeq(queue, first, Len(queue))  BY DEF Pruned
<1>3. \A j \in 1..(first - 1) : queue[j] < time - Window  BY <1>1 DEF Expired
<1>4. Len(queue) \in Nat /\ \A j \in 1..Len(queue) : queue[j] \in Int  BY LenProperties
<1> HIDE DEF first
<1>5. \A j \in first..Len(queue) : queue[j] \in Int  BY <1>1, <1>4
<1>6. /\ SubSeq(queue, first, Len(queue)) \in Seq(Int)
      /\ Len(SubSeq(queue, first, Len(queue)))
           = IF first <= Len(queue) THEN Len(queue) - first + 1 ELSE 0
      /\ \A j \in 1..(Len(queue) - first + 1) :
           SubSeq(queue, first, Len(queue))[j] = queue[first + j - 1]
  BY <1>1, <1>4, <1>5, SubSeqProperties
<1>7. first > Len(queue) => Len(queue) - first + 1 = 0  BY <1>1, <1>4
<1>8. Len(Pruned(queue, time)) = Len(queue) - first + 1  BY <1>2, <1>6, <1>7
<1> QED  BY <1>1, <1>2, <1>3, <1>6, <1>8

\* A pruned bucket still counts what its user has been let through.
LEMMA PrunedCounts ==
  ASSUME NEW queue \in Seq(Int), NEW b \in Bots, NEW scope \in Scopes, NEW u \in Users,
         NEW old \in Int, NEW time \in Int, old <= time,
         CountedBy(queue, b, scope, u, old)
  PROVE  CountedBy(Pruned(queue, time), b, scope, u, time)
<1> DEFINE left == Pruned(queue, time)
<1>1. PICK i \in 1..(Len(queue) + 1) :
        /\ left \in Seq(Int)
        /\ Len(left) = Len(queue) - i + 1
        /\ \A j \in 1..(Len(queue) - i + 1) : left[j] = queue[i + j - 1]
        /\ \A j \in 1..(i - 1) : queue[j] < time - Window
  BY PrunedIsEnd
<1> HIDE DEF left
<1>2. Len(queue) \in Nat /\ Window \in Nat  BY LenProperties, TelegramAssumption
<1>3. ASSUME NEW moment \in Int, NEW n \in 0..Len(left), moment >= time - Window,
             n = Len(left) \/ left[Len(left) - n] < moment
      PROVE  Cardinality(Since(b, scope, u, moment)) <= n
  <2>1. n \in 0..Len(queue) /\ moment >= old - Window  BY <1>1, <1>2, <1>3
  <2>2. n = Len(queue) \/ queue[Len(queue) - n] < moment
    <3>1. CASE n < Len(left)
      <4>1. left[Len(left) - n] = queue[Len(queue) - n]
        BY <1>1, <1>2, <3>1
      <4> QED  BY <1>3, <3>1, <4>1
    <3>2. CASE n = Len(left) /\ i > 1
      <4>1. Len(queue) - n = i - 1 /\ i - 1 \in 1..(i - 1)  BY <1>1, <1>2, <3>2
      <4>2. queue[i - 1] < time - Window /\ queue[i - 1] \in Int
        BY <1>1, <1>2, <4>1, LenProperties
      <4> QED  BY <1>2, <1>3, <4>1, <4>2
    <3>3. CASE n = Len(left) /\ i = 1  BY <1>1, <1>2, <3>3
    <3>4. n \in 0..Len(left) /\ Len(left) \in Nat /\ i \in Nat /\ i >= 1  BY <1>1, <1>2
    <3> QED  BY <3>1, <3>2, <3>3, <3>4
  <2> QED  BY <2>1, <2>2 DEF CountedBy
<1> QED  BY <1>3 DEF CountedBy, left

-------------------------------------------------------------------------------
(* The steps *)

LEMMA WindowInNat == Window \in Nat
BY TelegramAssumption

LEMMA LimitInNat ==
  ASSUME NEW b \in Bots, NEW scope PROVE Limit(b, scope) \in Nat
BY TelegramAssumption DEF Limit

LEMMA EmptyCounts == IsFiniteSet({}) /\ Cardinality({}) = 0
BY FS_EmptySet

\* A set with at most one element more counts at most one more.
LEMMA OneMore ==
  ASSUME NEW S, IsFiniteSet(S), NEW x, NEW T, T \subseteq S \cup {x},
         NEW n \in Int, Cardinality(S) \in Nat, Cardinality(S) <= n - 1
  PROVE  Cardinality(T) <= n
<1>1. IsFiniteSet(S \cup {x}) /\ Cardinality(S \cup {x}) \in {Cardinality(S), Cardinality(S) + 1}
  BY FS_AddElement
<1>2. T \in SUBSET (S \cup {x})  OBVIOUS
<1>3. Cardinality(T) <= Cardinality(S \cup {x})  BY <1>1, <1>2, FS_Subset
<1>4. Cardinality(T) \in Nat  BY <1>1, <1>2, FS_Subset, FS_CardinalityType
<1> QED  BY <1>1, <1>3, <1>4

LEMMA SinceFinite ==
  ASSUME AdmittedTyped, NEW b \in Bots, NEW scope, NEW u, NEW moment
  PROVE  /\ IsFiniteSet(Since(b, scope, u, moment))
         /\ Cardinality(Since(b, scope, u, moment)) \in Nat
<1>1. Since(b, scope, u, moment) \in SUBSET admitted[b]  BY DEF Since
<1> QED  BY <1>1, FS_Subset, FS_CardinalityType DEF AdmittedTyped

\* A step that leaves the buckets alone, whatever the time.
LEMMA NothingAdmitted ==
  ASSUME LimitInv, UNCHANGED <<admitted, buckets>>, now \in Int,
         NEW time \in Int, now' = time, now <= time
  PROVE  LimitInv'
<1>1. AdmittedTyped'
  <2>1. ASSUME NEW b \in Bots, NEW e \in admitted[b] PROVE e[4] <= time
    <3>1. e[4] \in Int /\ e[4] <= now  BY DEF LimitInv, AdmittedTyped
    <3> QED  BY <3>1
  <2> QED  BY <2>1 DEF LimitInv, AdmittedTyped
<1>2. LimitPerWindow'  BY DEF LimitInv, LimitPerWindow
<1>3. ASSUME NEW b \in Bots, NEW scope \in Scopes, NEW u \in Users, Limit(b, scope) > 0,
             NEW moment \in Int, NEW n \in 0..Len(buckets[b][<<scope, u>>]),
             moment >= time - Window,
             \/ n = Len(buckets[b][<<scope, u>>])
             \/ buckets[b][<<scope, u>>][Len(buckets[b][<<scope, u>>]) - n] < moment
      PROVE  Cardinality(Since(b, scope, u, moment)) <= n
  <2>1. moment >= now - Window  BY <1>3, WindowInNat
  <2> QED  BY <1>3, <2>1 DEF LimitInv, Counted, CountedBy
<1>4. Counted'  BY <1>3 DEF Counted, CountedBy, Since
<1> QED  BY <1>1, <1>2, <1>4 DEF LimitInv

LEMMA CrashKeepsLimit ==
  ASSUME LimitInv, NEW b \in Bots, Crash(b) PROVE LimitInv'
<1> USE DEF LimitInv
<1>1. /\ buckets' = [buckets EXCEPT ![b] = NoEvents]
      /\ admitted' = [admitted EXCEPT ![b] = {}] /\ now' = now
  BY DEF Crash
<1>2. NoEvents \in [Scopes \X Users -> Seq(Int)]  BY DEF NoEvents, Scopes
<1>3. AdmittedTyped'  BY <1>1, <1>2, EmptyCounts DEF AdmittedTyped
<1>4. \A c \in Bots, scope \in Scopes, u \in Users, moment \in Int :
        Since(c, scope, u, moment)' = IF c = b THEN {} ELSE Since(c, scope, u, moment)
  BY <1>1 DEF Since, AdmittedTyped
<1>5. Counted'
  <2>1. ASSUME NEW c \in Bots, NEW scope \in Scopes, NEW u \in Users, Limit(c, scope) > 0,
               NEW moment \in Int, NEW n \in 0..Len(buckets'[c][<<scope, u>>]),
               moment >= now' - Window,
               \/ n = Len(buckets'[c][<<scope, u>>])
               \/ buckets'[c][<<scope, u>>][Len(buckets'[c][<<scope, u>>]) - n] < moment
        PROVE  Cardinality(Since(c, scope, u, moment)') <= n
    <3>1. CASE c = b
      <4>1. Since(c, scope, u, moment)' = {}  BY <1>4, <3>1
      <4>2. Cardinality(Since(c, scope, u, moment)') = 0  BY <4>1, EmptyCounts
      <4>3. 0 <= n  OBVIOUS
      <4> QED  BY <4>2, <4>3
    <3>2. CASE c # b
      <4>1. buckets'[c] = buckets[c] /\ Since(c, scope, u, moment)' = Since(c, scope, u, moment)
        BY <1>1, <1>4, <3>2 DEF AdmittedTyped
      <4> QED  BY <1>1, <2>1, <4>1 DEF Counted, CountedBy
    <3> QED  BY <3>1, <3>2
  <2> QED  BY <2>1 DEF Counted, CountedBy
<1>6. LimitPerWindow'
  <2>1. ASSUME NEW c \in Bots PROVE admitted'[c] = admitted[c] \/ admitted'[c] = {}
    BY <1>1 DEF AdmittedTyped
  <2>2. ASSUME NEW c \in Bots, NEW scope \in Scopes, NEW u \in Users, NEW start \in 0..MaxTime,
               Limit(c, scope) > 0, admitted'[c] = {}
        PROVE  Cardinality({e \in admitted'[c] : /\ e[1] = scope /\ e[2] = u
                                                 /\ e[4] \in start..(start + Window)}) <= Limit(c, scope)
    <3>1. {e \in admitted'[c] : /\ e[1] = scope /\ e[2] = u
                                /\ e[4] \in start..(start + Window)} = {}  BY <2>2
    <3>2. Limit(c, scope) >= 0  BY LimitInNat
    <3>3. Cardinality({}) = 0  BY EmptyCounts
    <3> QED  BY <3>1, <3>2, <3>3
  <2> QED  BY <2>1, <2>2 DEF LimitPerWindow, Scopes
<1> QED  BY <1>3, <1>5, <1>6

\* A step that lets nobody through but a user of a scope.
NobodyElse(b, scope, u) ==
  \A c \in Bots, s \in Scopes, v \in Users, moment \in Int :
    \/ Since(c, s, v, moment)' = Since(c, s, v, moment)
    \/ c = b /\ s = scope /\ v = u

\* A step that writes one bucket: the others still count.
LEMMA BucketStep ==
  ASSUME LimitInv, now \in Int, NEW time \in Int, now' = time, now <= time,
         NEW b \in Bots, NEW scope \in Scopes, NEW u \in Users, NEW queue \in Seq(Int),
         buckets' = [buckets EXCEPT ![b][<<scope, u>>] = queue],
         NobodyElse(b, scope, u),
         Limit(b, scope) > 0 => CountedBy(queue, b, scope, u, time)'
  PROVE  Counted' /\ buckets' \in [Bots -> [Scopes \X Users -> Seq(Int)]]
<1>1. buckets \in [Bots -> [Scopes \X Users -> Seq(Int)]]  BY DEF LimitInv, AdmittedTyped
<1>2. \A c \in Bots, s \in Scopes, v \in Users :
        buckets'[c][<<s, v>>] = IF c = b /\ s = scope /\ v = u THEN queue
                                ELSE buckets[c][<<s, v>>]
  BY <1>1
<1>3. buckets' \in [Bots -> [Scopes \X Users -> Seq(Int)]]  BY <1>1
<1>4. ASSUME NEW c \in Bots, NEW s \in Scopes, NEW v \in Users, Limit(c, s) > 0,
             NEW moment \in Int, NEW n \in 0..Len(buckets'[c][<<s, v>>]),
             moment >= time - Window,
             \/ n = Len(buckets'[c][<<s, v>>])
             \/ buckets'[c][<<s, v>>][Len(buckets'[c][<<s, v>>]) - n] < moment
      PROVE  Cardinality(Since(c, s, v, moment)') <= n
  <2>1. CASE c = b /\ s = scope /\ v = u
    <3>1. buckets'[c][<<s, v>>] = queue  BY <1>2, <2>1
    <3> QED  BY <1>4, <2>1, <3>1 DEF CountedBy
  <2>2. CASE ~ (c = b /\ s = scope /\ v = u)
    <3>1. buckets'[c][<<s, v>>] = buckets[c][<<s, v>>]  BY <1>2, <2>2
    <3>2. Since(c, s, v, moment)' = Since(c, s, v, moment)  BY <2>2 DEF NobodyElse
    <3>3. moment >= now - Window  BY <1>4, WindowInNat
    <3> QED  BY <1>4, <3>1, <3>2, <3>3 DEF LimitInv, Counted, CountedBy
  <2> QED  BY <2>1, <2>2
<1>5. Counted'  BY <1>4 DEF Counted, CountedBy
<1> QED  BY <1>3, <1>5

\* Whose bucket a limiter looks at.
LEMMA LimiterTypes ==
  ASSUME TypeOK, NEW b \in Bots, pc[b] = "begin"
  PROVE  /\ Scope(b) \in Scopes /\ hand[b].user \in Users /\ hand[b].id \in Int
         /\ now \in Int /\ MaxTime \in Int
<1>1. hand[b] \in Update  BY InHand
<1>2. Scope(b) \in Scopes  BY DEF Scope, Scopes
<1>3. now \in 0..MaxTime  BY DEF TypeOK
<1>4. MaxTime \in Nat  BY TelegramAssumption
<1> QED  BY <1>1, <1>2, <1>3, <1>4 DEF Update

LEMMA LimitedKeepsLimit ==
  ASSUME TypeOK, LimitInv, NEW b \in Bots, NEW time \in now..MaxTime, Limited(b, time)
  PROVE  LimitInv'
<1>1. Scope(b) \in Scopes /\ hand[b].user \in Users /\ now \in Int /\ MaxTime \in Int
  BY LimiterTypes DEF Limited
<1>2. PICK scope \in Scopes, u \in Users : scope = Scope(b) /\ u = hand[b].user  BY <1>1
<1>3. time \in Int /\ now <= time /\ now' = time  BY <1>1 DEF Limited
<1>4. PICK old \in Seq(Int) : old = buckets[b][<<scope, u>>]
  BY <1>2 DEF LimitInv, AdmittedTyped
<1>5. PICK queue \in Seq(Int) : queue = Pruned(old, time)  BY <1>3, PrunedIsEnd
<1>6. buckets' = [buckets EXCEPT ![b][<<scope, u>>] = queue] /\ admitted' = admitted
  BY <1>2, <1>4, <1>5 DEF Limited, Bucket, Reply, history
<1>7. \A c \in Bots : \A s, v, moment : Since(c, s, v, moment)' = Since(c, s, v, moment)
  BY <1>6 DEF Since
<1>8. ASSUME Limit(b, scope) > 0 PROVE CountedBy(queue, b, scope, u, time)
  <2>1. CountedBy(old, b, scope, u, now)  BY <1>4, <1>8 DEF LimitInv, Counted
  <2> QED  BY <1>1, <1>3, <1>5, <2>1, PrunedCounts
<1>9. Counted' /\ buckets' \in [Bots -> [Scopes \X Users -> Seq(Int)]]
  <2>1. NobodyElse(b, scope, u)  BY <1>7 DEF NobodyElse
  <2>2. Limit(b, scope) > 0 => CountedBy(queue, b, scope, u, time)'
    BY <1>7, <1>8 DEF CountedBy
  <2>3. buckets' = [buckets EXCEPT ![b][<<scope, u>>] = queue]  BY <1>6
  <2> QED  BY <1>1, <1>3, <2>1, <2>2, <2>3, BucketStep
<1>10. ASSUME NEW c \in Bots, NEW e \in admitted[c] PROVE e[4] <= time
  <2>1. e[4] \in Int /\ e[4] <= now  BY DEF LimitInv, AdmittedTyped
  <2> QED  BY <1>1, <1>3, <2>1
<1>11. AdmittedTyped'  BY <1>3, <1>6, <1>9, <1>10 DEF LimitInv, AdmittedTyped
<1>12. LimitPerWindow'  BY <1>6 DEF LimitInv, LimitPerWindow
<1> QED  BY <1>9, <1>11, <1>12 DEF LimitInv

\* An event joins the bucket and what has been let through: both count one more.
LEMMA AppendCounts ==
  ASSUME AdmittedTyped, NEW b \in Bots, NEW scope \in Scopes, NEW u \in Users, NEW id,
         NEW queue \in Seq(Int), NEW time \in Int, now \in Int, now <= time,
         CountedBy(queue, b, scope, u, time),
         admitted' = [admitted EXCEPT ![b] = @ \cup {<<scope, u, id, time>>}]
  PROVE  CountedBy(Append(queue, time), b, scope, u, time)'
<1> DEFINE longer == Append(queue, time)
<1>1. /\ Len(queue) \in Nat /\ Len(longer) = Len(queue) + 1
      /\ \A j \in 1..Len(queue) : longer[j] = queue[j]
      /\ longer[Len(queue) + 1] = time
  BY LenProperties, AppendProperties
<1> HIDE DEF longer
<1>2. admitted'[b] = admitted[b] \cup {<<scope, u, id, time>>}  BY DEF AdmittedTyped
<1>3. ASSUME NEW moment \in Int, NEW n \in 0..Len(longer), moment >= time - Window,
             n = Len(longer) \/ longer[Len(longer) - n] < moment
      PROVE  Cardinality(Since(b, scope, u, moment)') <= n
  <2>1. CASE n = 0
    <3>1. time < moment  BY <1>1, <1>3, <2>1
    <3>2. ASSUME NEW e \in admitted'[b] PROVE ~ (e[4] >= moment)
      <4>1. CASE e = <<scope, u, id, time>>  BY <3>1, <4>1
      <4>2. CASE e \in admitted[b]
        <5>1. e[4] \in Int /\ e[4] <= now  BY <4>2 DEF AdmittedTyped
        <5> QED  BY <3>1, <5>1
      <4> QED  BY <1>2, <4>1, <4>2
    <3>3. Since(b, scope, u, moment)' = {}  BY <3>2 DEF Since
    <3>4. Cardinality(Since(b, scope, u, moment)') = 0  BY <3>3, EmptyCounts
    <3> QED  BY <2>1, <3>4
  <2>2. CASE n > 0
    <3>1. n - 1 \in 0..Len(queue)  BY <1>1, <2>2
    <3>2. n - 1 = Len(queue) \/ queue[Len(queue) - (n - 1)] < moment
      <4>1. CASE n = Len(longer)  BY <1>1, <4>1
      <4>2. CASE n < Len(longer)
        <5>1. Len(longer) - n = Len(queue) - (n - 1)  BY <1>1
        <5>2. Len(longer) - n \in 1..Len(queue)  BY <1>1, <2>2, <4>2
        <5> QED  BY <1>1, <1>3, <4>2, <5>1, <5>2
      <4> QED  BY <1>1, <4>1, <4>2
    <3>3. Cardinality(Since(b, scope, u, moment)) <= n - 1  BY <1>3, <3>1, <3>2 DEF CountedBy
    <3>4. /\ IsFiniteSet(Since(b, scope, u, moment))
          /\ Cardinality(Since(b, scope, u, moment)) \in Nat
      BY SinceFinite
    <3>5. Since(b, scope, u, moment)'
            \subseteq Since(b, scope, u, moment) \cup {<<scope, u, id, time>>}
      BY <1>2 DEF Since
    <3>6. PICK before, after : /\ before = Since(b, scope, u, moment)
                               /\ after = Since(b, scope, u, moment)'
      OBVIOUS
    <3>7. n \in Int /\ Cardinality(before) <= n - 1  BY <1>1, <3>3, <3>6
    <3>8. IsFiniteSet(before) /\ Cardinality(before) \in Nat  BY <3>4, <3>6
    <3>9. after \subseteq before \cup {<<scope, u, id, time>>}  BY <3>5, <3>6
    <3>10. Cardinality(after) <= n  BY <3>7, <3>8, <3>9, OneMore
    <3> QED  BY <3>6, <3>10
  <2> QED  BY <1>1, <2>1, <2>2
<1> QED  BY <1>3 DEF CountedBy, longer

\* An event within a window of the limit is let through only if the bucket has room.
LEMMA AdmitKeepsLimit ==
  ASSUME TypeOK, LimitInv, NEW b \in Bots, NEW time \in now..MaxTime, Admit(b, time)
  PROVE  LimitInv'
<1>1. /\ Scope(b) \in Scopes /\ hand[b].user \in Users /\ hand[b].id \in Int
      /\ now \in Int /\ MaxTime \in Int
  BY LimiterTypes DEF Admit
<1>2. PICK scope \in Scopes, u \in Users, id \in Int :
        scope = Scope(b) /\ u = hand[b].user /\ id = hand[b].id
  BY <1>1
<1>3. CASE Limit(b, scope) = 0
  <2>1. UNCHANGED <<admitted, buckets>> /\ now' = now  BY <1>2, <1>3 DEF Admit
  <2> QED  BY <1>1, <2>1, NothingAdmitted
<1>4. CASE Limit(b, scope) # 0
  <2>1. time \in Int /\ now <= time /\ now' = time  BY <1>1, <1>2, <1>4 DEF Admit
  <2>2. PICK old \in Seq(Int) : old = buckets[b][<<scope, u>>]
    BY <1>2 DEF LimitInv, AdmittedTyped
  <2>3. PICK left \in Seq(Int) : left = Pruned(old, time)  BY <2>1, PrunedIsEnd
  <2>4. PICK queue \in Seq(Int) : queue = Append(left, time)  BY <2>1, AppendProperties
  <2>5. /\ buckets' = [buckets EXCEPT ![b][<<scope, u>>] = queue]
        /\ admitted' = [admitted EXCEPT ![b] = @ \cup {<<scope, u, id, time>>}]
        /\ Len(left) < Limit(b, scope)
    BY <1>2, <1>4, <2>2, <2>3, <2>4 DEF Admit, Allowed, Bucket
  <2>6. Limit(b, scope) \in Nat /\ Limit(b, scope) > 0  BY <1>4, LimitInNat
  <2>7. CountedBy(left, b, scope, u, time)
    <3>1. CountedBy(old, b, scope, u, now)  BY <2>2, <2>6 DEF LimitInv, Counted
    <3> QED  BY <1>1, <2>1, <2>3, <3>1, PrunedCounts
  <2>8. AdmittedTyped  BY DEF LimitInv
  <2>9. NobodyElse(b, scope, u)
    <3>1. ASSUME NEW c \in Bots, NEW s \in Scopes, NEW v \in Users, NEW moment \in Int,
                 ~ (c = b /\ s = scope /\ v = u)
          PROVE  Since(c, s, v, moment)' = Since(c, s, v, moment)
      <4>1. CASE c # b
        <5>1. admitted'[c] = admitted[c]  BY <2>5, <2>8, <4>1 DEF AdmittedTyped
        <5> QED  BY <5>1 DEF Since
      <4>2. CASE c = b
        <5>1. admitted'[c] = admitted[c] \cup {<<scope, u, id, time>>}
          BY <2>5, <2>8, <4>2 DEF AdmittedTyped
        <5>2. s # scope \/ v # u  BY <3>1, <4>2
        <5> QED  BY <5>1, <5>2 DEF Since
      <4> QED  BY <4>1, <4>2
    <3> QED  BY <3>1 DEF NobodyElse
  <2>10. CountedBy(queue, b, scope, u, time)'
    <3>1. CountedBy(Append(left, time), b, scope, u, time)'
      BY <1>1, <2>1, <2>5, <2>7, <2>8, AppendCounts
    <3> QED  BY <2>4, <3>1 DEF CountedBy
  <2>11. Counted' /\ buckets' \in [Bots -> [Scopes \X Users -> Seq(Int)]]
    BY <1>1, <2>1, <2>5, <2>9, <2>10, BucketStep
  <2>12. AdmittedTyped'
    <3>1. admitted' \in [Bots -> SUBSET (Scopes \X Users \X Int \X Int)]
      <4>1. <<scope, u, id, time>> \in Scopes \X Users \X Int \X Int  BY <2>1
      <4> QED  BY <2>5, <2>8, <4>1 DEF AdmittedTyped
    <3>2. ASSUME NEW c \in Bots PROVE IsFiniteSet(admitted'[c])
      <4>1. admitted'[c] = admitted[c] \/ admitted'[c] = admitted[c] \cup {<<scope, u, id, time>>}
        BY <2>5, <2>8 DEF AdmittedTyped
      <4>2. IsFiniteSet(admitted[c])  BY <2>8 DEF AdmittedTyped
      <4> QED  BY <4>1, <4>2, FS_AddElement
    <3>3. ASSUME NEW c \in Bots, NEW e \in admitted'[c] PROVE e[4] <= time
      <4>1. CASE e = <<scope, u, id, time>>  BY <2>1, <4>1
      <4>2. CASE e \in admitted[c]
        <5>1. e[4] \in Int /\ e[4] <= now  BY <2>8, <4>2 DEF AdmittedTyped
        <5> QED  BY <1>1, <2>1, <5>1
      <4>3. e = <<scope, u, id, time>> \/ e \in admitted[c]
        BY <2>5, <2>8, <3>3 DEF AdmittedTyped
      <4> QED  BY <4>1, <4>2, <4>3
    <3> QED  BY <2>1, <2>11, <3>1, <3>2, <3>3 DEF AdmittedTyped
  <2>13. LimitPerWindow'
    <3>1. ASSUME NEW c \in Bots, NEW s \in Scopes, NEW v \in Users, NEW start \in 0..MaxTime,
                 Limit(c, s) > 0
          PROVE  Cardinality(Within(c, s, v, start)') <= Limit(c, s)
      <4>1. Cardinality(Within(c, s, v, start)) <= Limit(c, s)
        BY <3>1 DEF LimitInv, LimitPerWindow, Within, Scopes
      <4>2. CASE Within(c, s, v, start)' = Within(c, s, v, start)  BY <4>1, <4>2
      <4>3. CASE Within(c, s, v, start)' # Within(c, s, v, start)
        <5>1. c = b /\ s = scope /\ v = u /\ time \in start..(start + Window)
          <6>1. CASE c # b
            <7>1. admitted'[c] = admitted[c]  BY <2>5, <2>8, <6>1 DEF AdmittedTyped
            <7> QED  BY <4>3, <7>1 DEF Within
          <6>2. CASE c = b
            <7>1. admitted'[c] = admitted[c] \cup {<<scope, u, id, time>>}
              BY <2>5, <2>8, <6>2 DEF AdmittedTyped
            <7> QED  BY <4>3, <6>2, <7>1 DEF Within
          <6> QED  BY <6>1, <6>2
        <5>2. start \in Int /\ start >= time - Window  BY <1>1, <2>1, <5>1, WindowInNat
        <5>3. Cardinality(Since(b, scope, u, start)) <= Len(left)
          <6>1. Len(left) \in 0..Len(left)  BY LenProperties
          <6> QED  BY <2>7, <5>2, <6>1 DEF CountedBy
        <5>4. Within(b, scope, u, start)'
                \subseteq Since(b, scope, u, start) \cup {<<scope, u, id, time>>}
          BY <1>1, <2>5, <2>8, <5>2 DEF Within, Since, AdmittedTyped
        <5>5. PICK before, after : /\ before = Since(b, scope, u, start)
                                   /\ after = Within(b, scope, u, start)'
          OBVIOUS
        <5>6. IsFiniteSet(before) /\ Cardinality(before) \in Nat  BY <2>8, <5>5, SinceFinite
        <5>7. Len(left) \in Nat  BY LenProperties
        <5>8. Cardinality(before) <= Limit(b, scope) - 1
          BY <2>5, <2>6, <5>3, <5>5, <5>6, <5>7
        <5>9. Cardinality(after) <= Limit(b, scope)
          <6>1. after \subseteq before \cup {<<scope, u, id, time>>}  BY <5>4, <5>5
          <6>2. PICK most \in Int : most = Limit(b, scope)  BY <2>6
          <6>3. Cardinality(before) <= most - 1  BY <5>8, <6>2
          <6>4. Cardinality(after) <= most  BY <5>6, <6>1, <6>3, OneMore
          <6> QED  BY <6>2, <6>4
        <5> QED  BY <5>1, <5>5, <5>9
      <4> QED  BY <4>2, <4>3
    <3> QED  BY <3>1 DEF LimitPerWindow, Within, Scopes
  <2> QED  BY <2>11, <2>12, <2>13 DEF LimitInv
<1> QED  BY <1>3, <1>4

\* All other steps leave the buckets alone.
LEMMA LimitStep == TypeOK /\ LimitInv /\ [Next]_vars => LimitInv'
<1> SUFFICES ASSUME TypeOK, LimitInv, [Next]_vars PROVE LimitInv'  OBVIOUS
<1>1. now \in Int
  <2>1. now \in 0..MaxTime  BY DEF TypeOK
  <2> QED  BY <2>1, TelegramAssumption
<1>2. CASE UNCHANGED <<buckets, admitted, now>>  BY <1>1, <1>2, NothingAdmitted
<1>3. ASSUME NEW b \in Bots, NEW time \in now..MaxTime, Limited(b, time) \/ Admit(b, time)
      PROVE  LimitInv'
  BY <1>3, LimitedKeepsLimit, AdmitKeepsLimit
<1>4. ASSUME NEW b \in Bots, Crash(b) PROVE LimitInv'  BY <1>4, CrashKeepsLimit
<1>5. ASSUME NEW u \in Users, (\E entry \in Entries : Send(u, entry)) \/ ApiCreateUser(u)
      PROVE  UNCHANGED <<buckets, admitted, now>>
  BY <1>5 DEF Send, ApiCreateUser, history
<1>6. ASSUME NEW b \in Bots, Fetch(b) \/ Take(b) \/ StartBot(b)
      PROVE  UNCHANGED <<buckets, admitted, now>>
  BY <1>6 DEF Fetch, Take, StartBot, history
<1>7. ASSUME NEW b \in Bots,
             \/ Answer(b) \/ Disabled(b) \/ Usage(b)
             \/ Help(b) \/ Catalogue(b) \/ HistoryOfRounds(b)
             \/ LookUp(b) \/ Start(b) \/ Prompt(b)
             \/ Play(b) \/ Replay(b) \/ EngineRejects(b) \/ LogRejection(b) \/ WorkFails(b)
      PROVE  UNCHANGED <<buckets, admitted, now>>
  BY <1>7
     DEF Answer, Disabled, Usage, Help, Catalogue, HistoryOfRounds, LookUp, Start, Prompt,
         Registered, Play, Replay, EngineRejects, LogRejection, WorkFails, Saved, Reply, GiveUp, history
<1>8. ASSUME NEW b \in Bots,
             Voice(b) \/ Edit(b) \/ ReplyText(b) \/ Encore(b) \/ CallFails(b)
      PROVE  UNCHANGED <<buckets, admitted, now>>
  BY <1>8 DEF Voice, Edit, ReplyText, Encore, CallFails, Deliver, GiveUp, history
<1>9. CASE UNCHANGED vars
  <2>1. UNCHANGED <<buckets, admitted, now>>  BY <1>9 DEF vars, history
  <2> QED  BY <1>2, <2>1
<1>10. ASSUME NEW b \in Bots, HandlerStep(b) PROVE LimitInv'
  BY <1>2, <1>3, <1>7, <1>8, <1>10 DEF HandlerStep
<1> QED  BY <1>2, <1>4, <1>5, <1>6, <1>9, <1>10 DEF Next

LEMMA InitLimit == Init => LimitInv
<1> SUFFICES ASSUME Init PROVE LimitInv  OBVIOUS
<1>1. AdmittedTyped
  <2>1. NoEvents \in [Scopes \X Users -> Seq(Int)]  BY DEF NoEvents, Scopes
  <2> QED  BY <2>1, EmptyCounts DEF Init, AdmittedTyped
<1>2. \A b \in Bots : \A scope, u, moment, start :
        Since(b, scope, u, moment) = {} /\ Within(b, scope, u, start) = {}
  BY DEF Init, Since, Within
<1>3. Counted
  <2>1. ASSUME NEW b \in Bots, NEW scope \in Scopes, NEW u \in Users, NEW moment \in Int,
               NEW n \in 0..Len(buckets[b][<<scope, u>>])
        PROVE  Cardinality(Since(b, scope, u, moment)) <= n
    <3>1. Cardinality(Since(b, scope, u, moment)) = 0  BY <1>2, EmptyCounts
    <3>2. 0 <= n  OBVIOUS
    <3> QED  BY <3>1, <3>2
  <2> QED  BY <2>1 DEF Counted, CountedBy
<1>4. LimitPerWindow
  <2>1. ASSUME NEW b \in Bots, NEW scope \in Scopes, NEW u \in Users, NEW start \in 0..MaxTime,
               Limit(b, scope) > 0
        PROVE  Cardinality(Within(b, scope, u, start)) <= Limit(b, scope)
    <3>1. Cardinality(Within(b, scope, u, start)) = 0  BY <1>2, EmptyCounts
    <3>2. 0 <= Limit(b, scope)  BY LimitInNat
    <3> QED  BY <3>1, <3>2
  <2> QED  BY <2>1 DEF LimitPerWindow, Within, Scopes
<1> QED  BY <1>1, <1>3, <1>4 DEF LimitInv

\* Whatever the limits, the window and the order of the updates, no running bot lets a user
\* through more often than the limit in any window, its ends included: what _prune forgets
\* is never needed again.
THEOREM LimitHolds == Spec => []LimitPerWindow
<1>1. LimitInv => LimitPerWindow  BY DEF LimitInv
<1> QED  BY <1>1, InitLimit, LimitStep, TypeCorrect, PTL DEF Spec

===============================================================================
