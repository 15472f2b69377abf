-------------------------- MODULE TelegramBotProofs ---------------------------
(***************************************************************************)
(* Proofs about TelegramBot, for any bots, users, settings and updates.    *)
(*                                                                         *)
(* The inductive invariant says that no two updates share an id, nor two   *)
(* presses a query, so that a key belongs to one update; and that a        *)
(* committed row, and a result about to be sent, is the round of its       *)
(* update.                                                                 *)
(*                                                                         *)
(* A second one is about the queues: an update that Telegram may forget,   *)
(* since a bot has asked for those after it, has been left by that bot.    *)
(***************************************************************************)
EXTENDS TelegramBot, TLAPS

\* The updates that Telegram or a bot holds, or that have been played.
Seen(m) ==
  \/ m \in pending
  \/ \E b \in Bots : m \in fetched[b] \/ hand[b] = m
  \/ \E p \in Int : <<m, p>> \in played

WellFormed(m) ==
  /\ m.verb \notin {"start"} \cup Reads => m.game \in Games
  /\ m.verb = "press" => m.query # 0

\* Ids and queries are numbered in the order they were sent.
IdsDistinct ==
  /\ sent.queries <= sent.updates
  /\ \A m \in Update : Seen(m) =>
       m.id <= sent.updates /\ m.query <= sent.queries /\ WellFormed(m)
  /\ \A m, n \in Update :
       /\ Seen(m) /\ Seen(n)
       /\ m.id = n.id \/ (m.verb = "press" /\ n.verb = "press" /\ m.query = n.query)
       => m = n

\* A committed row is the round of an update with its key.
CommittedPlayed ==
  /\ played \subseteq Update \X Int
  /\ \A k \in Keys : rounds[k].status = "committed" =>
       \E m \in Update : /\ m.verb \in Stakes /\ Key(m) = k
                         /\ <<m, rounds[k].payout>> \in played

\* A result that a bot is about to send is a round of the update it handles.
ResultsPlayed ==
  \A b \in Bots : saying[b].text = "result" => <<hand[b], saying[b].payout>> \in played

EncoreTold == \A b \in Bots : pc[b] = "encore" => hand[b] \in told

IInv ==
  TypeOK /\ IdsDistinct /\ CommittedPlayed /\ ResultsPlayed /\ ToldOwnRound /\ EncoreTold

-------------------------------------------------------------------------------
(* Keys *)

\* An update in hand that is not idle is an update.
LEMMA InHand ==
  ASSUME TypeOK, NEW b \in Bots, pc[b] \notin {"down", "idle"}
  PROVE  hand[b] \in Update /\ hand[b] # Nothing
BY DEF TypeOK

\* A stake that is in somebody's hand has a key.
LEMMA KeyInKeys ==
  ASSUME NEW m \in Update, WellFormed(m), m.verb \in Stakes
  PROVE  Key(m) \in Keys
BY DEF Update, WellFormed, Stakes, Reads, Key, Keys

\* Two stakes the system has seen have the same key only if they are the same.
LEMMA KeysDistinct ==
  ASSUME IdsDistinct, NEW m \in Update, NEW n \in Update, Seen(m), Seen(n),
         m.verb \in Stakes, n.verb \in Stakes, Key(m) = Key(n)
  PROVE  m = n
<1>1. \/ m.verb = "press" /\ n.verb = "press" /\ m.query = n.query
      \/ m.id = n.id
  BY DEF Key
<1> QED  BY <1>1 DEF IdsDistinct

\* The round a committed row shows is the round of whoever has its key.
LEMMA RowOfKey ==
  ASSUME IInv, NEW m \in Update, Seen(m), m.verb \in Stakes,
         rounds[Key(m)].status = "committed"
  PROVE  <<m, rounds[Key(m)].payout>> \in played
<1>1. WellFormed(m)  BY DEF IInv, IdsDistinct
<1>2. Key(m) \in Keys  BY <1>1, KeyInKeys
<1>3. PICK n \in Update : /\ n.verb \in Stakes /\ Key(n) = Key(m)
                          /\ <<n, rounds[Key(m)].payout>> \in played
  BY <1>2 DEF IInv, CommittedPlayed
<1>4. Seen(n)
  <2>1. rounds[Key(m)].payout \in Int  BY <1>3 DEF IInv, CommittedPlayed
  <2> QED  BY <1>3, <2>1 DEF Seen
<1>5. n = m  BY <1>3, <1>4, KeysDistinct DEF IInv
<1> QED  BY <1>3, <1>5

-------------------------------------------------------------------------------
(* The initial states *)

LEMMA InitInv == Init => IInv
<1> SUFFICES ASSUME Init PROVE IInv  OBVIOUS
<1>1. TypeOK
  <2>1. saying \in [Bots -> Saying]  BY DEF Init, Silence, Saying
  <2>2. sent \in [updates : 0..MaxUpdates, queries : 0..MaxUpdates]
    BY TelegramAssumption DEF Init
  <2>3. now \in 0..MaxTime /\ crashes \in 0..MaxCrashes  BY TelegramAssumption DEF Init
  <2>4. /\ rounds \in [Keys -> Round \cup {NoRound}]
        /\ hand \in [Bots -> Update \cup {Nothing}]
        /\ \A b \in Bots : hand[b] = Nothing <=> pc[b] \in {"down", "idle"}
        /\ pc \in [Bots -> {"down", "idle", "answer", "begin", "load", "save", "log", "voice",
                            "edit", "reply", "encore"}]
    BY DEF Init
  <2>5. /\ users \in [Users -> Nat] /\ wallets \in [Users -> Nat]
        /\ offset \in [Bots -> Nat] /\ known \in [Bots -> BOOLEAN]
        /\ fetched \in [Bots -> SUBSET Update]
        /\ pending \subseteq Update /\ told \subseteq Update /\ excused \subseteq Update
    BY DEF Init
  <2> QED  BY <2>1, <2>2, <2>3, <2>4, <2>5 DEF TypeOK
<1>2. IdsDistinct  BY TelegramAssumption DEF Init, IdsDistinct, Seen
<1>3. CommittedPlayed  BY DEF Init, CommittedPlayed, NoRound
<1>4. ResultsPlayed /\ ToldOwnRound /\ EncoreTold
  BY DEF Init, ResultsPlayed, ToldOwnRound, EncoreTold, Silence
<1> QED  BY <1>1, <1>2, <1>3, <1>4 DEF IInv

-------------------------------------------------------------------------------
(* Steps that neither send an update nor decide a round *)

\* Their part of the invariant, given the types.
LEMMA CalmStep ==
  ASSUME IInv, TypeOK', UNCHANGED <<rounds, played, sent>>,
         pending' \subseteq pending,
         \A b \in Bots : fetched'[b] \subseteq fetched[b] \cup pending,
         \A b \in Bots : hand'[b] = hand[b] \/ hand'[b] = Nothing \/ hand'[b] \in fetched[b],
         \A b \in Bots : saying'[b].text = "result" => <<hand'[b], saying'[b].payout>> \in played,
         results' \subseteq played,
         \A b \in Bots : pc'[b] = "encore" => hand'[b] \in told'
  PROVE  IInv'
<1>1. \A m \in Update : Seen(m)' => Seen(m)
  BY TelegramAssumption DEF Seen
<1>2. IdsDistinct'  BY <1>1 DEF IInv, IdsDistinct, WellFormed
<1>3. CommittedPlayed'  BY DEF IInv, CommittedPlayed
<1>4. ResultsPlayed' /\ ToldOwnRound' /\ EncoreTold'
  BY DEF ResultsPlayed, ToldOwnRound, EncoreTold
<1> QED  BY <1>2, <1>3, <1>4 DEF IInv

\* A handler that has its answer keeps the types if the tables keep theirs.
LEMMA SayKeepsTypes ==
  ASSUME TypeOK, NEW b \in Bots, NEW text \in {"disabled", "usage", "limited", "read", "welcome",
                                              "keyboard", "error", "result", "refused", "rejected"},
         NEW payout \in Int, Say(b, text, payout), pc[b] \notin {"down", "idle"},
         users' \in [Users -> Nat], wallets' \in [Users -> Nat],
         rounds' \in [Keys -> Round \cup {NoRound}], now' \in 0..MaxTime,
         UNCHANGED <<pending, offset, fetched, hand, known, sent, crashes, told, excused>>
  PROVE  TypeOK'
<1>1. saying' \in [Bots -> Saying]  BY DEF TypeOK, Say, Saying
<1>2. pc' = [pc EXCEPT ![b] = pc'[b]] /\ pc'[b] \in {"log", "voice", "edit", "reply"}
  BY DEF TypeOK, Say, Goto, Surface
<1>3. /\ pc' \in [Bots -> {"down", "idle", "answer", "begin", "load", "save", "log", "voice",
                           "edit", "reply", "encore"}]
      /\ \A c \in Bots : hand'[c] = Nothing <=> pc'[c] \in {"down", "idle"}
  BY <1>2 DEF TypeOK
<1> QED  BY <1>1, <1>3 DEF TypeOK

LEMMA AnswerStep ==
  ASSUME IInv, NEW b \in Bots, Answer(b) PROVE IInv'
<1> USE DEF IInv
<1>1. TypeOK'  BY DEF TypeOK, Answer, Goto, database, bot, answers, history
<1>2. \A c \in Bots : saying'[c].text = "result" => <<hand'[c], saying'[c].payout>> \in played
  BY DEF TypeOK, ResultsPlayed, Answer, Goto, database, bot, answers, history
<1>3. \A c \in Bots : pc'[c] = "encore" => hand'[c] \in told'
  BY DEF TypeOK, EncoreTold, Answer, Goto, database, bot, answers, history
<1> QED  BY <1>1, <1>2, <1>3, CalmStep DEF TypeOK, ToldOwnRound, Answer, Goto, database, bot, answers, history

LEMMA DisabledStep ==
  ASSUME IInv, NEW b \in Bots, Disabled(b) PROVE IInv'
<1> USE DEF IInv
<1>1. TypeOK'  BY SayKeepsTypes DEF TypeOK, Disabled, Reply, database, bot, answers, history
<1>2. \A c \in Bots : saying'[c].text = "result" => <<hand'[c], saying'[c].payout>> \in played
  BY DEF TypeOK, ResultsPlayed, Disabled, Reply, Say, Surface, Saying, Goto, database, bot, answers, history
<1>3. \A c \in Bots : pc'[c] = "encore" => hand'[c] \in told'
  BY DEF TypeOK, EncoreTold, Disabled, Reply, Say, Surface, Saying, Goto, database, bot, answers, history
<1> QED  BY <1>1, <1>2, <1>3, CalmStep DEF TypeOK, ToldOwnRound, Disabled, Reply, Say, Surface, Saying, Goto, database, bot, answers, history

LEMMA UsageStep ==
  ASSUME IInv, NEW b \in Bots, Usage(b) PROVE IInv'
<1> USE DEF IInv
<1>1. TypeOK'  BY SayKeepsTypes DEF TypeOK, Usage, Reply, database, bot, answers, history
<1>2. \A c \in Bots : saying'[c].text = "result" => <<hand'[c], saying'[c].payout>> \in played
  BY DEF TypeOK, ResultsPlayed, Usage, Reply, Say, Surface, Saying, Goto, database, bot, answers, history
<1>3. \A c \in Bots : pc'[c] = "encore" => hand'[c] \in told'
  BY DEF TypeOK, EncoreTold, Usage, Reply, Say, Surface, Saying, Goto, database, bot, answers, history
<1> QED  BY <1>1, <1>2, <1>3, CalmStep DEF TypeOK, ToldOwnRound, Usage, Reply, Say, Surface, Saying, Goto, database, bot, answers, history

LEMMA LimitedStep ==
  ASSUME IInv, NEW b \in Bots, NEW time \in now..MaxTime, Limited(b, time) PROVE IInv'
<1> USE DEF IInv
<1>1. TypeOK'
  <2>1. Say(b, "limited", 0) /\ pc[b] = "begin"  BY DEF Limited, Reply
  <2>2. /\ UNCHANGED <<pending, offset, fetched, hand, known, sent, crashes, told, excused>>
        /\ users' \in [Users -> Nat] /\ wallets' \in [Users -> Nat]
        /\ rounds' \in [Keys -> Round \cup {NoRound}]
    BY DEF TypeOK, Limited, Reply, database, bot, answers, history
  <2>3. now' \in 0..MaxTime
    <3>1. now \in 0..MaxTime  BY DEF TypeOK
    <3>2. now' = time /\ MaxTime \in Nat  BY TelegramAssumption DEF Limited
    <3> QED  BY <3>1, <3>2
  <2> QED  BY <2>1, <2>2, <2>3, SayKeepsTypes
<1>2. \A c \in Bots : saying'[c].text = "result" => <<hand'[c], saying'[c].payout>> \in played
  BY DEF TypeOK, ResultsPlayed, Limited, Reply, Say, Surface, Saying, Goto, database, bot, answers, history
<1>3. \A c \in Bots : pc'[c] = "encore" => hand'[c] \in told'
  BY DEF TypeOK, EncoreTold, Limited, Reply, Say, Surface, Saying, Goto, database, bot, answers, history
<1> QED  BY <1>1, <1>2, <1>3, CalmStep DEF TypeOK, ToldOwnRound, Limited, Reply, Say, Surface, Saying, Goto, database, bot, answers, history

LEMMA AdmitStep ==
  ASSUME IInv, NEW b \in Bots, NEW time \in now..MaxTime, Admit(b, time) PROVE IInv'
<1> USE DEF IInv
<1>1. TypeOK'  BY DEF TypeOK, Admit, Goto, database, bot, answers, history
<1>2. \A c \in Bots : saying'[c].text = "result" => <<hand'[c], saying'[c].payout>> \in played
  BY DEF TypeOK, ResultsPlayed, Admit, Goto, database, bot, answers, history
<1>3. \A c \in Bots : pc'[c] = "encore" => hand'[c] \in told'
  BY DEF TypeOK, EncoreTold, Admit, Goto, database, bot, answers, history
<1> QED  BY <1>1, <1>2, <1>3, CalmStep DEF TypeOK, ToldOwnRound, Admit, Goto, database, bot, answers, history

LEMMA LookUpStep ==
  ASSUME IInv, NEW b \in Bots, LookUp(b) PROVE IInv'
<1> USE DEF IInv
<1>1. TypeOK'  BY DEF TypeOK, LookUp, Goto, database, bot, answers, history
<1>2. \A c \in Bots : saying'[c].text = "result" => <<hand'[c], saying'[c].payout>> \in played
  BY DEF TypeOK, ResultsPlayed, LookUp, Goto, database, bot, answers, history
<1>3. \A c \in Bots : pc'[c] = "encore" => hand'[c] \in told'
  BY DEF TypeOK, EncoreTold, LookUp, Goto, database, bot, answers, history
<1> QED  BY <1>1, <1>2, <1>3, CalmStep DEF TypeOK, ToldOwnRound, LookUp, Goto, database, bot, answers, history

LEMMA RegisterStep ==
  ASSUME IInv, NEW b \in Bots, Start(b) \/ Prompt(b) PROVE IInv'
<1> USE DEF IInv
<1>1. PICK text \in {"welcome", "keyboard", "error"} : Say(b, text, 0)
  BY DEF Start, Prompt, Saved
<1>2. users' \in [Users -> Nat] /\ wallets' \in [Users -> Nat]
  BY DEF TypeOK, Start, Prompt, Registered, Created, Insertable
<1>3. TypeOK'
  <2>1. UNCHANGED <<pending, offset, fetched, hand, known, sent, crashes, told, excused, rounds, now>>
    BY DEF Start, Prompt, Registered, Saved, bot, answers
  <2>2. pc[b] \notin {"down", "idle"}  BY DEF Start, Prompt, Registered
  <2>3. rounds' \in [Keys -> Round \cup {NoRound}] /\ now' \in 0..MaxTime  BY <2>1 DEF TypeOK
  <2> QED  BY <1>1, <1>2, <2>1, <2>2, <2>3, SayKeepsTypes
<1>4. \A c \in Bots : saying'[c].text = "result" => <<hand'[c], saying'[c].payout>> \in played
  BY <1>1 DEF TypeOK, ResultsPlayed, Start, Prompt, Registered, Saved, Say, bot
<1>5. \A c \in Bots : pc'[c] = "encore" => hand'[c] \in told'
  BY <1>1
     DEF TypeOK, EncoreTold, Start, Prompt, Registered, Saved, Say, Surface, Goto, bot, answers
<1> QED
  BY <1>3, <1>4, <1>5, CalmStep
     DEF TypeOK, ToldOwnRound, Start, Prompt, Registered, Saved, bot, answers

\* A stake in hand, its key and its row.
LEMMA StakeInHand ==
  ASSUME IInv, NEW b \in Bots, pc[b] = "save", hand[b].verb \in Stakes
  PROVE  /\ hand[b] \in Update /\ Seen(hand[b]) /\ Key(hand[b]) \in Keys
         /\ rounds[Key(hand[b])] \in Round \cup {NoRound}
         /\ rounds[Key(hand[b])].payout \in Int
<1>1. hand[b] \in Update  BY InHand DEF IInv
<1>2. Seen(hand[b])  BY DEF Seen
<1>3. Key(hand[b]) \in Keys  BY <1>1, <1>2, KeyInKeys DEF IInv, IdsDistinct
<1>4. rounds[Key(hand[b])] \in Round \cup {NoRound}  BY <1>3 DEF IInv, TypeOK
<1> QED  BY <1>1, <1>2, <1>3, <1>4 DEF Round, NoRound

LEMMA ReplayStep ==
  ASSUME IInv, NEW b \in Bots, Replay(b) PROVE IInv'
<1> USE DEF IInv
<1> DEFINE row == rounds[Key(hand[b])]
<1>1. pc[b] = "save" /\ hand[b].verb \in Stakes  BY DEF Replay, Entry
<1>2. hand[b] \in Update /\ Seen(hand[b]) /\ row.payout \in Int  BY <1>1, StakeInHand
<1>3. PICK text \in {"result", "refused", "error"}, payout \in {row.payout, 0} :
        /\ Saved(b, text, payout)
        /\ text = "result" => row.status = "committed" /\ payout = row.payout
  BY DEF Replay
<1>4. Say(b, text, payout) /\ payout \in Int  BY <1>2, <1>3 DEF Saved
<1>5. text = "result" => <<hand[b], payout>> \in played  BY <1>1, <1>2, <1>3, RowOfKey
<1>6. UNCHANGED <<pending, offset, fetched, hand, known, sent, crashes, told, excused, results, database,
                  now, played>>
  BY <1>3 DEF Replay, Saved, bot, answers
<1> HIDE DEF row
<1>7. TypeOK'  BY <1>1, <1>4, <1>6, SayKeepsTypes DEF TypeOK, database
<1>8. \A c \in Bots : saying'[c].text = "result" => <<hand'[c], saying'[c].payout>> \in played
  BY <1>4, <1>5, <1>6 DEF TypeOK, ResultsPlayed, Say
<1>9. \A c \in Bots : pc'[c] = "encore" => hand'[c] \in told'
  BY <1>1, <1>4, <1>6 DEF TypeOK, EncoreTold, Say, Surface, Goto
<1> QED  BY <1>6, <1>7, <1>8, <1>9, CalmStep DEF ToldOwnRound, database

LEMMA EngineRejectsStep ==
  ASSUME IInv, NEW b \in Bots, EngineRejects(b) PROVE IInv'
<1> USE DEF IInv
<1>0. Say(b, "rejected", 0)  BY DEF EngineRejects, Saved
<1>1. TypeOK'
  BY <1>0, SayKeepsTypes DEF TypeOK, EngineRejects, Saved, database, bot, answers, history
<1>2. \A c \in Bots : saying'[c].text = "result" => <<hand'[c], saying'[c].payout>> \in played
  BY DEF TypeOK, ResultsPlayed, EngineRejects, Saved, Say, Surface, Saying, Goto, database, bot, answers, history
<1>3. \A c \in Bots : pc'[c] = "encore" => hand'[c] \in told'
  BY DEF TypeOK, EncoreTold, EngineRejects, Saved, Say, Surface, Saying, Goto, database, bot, answers, history
<1> QED  BY <1>1, <1>2, <1>3, CalmStep DEF TypeOK, ToldOwnRound, EngineRejects, Saved, Say, Surface, Saying, Goto, database, bot, answers, history

LEMMA VoiceStep ==
  ASSUME IInv, NEW b \in Bots, Voice(b) PROVE IInv'
<1> USE DEF IInv
<1>1. TypeOK'  BY DEF TypeOK, Voice, Surface, Goto, database, bot, answers, history
<1>2. \A c \in Bots : saying'[c].text = "result" => <<hand'[c], saying'[c].payout>> \in played
  BY DEF TypeOK, ResultsPlayed, Voice, Surface, Goto, database, bot, answers, history
<1>3. \A c \in Bots : pc'[c] = "encore" => hand'[c] \in told'
  BY DEF TypeOK, EncoreTold, Voice, Surface, Goto, database, bot, answers, history
<1> QED  BY <1>1, <1>2, <1>3, CalmStep DEF TypeOK, ToldOwnRound, Voice, Surface, Goto, database, bot, answers, history

\* A handler that ends leaves nothing in hand and nothing to say.
LEMMA FinishStep ==
  ASSUME IInv, NEW b \in Bots, Finish(b),
         UNCHANGED <<pending, database, offset, fetched, now, sent, crashes, played>>,
         told \subseteq told', told' \subseteq Update, excused' \subseteq Update,
         results' \subseteq played
  PROVE  IInv'
<1> USE DEF IInv
<1>1. TypeOK'
  <2>1. saying' \in [Bots -> Saying]  BY DEF TypeOK, Finish, Silence, Saying
  <2> QED  BY <2>1 DEF TypeOK, Finish, Goto, database
<1>2. \A c \in Bots : saying'[c].text = "result" => <<hand'[c], saying'[c].payout>> \in played
  BY DEF TypeOK, ResultsPlayed, Finish, Silence
<1>3. \A c \in Bots : pc'[c] = "encore" => hand'[c] \in told'
  BY DEF TypeOK, EncoreTold, Finish, Goto
<1>4. \A c \in Bots : hand'[c] = hand[c] \/ hand'[c] = Nothing  BY DEF TypeOK, Finish
<1> QED  BY <1>1, <1>2, <1>3, <1>4, CalmStep DEF database

LEMMA GiveUpStep ==
  ASSUME IInv, NEW b \in Bots, pc[b] \notin {"down", "idle"}, GiveUp(b) PROVE IInv'
<1>1. hand[b] \in Update  BY InHand DEF IInv
<1> QED  BY <1>1, FinishStep DEF IInv, TypeOK, ToldOwnRound, GiveUp, history

LEMMA ReadStep ==
  ASSUME IInv, NEW b \in Bots, Help(b) \/ Catalogue(b) \/ HistoryOfRounds(b) PROVE IInv'
<1> USE DEF IInv
<1>1. CASE GiveUp(b)  BY <1>1, GiveUpStep DEF Help, Catalogue, HistoryOfRounds
<1>2. CASE ~GiveUp(b)
  <2>1. PICK text \in {"read", "error"} : Reply(b, text) /\ UNCHANGED <<buckets, now>>
    BY <1>2 DEF Help, Catalogue, HistoryOfRounds
  <2>2. Say(b, text, 0) /\ pc[b] = "load"
    BY <2>1 DEF Help, Catalogue, HistoryOfRounds, Reply
  <2>3. UNCHANGED <<pending, database, offset, fetched, hand, known, now, sent, crashes, played,
                    told, excused, results>>
    BY <2>1 DEF Reply, bot, answers, history
  <2>4. TypeOK'
    <3>1. /\ users' \in [Users -> Nat] /\ wallets' \in [Users -> Nat]
          /\ rounds' \in [Keys -> Round \cup {NoRound}] /\ now' \in 0..MaxTime
      BY <2>3 DEF TypeOK, database
    <3> QED  BY <2>2, <2>3, <3>1, SayKeepsTypes
  <2>5. \A c \in Bots : saying'[c].text = "result" => <<hand'[c], saying'[c].payout>> \in played
    BY <2>2, <2>3 DEF TypeOK, ResultsPlayed, Say
  <2>6. \A c \in Bots : pc'[c] = "encore" => hand'[c] \in told'
    BY <2>2, <2>3 DEF TypeOK, EncoreTold, Say, Surface, Goto
  <2> QED  BY <2>3, <2>4, <2>5, <2>6, CalmStep DEF ToldOwnRound, database
<1> QED  BY <1>1, <1>2

LEMMA LogRejectionStep ==
  ASSUME IInv, NEW b \in Bots, LogRejection(b) PROVE IInv'
<1> USE DEF IInv
<1>1. CASE GiveUp(b)  BY <1>1, GiveUpStep DEF LogRejection
<1>2. CASE ~GiveUp(b)
  <2>1. Goto(b, Surface(hand[b])) /\ pc[b] = "log"  BY <1>2 DEF LogRejection
  <2>2. UNCHANGED <<pending, database, bot, hand, saying, buckets, now, history, answers>>
    BY <1>2 DEF LogRejection
  <2>3. TypeOK'  BY <2>1, <2>2 DEF TypeOK, Goto, Surface, database, bot, answers, history
  <2>4. \A c \in Bots : pc'[c] = "encore" => hand'[c] \in told'
    BY <2>1, <2>2 DEF TypeOK, EncoreTold, Surface, Goto, answers
  <2> QED
    BY <2>2, <2>3, <2>4, CalmStep
       DEF ResultsPlayed, ToldOwnRound, database, bot, answers, history
<1> QED  BY <1>1, <1>2

\* What has reached the user is the round of the update, if it is a result.
LEMMA DeliverStep ==
  ASSUME IInv, NEW b \in Bots, pc[b] \in {"edit", "reply"}, Deliver(b) PROVE IInv'
<1> USE DEF IInv
<1>1. hand[b] \in Update  BY InHand
<1>2. told' \subseteq Update /\ told \subseteq told' /\ hand[b] \in told'
  BY <1>1 DEF TypeOK, Deliver
<1>3. results' \subseteq played  BY DEF Deliver, ToldOwnRound, ResultsPlayed
<1>4. UNCHANGED <<pending, database, offset, fetched, buckets, now, history, excused>>  BY DEF Deliver
<1>5. CASE Finish(b)  BY <1>2, <1>3, <1>4, <1>5, FinishStep DEF TypeOK, history
<1>6. CASE ~Finish(b)
  <2>1. Goto(b, "encore") /\ UNCHANGED <<hand, saying, known>>  BY <1>6 DEF Deliver
  <2>2. TypeOK'  BY <1>2, <1>4, <2>1 DEF TypeOK, Goto, database, history
  <2>3. \A c \in Bots : pc'[c] = "encore" => hand'[c] \in told'
    BY <1>2, <2>1 DEF TypeOK, EncoreTold, Goto
  <2> QED  BY <1>3, <1>4, <2>1, <2>2, <2>3, CalmStep DEF ResultsPlayed, database, history
<1> QED  BY <1>5, <1>6

LEMMA EditStep ==
  ASSUME IInv, NEW b \in Bots, Edit(b) PROVE IInv'
<1> USE DEF IInv
<1>1. CASE Deliver(b)  BY <1>1, DeliverStep DEF Edit
<1>2. CASE ~Deliver(b)
  <2>1. Goto(b, "reply") /\ pc[b] = "edit"  BY <1>2 DEF Edit
  <2>2. UNCHANGED <<pending, database, bot, hand, saying, buckets, now, history, answers>>
    BY <1>2 DEF Edit
  <2>3. TypeOK'  BY <2>1, <2>2 DEF TypeOK, Goto, database, bot, answers, history
  <2>4. \A c \in Bots : pc'[c] = "encore" => hand'[c] \in told'
    BY <2>1, <2>2 DEF TypeOK, EncoreTold, Goto, answers
  <2> QED
    BY <2>2, <2>3, <2>4, CalmStep
       DEF ResultsPlayed, ToldOwnRound, database, bot, answers, history
<1> QED  BY <1>1, <1>2

LEMMA EncoreStep ==
  ASSUME IInv, NEW b \in Bots, Encore(b) PROVE IInv'
BY FinishStep DEF IInv, TypeOK, ToldOwnRound, Encore, history, answers

LEMMA ApiCreateUserStep ==
  ASSUME IInv, NEW u \in Users, ApiCreateUser(u) PROVE IInv'
<1> USE DEF IInv
<1>1. TypeOK'  BY DEF TypeOK, ApiCreateUser, bot, answers, history
<1> QED
  BY <1>1, CalmStep DEF ResultsPlayed, ToldOwnRound, EncoreTold, ApiCreateUser, bot, answers, history

LEMMA FetchStep ==
  ASSUME IInv, NEW b \in Bots, Fetch(b) PROVE IInv'
<1> USE DEF IInv
<1>1. PICK batch \in SUBSET pending :
        /\ pending' = batch
        /\ fetched' = [fetched EXCEPT ![b] = @ \cup batch]
        /\ UNCHANGED offset \/ \E m \in batch : offset' = [offset EXCEPT ![b] = m.id]
  BY DEF Fetch
<1>2. UNCHANGED <<database, pc, hand, known, saying, buckets, now, history, answers>>  BY DEF Fetch
<1>3. \A m \in Update : m.id \in Nat  BY DEF Update
<1>4. TypeOK'
  <2>1. offset' \in [Bots -> Nat]  BY <1>1, <1>3 DEF TypeOK
  <2> QED  BY <1>1, <1>2, <2>1 DEF TypeOK, database, answers, history
<1>5. \A c \in Bots : fetched'[c] \subseteq fetched[c] \cup pending  BY <1>1 DEF TypeOK
<1> QED
  BY <1>1, <1>2, <1>4, <1>5, CalmStep
     DEF ResultsPlayed, ToldOwnRound, EncoreTold, database, answers, history

LEMMA TakeStep ==
  ASSUME IInv, NEW b \in Bots, Take(b) PROVE IInv'
<1> USE DEF IInv
<1>1. PICK m \in fetched[b] :
        /\ hand' = [hand EXCEPT ![b] = m]
        /\ fetched' = [fetched EXCEPT ![b] = @ \ {m}]
        /\ Goto(b, Entrance(m))
  BY DEF Take
<1>2. m \in Update /\ m # Nothing  BY TelegramAssumption DEF TypeOK
<1>3. pc[b] = "idle" /\ Entrance(m) \in {"answer", "load", "begin"}  BY DEF Take, Entrance
<1>4. UNCHANGED <<pending, database, offset, known, saying, buckets, now, history, answers>>
  BY DEF Take
<1>5. TypeOK'
  <2>1. \A c \in Bots : hand'[c] = Nothing <=> pc'[c] \in {"down", "idle"}
    BY <1>1, <1>2, <1>3 DEF TypeOK, Goto
  <2> QED  BY <1>1, <1>2, <1>3, <1>4, <2>1 DEF TypeOK, Goto, database, answers, history
<1>6. \A c \in Bots : saying'[c].text = "result" => <<hand'[c], saying'[c].payout>> \in played
  <2>1. hand[b] = Nothing  BY <1>3 DEF TypeOK
  <2>2. saying[b].text # "result"
    BY <2>1, TelegramAssumption DEF ResultsPlayed, CommittedPlayed
  <2> QED  BY <1>1, <1>4, <2>2 DEF ResultsPlayed, TypeOK
<1>7. \A c \in Bots : pc'[c] = "encore" => hand'[c] \in told'
  BY <1>1, <1>3, <1>4 DEF TypeOK, EncoreTold, Goto, answers
<1>8. /\ \A c \in Bots : fetched'[c] \subseteq fetched[c]
      /\ \A c \in Bots : hand'[c] = hand[c] \/ hand'[c] \in fetched[c]
  BY <1>1 DEF TypeOK
<1> QED
  BY <1>4, <1>5, <1>6, <1>7, <1>8, CalmStep DEF ToldOwnRound, database, answers, history

LEMMA StartBotStep ==
  ASSUME IInv, NEW b \in Bots, StartBot(b) PROVE IInv'
<1> USE DEF IInv
<1>1. sent.updates \in Nat  BY TelegramAssumption DEF TypeOK
<1>2. TypeOK'  BY <1>1 DEF TypeOK, StartBot, Goto, database, history
<1>3. \A c \in Bots : pc'[c] = "encore" => hand'[c] \in told'
  BY DEF TypeOK, EncoreTold, StartBot, Goto
<1> QED  BY <1>2, <1>3, CalmStep DEF ResultsPlayed, ToldOwnRound, StartBot, database, history

LEMMA CrashStep ==
  ASSUME IInv, NEW b \in Bots, Crash(b) PROVE IInv'
<1> USE DEF IInv
<1>1. TypeOK'
  <2>1. saying' \in [Bots -> Saying]  BY DEF TypeOK, Crash, Silence, Saying
  <2>2. crashes' \in 0..MaxCrashes  BY TelegramAssumption DEF TypeOK, Crash
  <2>3. excused' \subseteq Update  BY DEF TypeOK, Crash
  <2>4. \A c \in Bots : hand'[c] = Nothing <=> pc'[c] \in {"down", "idle"}
    BY DEF TypeOK, Crash
  <2> QED  BY <2>1, <2>2, <2>3, <2>4 DEF TypeOK, Crash, database
<1>2. \A c \in Bots : saying'[c].text = "result" => <<hand'[c], saying'[c].payout>> \in played
  BY DEF TypeOK, ResultsPlayed, Crash, Silence
<1>3. \A c \in Bots : pc'[c] = "encore" => hand'[c] \in told'
  BY DEF TypeOK, EncoreTold, Crash
<1> QED  BY <1>1, <1>2, <1>3, CalmStep DEF TypeOK, ToldOwnRound, Crash, database

-------------------------------------------------------------------------------
(* Steps that send an update or decide a round *)

\* A new update has an id and a query nobody has seen.
LEMMA SendStep ==
  ASSUME IInv, NEW u \in Users, NEW entry \in Entries, Send(u, entry) PROVE IInv'
<1> USE DEF IInv
<1> DEFINE press == entry.verb = "press"
           queries == IF press THEN sent.queries + 1 ELSE sent.queries
           new == [id |-> sent.updates + 1, query |-> IF press THEN queries ELSE 0,
                   user |-> u, verb |-> entry.verb, game |-> entry.game]
<1>1. /\ sent' = [updates |-> sent.updates + 1, queries |-> queries]
      /\ pending' = pending \cup {new}
      /\ sent.updates < MaxUpdates
      /\ UNCHANGED <<database, pc, bot, hand, saying, buckets, now, crashes, admitted, played,
                     answers>>
  BY DEF Send
<1>2. /\ sent.updates \in Nat /\ sent.queries \in Nat /\ queries \in Nat
      /\ sent.queries <= sent.updates /\ queries <= sent.updates + 1
      /\ sent.updates + 1 \in 1..MaxUpdates /\ queries \in 0..MaxUpdates
      /\ sent.queries <= queries
  BY <1>1, TelegramAssumption DEF TypeOK, IdsDistinct
<1>3. /\ entry.verb \in {"start", "prompt", "usage"} \cup Reads \cup Stakes
      /\ entry.game \in Games \cup {NoGame}
      /\ entry.verb \notin {"start"} \cup Reads => entry.game \in Games
  BY DEF Entries, Stakes, Reads
<1>4. new \in Update
  <2>1. 0 \in 0..MaxUpdates  BY TelegramAssumption
  <2> HIDE DEF queries, press
  <2>2. (IF press THEN queries ELSE 0) \in 0..MaxUpdates  BY <1>2, <2>1
  <2> QED  BY <1>2, <1>3, <2>2 DEF Update
<1>5. /\ new.id = sent.updates + 1 /\ new.verb = entry.verb /\ new.game = entry.game
      /\ press => new.query = sent.queries + 1
      /\ new.query <= queries
  BY <1>2
<1>6. sent'.updates = sent.updates + 1 /\ sent'.queries = queries  BY <1>1
<1> HIDE DEF new, queries
<1>7. WellFormed(new)  BY <1>2, <1>3, <1>5 DEF WellFormed
<1>8. TypeOK'
  <2>1. sent' \in [updates : 0..MaxUpdates, queries : 0..MaxUpdates]  BY <1>1, <1>2
  <2> QED  BY <1>1, <1>4, <2>1 DEF TypeOK, database, bot, answers
<1>9. \A m \in Update : Seen(m)' => Seen(m) \/ m = new  BY <1>1 DEF Seen, bot
<1>10. IdsDistinct'
  <2>1. sent'.queries <= sent'.updates  BY <1>2, <1>6
  <2>2. ASSUME NEW m \in Update, Seen(m)
        PROVE  /\ m.id \in Nat /\ m.query \in Nat
               /\ m.id <= sent.updates /\ m.query <= sent.queries /\ WellFormed(m)
    BY <2>2 DEF IdsDistinct, Update
  <2>3. ASSUME NEW m \in Update, Seen(m)'
        PROVE  m.id <= sent'.updates /\ m.query <= sent'.queries /\ WellFormed(m)
    BY <1>2, <1>5, <1>6, <1>7, <1>9, <2>2, <2>3
  <2>4. ASSUME NEW m \in Update, Seen(m)
        PROVE  /\ m.id # new.id
               /\ ~(m.verb = "press" /\ new.verb = "press" /\ m.query = new.query)
    BY <1>2, <1>5, <2>2, <2>4
  <2>5. ASSUME NEW m \in Update, NEW n \in Update, Seen(m)', Seen(n)',
               m.id = n.id \/ (m.verb = "press" /\ n.verb = "press" /\ m.query = n.query)
        PROVE  m = n
    <3>1. CASE m = new  BY <1>9, <2>4, <2>5, <3>1
    <3>2. CASE n = new  BY <1>9, <2>4, <2>5, <3>2
    <3>3. CASE m # new /\ n # new  BY <1>9, <2>5, <3>3 DEF IdsDistinct
    <3> QED  BY <3>1, <3>2, <3>3
  <2> QED  BY <2>1, <2>3, <2>5 DEF IdsDistinct, WellFormed
<1>11. CommittedPlayed' /\ ResultsPlayed' /\ ToldOwnRound' /\ EncoreTold'
  BY <1>1 DEF CommittedPlayed, ResultsPlayed, ToldOwnRound, EncoreTold, database, answers
<1> QED  BY <1>8, <1>10, <1>11

\* A round that is decided for the stake in hand, and the answer to it.
LEMMA DecideStep ==
  ASSUME IInv, NEW b \in Bots, pc[b] = "save", hand[b].verb \in Stakes,
         NEW status \in {"committed", "rejected", "failed"}, NEW payout \in Int,
         NEW text \in {"result", "refused", "error"}, NEW shown \in Int,
         Decides(b),
         rounds' = [rounds EXCEPT ![Key(hand[b])] = [status |-> status, payout |-> payout]],
         played' = IF status = "committed" THEN played \cup {<<hand[b], payout>>} ELSE played,
         text = "result" => status = "committed" /\ shown = payout,
         Say(b, text, shown),
         UNCHANGED <<pending, users, wallets, bot, hand, buckets, now, sent, crashes, admitted,
                     answers>>
  PROVE  IInv'
<1> USE DEF IInv
<1> DEFINE k == Key(hand[b])
           new == [status |-> status, payout |-> payout]
<1>1. hand[b] \in Update /\ Seen(hand[b]) /\ k \in Keys  BY StakeInHand
<1>2. new \in Round /\ new.status = status /\ new.payout = payout  BY DEF Round
<1>3. played \subseteq played'  OBVIOUS
<1>4. \A j \in Keys : rounds'[j] = IF j = k THEN new ELSE rounds[j]  BY <1>1 DEF TypeOK
<1>5. rounds' \in [Keys -> Round \cup {NoRound}]  BY <1>1, <1>2 DEF TypeOK
<1> HIDE DEF k, new
<1>6. TypeOK'
  <2>1. UNCHANGED <<pending, offset, fetched, hand, known, sent, crashes, told, excused, users,
                    wallets, now>>
    BY DEF bot, answers
  <2>2. users' \in [Users -> Nat] /\ wallets' \in [Users -> Nat] /\ now' \in 0..MaxTime
    BY <2>1 DEF TypeOK
  <2> QED  BY <1>5, <2>1, <2>2, SayKeepsTypes
<1>7. IdsDistinct'
  <2>1. \A m \in Update : Seen(m)' => Seen(m)  BY <1>1 DEF Seen, bot
  <2> QED  BY <2>1 DEF IdsDistinct, WellFormed
<1>8. CommittedPlayed'
  <2>1. played' \subseteq Update \X Int  BY <1>1 DEF CommittedPlayed
  <2>2. ASSUME NEW j \in Keys, rounds'[j].status = "committed"
        PROVE  \E m \in Update : m.verb \in Stakes /\ Key(m) = j /\ <<m, rounds'[j].payout>> \in played'
    <3>1. CASE j = k
      <4>1. rounds'[j].payout = payout /\ status = "committed"  BY <1>2, <1>4, <2>2, <3>1
      <4> QED  BY <1>1, <3>1, <4>1 DEF k
    <3>2. CASE j # k  BY <1>3, <1>4, <2>2, <3>2 DEF CommittedPlayed
    <3> QED  BY <3>1, <3>2
  <2> QED  BY <2>1, <2>2 DEF CommittedPlayed, Key
<1>9. ResultsPlayed'  BY <1>3 DEF TypeOK, ResultsPlayed, Say
<1>10. ToldOwnRound'  BY <1>3 DEF ToldOwnRound, answers
<1>11. EncoreTold'  BY DEF TypeOK, EncoreTold, Say, Surface, Goto, answers
<1> QED  BY <1>6, <1>7, <1>8, <1>9, <1>10, <1>11

LEMMA PlayStep ==
  ASSUME IInv, NEW b \in Bots, Play(b) PROVE IInv'
<1> USE DEF IInv
<1>1. PICK status \in {"committed", "rejected"}, p \in Payouts :
        LET payout == IF status = "committed" THEN p ELSE 0 IN
        /\ rounds' = [rounds EXCEPT ![Key(hand[b])] = [status |-> status, payout |-> payout]]
        /\ played' = IF status = "committed" THEN played \cup {<<hand[b], payout>>} ELSE played
        /\ \/ status = "committed" /\ Saved(b, "result", payout)
           \/ status = "rejected" /\ Saved(b, "refused", 0)
           \/ Saved(b, "error", 0)
  BY DEF Play
<1> DEFINE payout == IF status = "committed" THEN p ELSE 0
<1>2. payout \in Int  BY TelegramAssumption
<1>3. PICK text \in {"result", "refused", "error"}, shown \in Int :
        /\ text = "result" => status = "committed" /\ shown = payout
        /\ Saved(b, text, shown)
  BY <1>1, <1>2
<1>4. pc[b] = "save" /\ hand[b].verb \in Stakes /\ Decides(b)  BY DEF Play, Entry
<1>5. UNCHANGED <<pending, users, wallets, bot, hand, buckets, now, sent, crashes, admitted,
                  answers>>
  BY <1>3 DEF Play, Saved
<1>6. Say(b, text, shown)  BY <1>3 DEF Saved
<1>7. status \in {"committed", "rejected", "failed"}  OBVIOUS
<1>8. /\ rounds' = [rounds EXCEPT ![Key(hand[b])] = [status |-> status, payout |-> payout]]
      /\ played' = IF status = "committed" THEN played \cup {<<hand[b], payout>>} ELSE played
  BY <1>1
<1> HIDE DEF payout
<1> QED  BY <1>2, <1>3, <1>4, <1>5, <1>6, <1>7, <1>8, DecideStep

LEMMA WorkFailsStep ==
  ASSUME IInv, NEW b \in Bots, WorkFails(b) PROVE IInv'
<1> USE DEF IInv
<1>1. Say(b, "error", 0) /\ pc[b] \in {"load", "save"}  BY DEF WorkFails, Saved
<1>2. UNCHANGED <<pending, users, wallets, bot, hand, buckets, now, sent, crashes, admitted, played,
                  answers>>
  BY DEF WorkFails, Saved
<1>3. CASE UNCHANGED rounds
  <2>1. UNCHANGED <<offset, fetched, known, told, excused, results>>  BY <1>2 DEF bot, answers
  <2>2. TypeOK'  BY <1>1, <1>2, <1>3, <2>1, SayKeepsTypes DEF TypeOK
  <2>3. \A c \in Bots : saying'[c].text = "result" => <<hand'[c], saying'[c].payout>> \in played
    BY <1>1, <1>2 DEF TypeOK, ResultsPlayed, Say
  <2>4. \A c \in Bots : pc'[c] = "encore" => hand'[c] \in told'
    BY <1>1, <1>2, <2>1 DEF TypeOK, EncoreTold, Say, Surface, Goto
  <2> QED  BY <1>2, <1>3, <2>1, <2>2, <2>3, <2>4, CalmStep DEF ToldOwnRound
<1>4. CASE ~ UNCHANGED rounds
  <2>1. /\ pc[b] = "save" /\ hand[b].verb \in Stakes /\ Decides(b)
        /\ rounds' = [rounds EXCEPT ![Key(hand[b])] = [status |-> "failed", payout |-> 0]]
    BY <1>4 DEF WorkFails, Decides, Entry
  <2>2. PICK status \in {"committed", "rejected", "failed"}, text \in {"result", "refused", "error"},
             payout \in Int : status = "failed" /\ text = "error" /\ payout = 0
    OBVIOUS
  <2>3. rounds' = [rounds EXCEPT ![Key(hand[b])] = [status |-> status, payout |-> payout]]
    BY <2>1, <2>2
  <2>4. /\ played' = IF status = "committed" THEN played \cup {<<hand[b], payout>>} ELSE played
        /\ text = "result" => status = "committed" /\ payout = payout
        /\ Say(b, text, payout)
    BY <1>1, <1>2, <2>2
  <2> QED  BY <1>2, <2>1, <2>3, <2>4, DecideStep
<1> QED  BY <1>3, <1>4

-------------------------------------------------------------------------------
(* Invariance *)

LEMMA NextStep == IInv /\ [Next]_vars => IInv'
<1> SUFFICES ASSUME IInv, [Next]_vars PROVE IInv'  OBVIOUS
<1>1. ASSUME NEW u \in Users, NEW entry \in Entries, Send(u, entry) PROVE IInv'
  BY <1>1, SendStep
<1>2. ASSUME NEW u \in Users, ApiCreateUser(u) PROVE IInv'  BY <1>2, ApiCreateUserStep
<1>3. ASSUME NEW b \in Bots, Fetch(b) \/ Take(b) \/ StartBot(b) \/ Crash(b)
      PROVE  IInv'
  BY <1>3, FetchStep, TakeStep, StartBotStep, CrashStep
<1>4. ASSUME NEW b \in Bots, HandlerStep(b) PROVE IInv'
  <2>1. CASE \E time \in now..MaxTime : Limited(b, time) \/ Admit(b, time)
    BY <2>1, LimitedStep, AdmitStep
  <2>2. CASE \/ Answer(b) \/ Disabled(b) \/ Usage(b)
            \/ Help(b) \/ Catalogue(b) \/ HistoryOfRounds(b)
            \/ LookUp(b) \/ Start(b) \/ Prompt(b)
    BY <2>2, AnswerStep, DisabledStep, UsageStep, ReadStep, LookUpStep, RegisterStep
  <2>3. CASE Play(b) \/ Replay(b) \/ EngineRejects(b) \/ LogRejection(b) \/ WorkFails(b)
    BY <2>3, PlayStep, ReplayStep, EngineRejectsStep, LogRejectionStep, WorkFailsStep
  <2>4. CASE Voice(b) \/ Edit(b) \/ Encore(b)  BY <2>4, VoiceStep, EditStep, EncoreStep
  <2>5. CASE ReplyText(b)  BY <2>5, DeliverStep DEF ReplyText
  <2>6. CASE CallFails(b)  BY <2>6, GiveUpStep DEF CallFails
  <2> QED  BY <1>4, <2>1, <2>2, <2>3, <2>4, <2>5, <2>6 DEF HandlerStep
<1>5. CASE UNCHANGED vars
  <2>1. TypeOK'  BY <1>5 DEF IInv, TypeOK, vars, database, bot, answers, history
  <2> QED
    BY <1>5, <2>1, CalmStep
       DEF IInv, ResultsPlayed, ToldOwnRound, EncoreTold, vars, database, bot, answers, history
<1> QED  BY <1>1, <1>2, <1>3, <1>4, <1>5 DEF Next

LEMMA Invariance == Spec => []IInv
BY InitInv, NextStep, PTL DEF Spec

-------------------------------------------------------------------------------
(* Theorems *)

\* Tables, updates and processes always have their types.
THEOREM TypeCorrect == Spec => []TypeOK
<1>1. IInv => TypeOK  BY DEF IInv
<1> QED  BY <1>1, Invariance, PTL

\* However many bots and API requests see a user first, one row and one account result.
THEOREM OneAccount == Spec => []OneAccountPerUser
<1>1. Init => OneAccountPerUser  BY DEF Init, OneAccountPerUser
<1>2. IInv /\ [Next]_vars /\ OneAccountPerUser => OneAccountPerUser'
  <2> SUFFICES ASSUME IInv, [Next]_vars, OneAccountPerUser,
                      ~ UNCHANGED <<users, wallets>>
               PROVE  OneAccountPerUser'
    BY DEF OneAccountPerUser
  <2> USE DEF IInv
  <2>1. \/ \E u \in Users : ApiCreateUser(u)
        \/ \E b \in Bots : Start(b) \/ Prompt(b)
    <3>1. \/ \E u \in Users : ApiCreateUser(u)
          \/ \E b \in Bots : HandlerStep(b)
      BY DEF Next, vars, database, Send, Fetch, Take, StartBot, Crash
    <3>2. ASSUME NEW b \in Bots,
                 \/ Answer(b) \/ Disabled(b) \/ Usage(b)
                 \/ \E time \in now..MaxTime : Limited(b, time) \/ Admit(b, time)
                 \/ Help(b) \/ Catalogue(b) \/ HistoryOfRounds(b) \/ LookUp(b)
          PROVE  FALSE
      BY <3>2
         DEF Answer, Disabled, Usage, Limited, Admit, Help, Catalogue, HistoryOfRounds, LookUp,
             GiveUp, Reply, database
    <3>3. ASSUME NEW b \in Bots,
                 Play(b) \/ Replay(b) \/ EngineRejects(b) \/ LogRejection(b) \/ WorkFails(b)
          PROVE  FALSE
      BY <3>3 DEF Play, Replay, EngineRejects, LogRejection, WorkFails, GiveUp, database
    <3>4. ASSUME NEW b \in Bots,
                 Voice(b) \/ Edit(b) \/ ReplyText(b) \/ Encore(b) \/ CallFails(b)
          PROVE  FALSE
      BY <3>4 DEF Voice, Edit, ReplyText, Encore, CallFails, GiveUp, Deliver, database
    <3> QED  BY <3>1, <3>2, <3>3, <3>4 DEF HandlerStep
  <2>2. ASSUME NEW u \in Users, ApiCreateUser(u) PROVE OneAccountPerUser'
    BY <2>2 DEF TypeOK, OneAccountPerUser, ApiCreateUser
  <2>3. ASSUME NEW b \in Bots, Start(b) \/ Prompt(b) PROVE OneAccountPerUser'
    BY <2>3 DEF TypeOK, OneAccountPerUser, Start, Prompt, Registered, Created, Insertable
  <2> QED  BY <2>1, <2>2, <2>3
<1> QED  BY <1>1, <1>2, Invariance, PTL DEF Spec

\* Whatever is redelivered, replayed or fetched twice, a result that is told is the round
\* of the update it answers.
THEOREM OwnRoundTold == Spec => []ToldOwnRound
<1>1. IInv => ToldOwnRound  BY DEF IInv
<1> QED  BY <1>1, Invariance, PTL

-------------------------------------------------------------------------------
(* No update is lost, no handler ends in silence *)

\* Where bot b may have left an update.
LeftBy(b) == told \cup excused \cup fetched[b] \cup {hand[b]}

\* What Telegram may forget, once b asks again, b has.
Confirmable ==
  /\ \A b \in Bots : offset[b] <= sent.updates
  /\ \A b \in Bots, m \in pending : m.id <= offset[b] => m \in LeftBy(b)

QueueInv == Confirmable /\ NoUpdateLost

\* A step that leaves updates where they are, or answers them, or gives them up.
KeepsUpdates ==
  /\ UNCHANGED <<pending, offset, sent>>
  /\ told \subseteq told' /\ excused \subseteq excused'
  /\ \A b \in Bots :
       /\ fetched[b] \subseteq LeftBy(b)'
       /\ hand[b] = Nothing \/ hand[b] \in LeftBy(b)'

LeftBySome ==
  \A m : m \in Accounted <=> m \in told \cup excused \/ \E b \in Bots : m \in LeftBy(b)

LEMMA AccountedBy == LeftBySome
<1> DEFINE waiting == UNION {fetched[b] : b \in Bots}
<1>1. \A m : m \in waiting <=> \E b \in Bots : m \in fetched[b]  BY Zenon
<1>2. Accounted = told \cup excused \cup {hand[b] : b \in Bots} \cup waiting
  BY DEF Accounted
<1> HIDE DEF waiting
<1> QED  BY <1>1, <1>2 DEF LeftBy, LeftBySome

LEMMA AccountedByNext == LeftBySome'
BY AccountedBy, PTL

LEMMA KeepsQueue ==
  ASSUME TypeOK, QueueInv, KeepsUpdates
  PROVE  QueueInv'
<1>1. \A b \in Bots : \A m \in LeftBy(b) : m = Nothing \/ m \in LeftBy(b)'
  BY DEF KeepsUpdates, LeftBy
<1>2. Confirmable'
  BY <1>1, TelegramAssumption DEF TypeOK, QueueInv, Confirmable, KeepsUpdates
<1>3. ASSUME NEW m \in pending \cup Accounted, m # Nothing
      PROVE  m \in pending' \cup Accounted'
  <2>1. m \in pending \/ m \in told \cup excused \/ \E b \in Bots : m \in LeftBy(b)
    BY <1>3, AccountedBy DEF LeftBySome
  <2>2. /\ \A b \in Bots : LeftBy(b)' \subseteq Accounted'
        /\ told' \cup excused' \subseteq Accounted'
    BY AccountedByNext DEF LeftBySome
  <2> QED  BY <1>1, <1>3, <2>1, <2>2 DEF KeepsUpdates
<1>4. NoUpdateLost'  BY <1>3 DEF QueueInv, NoUpdateLost, KeepsUpdates
<1> QED  BY <1>2, <1>4 DEF QueueInv

\* A handler keeps its update until it has answered it or given it up.
LEMMA HandlerKeeps ==
  ASSUME IInv, NEW b \in Bots, HandlerStep(b)
  PROVE  /\ KeepsUpdates
         /\ \A c \in Bots : hand'[c] = hand[c] \/ hand[c] \in told' \cup excused'
<1> USE DEF IInv
<1>1. CASE UNCHANGED <<pending, bot, hand, sent, answers>>
  BY <1>1 DEF KeepsUpdates, LeftBy, bot, answers
<1>2. CASE GiveUp(b)  BY <1>2 DEF TypeOK, KeepsUpdates, LeftBy, GiveUp, Finish, history
<1>3. CASE Deliver(b)  BY <1>3 DEF TypeOK, KeepsUpdates, LeftBy, Deliver, Finish, history
<1>4. CASE Encore(b)
  <2>1. hand[b] \in told  BY <1>4 DEF Encore, EncoreTold
  <2> QED
    BY <1>4, <2>1 DEF TypeOK, KeepsUpdates, LeftBy, Encore, Finish, history, answers
<1>5. CASE LookUp(b)
  BY <1>5 DEF KeepsUpdates, LeftBy, LookUp, history, answers
<1>6. CASE \/ Answer(b) \/ Disabled(b) \/ Usage(b)
           \/ \E time \in now..MaxTime : Limited(b, time) \/ Admit(b, time)
  BY <1>1, <1>6 DEF Answer, Disabled, Usage, Limited, Admit, Reply, history
<1>7. CASE Help(b) \/ Catalogue(b) \/ HistoryOfRounds(b) \/ LogRejection(b)
  BY <1>1, <1>2, <1>7 DEF Help, Catalogue, HistoryOfRounds, LogRejection, Reply, history
<1>8. CASE Start(b) \/ Prompt(b) \/ Play(b) \/ Replay(b) \/ EngineRejects(b) \/ WorkFails(b)
  BY <1>1, <1>8 DEF Start, Prompt, Registered, Play, Replay, EngineRejects, WorkFails, Saved
<1>9. CASE Voice(b) \/ Edit(b) \/ ReplyText(b) \/ CallFails(b)
  BY <1>1, <1>2, <1>3, <1>9 DEF Voice, Edit, ReplyText, CallFails, history
<1> QED  BY <1>4, <1>5, <1>6, <1>7, <1>8, <1>9 DEF HandlerStep

LEMMA SendQueue ==
  ASSUME IInv, QueueInv, NEW u \in Users, NEW entry \in Entries, Send(u, entry)
  PROVE  QueueInv'
<1> USE DEF IInv, QueueInv
<1>1. PICK new : /\ pending' = pending \cup {new}
                 /\ new.id = sent.updates + 1 /\ new # Nothing
  <2> DEFINE queries == IF entry.verb = "press" THEN sent.queries + 1 ELSE sent.queries
             m == [id |-> sent.updates + 1, query |-> IF entry.verb = "press" THEN queries ELSE 0,
                   user |-> u, verb |-> entry.verb, game |-> entry.game]
  <2>1. pending' = pending \cup {m} /\ m.id = sent.updates + 1  BY DEF Send
  <2>2. TypeOK'  BY SendStep
  <2>3. m \in Update  BY <2>1, <2>2 DEF TypeOK
  <2>4. m # Nothing  BY <2>3, TelegramAssumption
  <2> HIDE DEF m
  <2> QED  BY <2>1, <2>4
<1>2. /\ sent'.updates = sent.updates + 1 /\ sent.updates \in Nat
      /\ \A b \in Bots : offset[b] \in Nat
  BY TelegramAssumption DEF Send, TypeOK
<1>3. UNCHANGED <<offset, fetched, hand, told, excused>>  BY DEF Send, bot, answers
<1>4. Confirmable'  BY <1>1, <1>2, <1>3 DEF Confirmable, LeftBy
<1>5. Accounted' = Accounted  BY <1>3 DEF Accounted
<1>6. ASSUME NEW i \in 1..sent'.updates
      PROVE  \E m \in pending' \cup Accounted' : m # Nothing /\ m.id = i
  <2>1. CASE i = sent.updates + 1  BY <1>1, <2>1
  <2>2. CASE i # sent.updates + 1
    <3>1. i \in 1..sent.updates  BY <1>2, <1>6, <2>2
    <3> QED  BY <1>1, <1>5, <3>1 DEF NoUpdateLost
  <2> QED  BY <2>1, <2>2
<1> QED  BY <1>4, <1>6 DEF NoUpdateLost

\* What Telegram forgets, the bot that asks has.
LEMMA FetchQueue ==
  ASSUME IInv, QueueInv, NEW b \in Bots, Fetch(b)
  PROVE  QueueInv'
<1> USE DEF IInv, QueueInv
<1> DEFINE batch == {m \in pending : m.id > offset[b]}
<1>1. /\ pending' = batch
      /\ fetched' = [fetched EXCEPT ![b] = @ \cup batch]
      /\ UNCHANGED offset \/ \E m \in batch : offset' = [offset EXCEPT ![b] = m.id]
      /\ UNCHANGED <<hand, sent, told, excused>>
  BY DEF Fetch, history, answers
<1>2. batch \subseteq pending /\ pending \subseteq Update  BY DEF TypeOK
<1>3. \A m \in pending : m.id \in Nat /\ m.id <= sent.updates
  BY DEF TypeOK, IdsDistinct, Seen, Update
<1>4. \A m \in pending : m \in batch \/ m \in LeftBy(b)
  <2>1. offset[b] \in Nat  BY DEF TypeOK
  <2> QED  BY <1>3, <2>1 DEF Confirmable
<1> HIDE DEF batch
<1>5. \A c \in Bots : /\ LeftBy(c) \subseteq LeftBy(c)'
                      /\ c = b => batch \subseteq LeftBy(c)'
                      /\ c # b => offset'[c] = offset[c]
                      /\ offset'[c] <= sent.updates
  BY <1>1, <1>2, <1>3 DEF LeftBy, TypeOK, Confirmable
<1>6. Confirmable'  BY <1>1, <1>2, <1>5 DEF Confirmable
<1>7. ASSUME NEW m \in pending \cup Accounted
      PROVE  m \in pending' \cup Accounted'
  <2>1. \/ m \in pending \/ m \in told \cup excused
        \/ \E c \in Bots : m \in LeftBy(c)
    BY <1>7, AccountedBy DEF LeftBySome
  <2>2. /\ \A c \in Bots : LeftBy(c)' \subseteq Accounted'
        /\ told' \cup excused' \subseteq Accounted'
    BY AccountedByNext DEF LeftBySome
  <2> QED  BY <1>1, <1>4, <1>5, <2>1, <2>2
<1>8. NoUpdateLost'  BY <1>1, <1>7 DEF NoUpdateLost
<1> QED  BY <1>6, <1>8

LEMMA StartQueue ==
  ASSUME IInv, QueueInv, NEW b \in Bots, StartBot(b)
  PROVE  QueueInv'
<1> USE DEF IInv, QueueInv
<1>1. /\ pending' = {} /\ excused' = excused \cup pending
      /\ offset' = [offset EXCEPT ![b] = sent.updates]
      /\ UNCHANGED <<fetched, hand, told, sent>>
  BY DEF StartBot, history
<1>2. sent.updates \in Nat  BY TelegramAssumption DEF TypeOK
<1>3. Confirmable'  BY <1>1, <1>2 DEF Confirmable, TypeOK
<1>4. pending \cup Accounted \subseteq Accounted'  BY <1>1 DEF Accounted
<1> QED  BY <1>1, <1>3, <1>4 DEF NoUpdateLost

LEMMA QueueStep == IInv /\ QueueInv /\ [Next]_vars => QueueInv'
<1> SUFFICES ASSUME IInv, QueueInv, [Next]_vars PROVE QueueInv'  OBVIOUS
<1>1. TypeOK  BY DEF IInv
<1>2. ASSUME NEW u \in Users, NEW entry \in Entries, Send(u, entry) PROVE QueueInv'
  BY <1>2, SendQueue
<1>3. ASSUME NEW u \in Users, ApiCreateUser(u) PROVE QueueInv'
  <2>1. KeepsUpdates  BY <1>3 DEF KeepsUpdates, LeftBy, ApiCreateUser, bot, history, answers
  <2> QED  BY <1>1, <2>1, KeepsQueue
<1>4. ASSUME NEW b \in Bots, Fetch(b) \/ StartBot(b) PROVE QueueInv'
  BY <1>4, FetchQueue, StartQueue
<1>5. ASSUME NEW b \in Bots, Take(b) PROVE QueueInv'
  <2>1. PICK m \in fetched[b] : /\ hand' = [hand EXCEPT ![b] = m]
                                /\ fetched' = [fetched EXCEPT ![b] = @ \ {m}]
    BY <1>5 DEF Take
  <2>2. hand[b] = Nothing  BY <1>1, <1>5 DEF Take, TypeOK
  <2>3. KeepsUpdates
    BY <1>1, <1>5, <2>1, <2>2 DEF TypeOK, KeepsUpdates, LeftBy, Take, history, answers
  <2> QED  BY <1>1, <2>3, KeepsQueue
<1>6. ASSUME NEW b \in Bots, Crash(b) PROVE QueueInv'
  <2>1. KeepsUpdates  BY <1>1, <1>6 DEF TypeOK, KeepsUpdates, LeftBy, Crash
  <2> QED  BY <1>1, <2>1, KeepsQueue
<1>7. ASSUME NEW b \in Bots, HandlerStep(b) PROVE QueueInv'
  BY <1>1, <1>7, HandlerKeeps, KeepsQueue
<1>8. CASE UNCHANGED vars
  <2>1. KeepsUpdates  BY <1>8 DEF KeepsUpdates, LeftBy, vars, bot, history, answers
  <2> QED  BY <1>1, <2>1, KeepsQueue
<1> QED  BY <1>2, <1>3, <1>4, <1>5, <1>6, <1>7, <1>8 DEF Next

\* However many bots ask for updates, in whatever order they crash and start, each update
\* a user sent is with Telegram or a bot, or answered, or given up.
THEOREM NothingLost == Spec => []NoUpdateLost
<1>1. Init => QueueInv
  BY TelegramAssumption DEF Init, QueueInv, Confirmable, NoUpdateLost
<1>2. QueueInv => NoUpdateLost  BY DEF QueueInv
<1> QED  BY <1>1, <1>2, Invariance, QueueStep, PTL DEF Spec

\* No handler ends in silence: it has answered, or a crash, a failed call or an unguarded
\* read has ended it.
THEOREM NoSilentEnd == Spec => HandlersAnswer
<1>1. ASSUME IInv, [Next]_vars, NEW b \in Bots, hand[b] # Nothing, hand'[b] = Nothing
      PROVE  hand[b] \in told' \cup excused'
  <2> USE DEF IInv
  <2>1. CASE \E c \in Bots : HandlerStep(c)  BY <1>1, <2>1, HandlerKeeps
  <2>2. CASE \E c \in Bots : Crash(c)  BY <1>1, <2>2 DEF TypeOK, Crash
  <2>3. CASE \E c \in Bots : Take(c)
    BY <1>1, <2>3, TelegramAssumption DEF TypeOK, Take
  <2>4. CASE UNCHANGED hand  BY <1>1, <2>4
  <2> QED
    BY <1>1, <2>1, <2>2, <2>3, <2>4 DEF Next, vars, Send, ApiCreateUser, Fetch, StartBot
<1>2. IInv /\ [Next]_vars
        => [\A b \in Bots : hand[b] # Nothing /\ hand'[b] = Nothing
              => hand[b] \in told' \cup excused']_vars
  BY <1>1
<1> QED  BY <1>2, Invariance, PTL DEF Spec, HandlersAnswer

===============================================================================
