------------------------------ MODULE TelegramBot ------------------------------
(***************************************************************************)
(* The Telegram adapter: updates from the moment a user sends them to the  *)
(* answer, and what they leave in the database.                            *)
(*                                                                         *)
(* A bot is a polling process.  It fetches updates while it handles those  *)
(* it has, one at a time in the order of their ids: a handler is a chain   *)
(* of awaits, each a step.  A process that crashes forgets the updates it  *)
(* has fetched and its rate limits; one that starts drops what is pending  *)
(* at Telegram.  Two bots stand for a deployment that overlaps the one it  *)
(* replaces.                                                               *)
(*                                                                         *)
(* A round is one step here: how run_game_detailed decides a key once is   *)
(* what GameRounds is about.                                               *)
(***************************************************************************)
EXTENDS Integers, Sequences, FiniteSets

CONSTANTS
  Bots, Users,
  Menu,          \* bound: the verb and the game that each update may have
  Enabled,       \* setting of each process: the games that may be played
  InLimits,      \* of each process: the entries whose stake is within its bet limits
  Payouts,       \* what a round may pay
  PromptLimit, ActionLimit,  \* of each process: events of a user in a window, 0 for any number
  Window,        \* the length of the limiters' window
  MaxUpdates,    \* bound: updates there are
  MaxTime,       \* bound: the last time
  MaxCrashes,    \* bound: crashes
  NoGame, Nothing

Games == {"flip", "wheel"}

\* Commands that only read.  /me, /status, /profile, /admin, /support and /balance are
\* "help" here.
Reads == {"help", "games", "rounds"}

Stakes == {"stake", "press"}

Entries ==
  [verb : {"start"} \cup Reads, game : {NoGame}]
    \cup [verb : {"prompt", "usage"} \cup Stakes, game : Games]

Update == [id : 1..MaxUpdates, query : 0..MaxUpdates, user : Users,
           verb : {"start", "prompt", "usage"} \cup Reads \cup Stakes,
           game : Games \cup {NoGame}]

ASSUME TelegramAssumption ==
  /\ Menu \in [1..MaxUpdates -> SUBSET Entries]
  /\ NoGame \notin Games /\ Nothing \notin Update
  /\ Enabled \in [Bots -> SUBSET Games] /\ InLimits \in [Bots -> SUBSET Entries]
  /\ Payouts \subseteq Int
  /\ PromptLimit \in [Bots -> Nat] /\ ActionLimit \in [Bots -> Nat] /\ Window \in Nat
  /\ MaxUpdates \in Nat /\ MaxTime \in Nat /\ MaxCrashes \in Nat

VARIABLES
  \* Telegram
  pending,    \* updates Telegram holds
  \* the database
  users, wallets,  \* rows of each Telegram id, and their token accounts
  rounds,          \* the game_rounds row of each idempotency key
  \* bots
  pc,
  offset,     \* the last update id the bot has fetched
  fetched,    \* updates it has fetched and not begun to handle
  hand,       \* the update it handles, Nothing if none
  known,      \* whether its transaction found the user
  saying,     \* the answer it is sending
  buckets,    \* the limiters' events of each user, oldest first
  \* time and history
  now, sent, crashes,
  admitted,   \* the events each running bot has let through
  played,     \* <<update, payout>>: the rounds committed, and for which update
  told,       \* updates that have been answered
  results,    \* <<update, payout>>: the results users have been told
  excused     \* updates whose handler a crash or a failed call has ended

database == <<users, wallets, rounds>>
bot == <<offset, fetched, known>>
answers == <<told, results, excused>>
history == <<sent, crashes, admitted, played>>
vars == <<pending, database, pc, bot, hand, saying, buckets, now, history, answers>>

-------------------------------------------------------------------------------
(* Updates and their keys *)

Keys == Users \X {"cmd", "cb"} \X (1..MaxUpdates) \X Games

\* Mutant of Key: one name space for update ids and callback ids.
KeyOfId(m) == <<m.user, "cmd", IF m.verb = "press" THEN m.query ELSE m.id, m.game>>

\* command_idempotency_key, callback_idempotency_key
Key(m) ==
  IF m.verb = "press" THEN <<m.user, "cb", m.query, m.game>>
  ELSE <<m.user, "cmd", m.id, m.game>>

Round == [status : {"committed", "rejected", "failed"}, payout : Int]

NoRound == [status |-> "none", payout |-> 0]

Saying ==
  [text : {"none", "disabled", "usage", "limited", "read", "welcome", "keyboard", "error",
           "result", "refused", "rejected"},
   payout : Int]

Silence == [text |-> "none", payout |-> 0]

Goto(b, label) == pc' = [pc EXCEPT ![b] = label]

\* A button's message is edited, a command is replied to.
Surface(m) == IF m.verb = "press" THEN "edit" ELSE "reply"

\* The handler has its answer.
Say(b, text, payout) ==
  /\ saying' = [saying EXCEPT ![b] = [text |-> text, payout |-> payout]]
  /\ Goto(b, IF text = "result" /\ hand[b].game = "wheel" THEN "voice"
             ELSE IF text = "rejected" THEN "log" ELSE Surface(hand[b]))

\* Mutant of Finish: the update stays in hand.
FinishHolding(b) ==
  /\ Goto(b, "idle")
  /\ saying' = [saying EXCEPT ![b] = Silence]
  /\ known' = [known EXCEPT ![b] = FALSE]
  /\ UNCHANGED hand

\* The handler ends, by its last statement or by an exception nothing catches.
Finish(b) ==
  /\ Goto(b, "idle")
  /\ hand' = [hand EXCEPT ![b] = Nothing]
  /\ saying' = [saying EXCEPT ![b] = Silence]
  /\ known' = [known EXCEPT ![b] = FALSE]

\* A call that failed ends the handler.
GiveUp(b) ==
  /\ Finish(b)
  /\ excused' = excused \cup {hand[b]}
  /\ UNCHANGED <<pending, database, offset, fetched, buckets, now, history, told, results>>

-------------------------------------------------------------------------------
(* Users, time, Telegram *)

\* A keyboard stays where it was sent, for whoever sees it to press.
Send(u, entry) ==
  /\ sent.updates < MaxUpdates /\ entry \in Menu[sent.updates + 1]
  /\ LET press == entry.verb = "press"
         queries == IF press THEN sent.queries + 1 ELSE sent.queries
     IN  /\ sent' = [updates |-> sent.updates + 1, queries |-> queries]
         /\ pending' = pending \cup
              {[id |-> sent.updates + 1, query |-> IF press THEN queries ELSE 0,
                user |-> u, verb |-> entry.verb, game |-> entry.game]}
  /\ UNCHANGED <<database, pc, bot, hand, saying, buckets, now, crashes, admitted, played,
                 answers>>

\* POST /users of the admin API, for a Telegram id without a row; 409 otherwise.
ApiCreateUser(u) ==
  /\ users[u] = 0
  /\ users' = [users EXCEPT ![u] = 1]
  /\ wallets' = [wallets EXCEPT ![u] = 1]
  /\ UNCHANGED <<pending, rounds, pc, bot, hand, saying, buckets, now, history, answers>>

-------------------------------------------------------------------------------
(* The process *)

NoEvents == [key \in {"prompt", "action"} \X Users |-> <<>>]

\* run_polling(drop_pending_updates=True)
StartBot(b) ==
  /\ pc[b] = "down"
  /\ Goto(b, "idle")
  /\ pending' = {}
  /\ offset' = [offset EXCEPT ![b] = sent.updates]
  /\ excused' = excused \cup pending
  /\ UNCHANGED <<database, fetched, hand, known, saying, buckets, now, history, told, results>>

Crash(b) ==
  /\ pc[b] # "down" /\ crashes < MaxCrashes
  /\ pc' = [pc EXCEPT ![b] = "down"]
  /\ fetched' = [fetched EXCEPT ![b] = {}]
  /\ hand' = [hand EXCEPT ![b] = Nothing]
  /\ saying' = [saying EXCEPT ![b] = Silence]
  /\ known' = [known EXCEPT ![b] = FALSE]
  /\ buckets' = [buckets EXCEPT ![b] = NoEvents]
  /\ admitted' = [admitted EXCEPT ![b] = {}]
  /\ crashes' = crashes + 1
  /\ excused' = excused \cup fetched[b] \cup ({hand[b]} \ {Nothing})
  /\ UNCHANGED <<pending, database, offset, now, sent, played, told, results>>

\* Mutant of Fetch: only the newest update is asked for.
FetchNewest(b) ==
  LET batch == {m \in pending : m.id > offset[b] /\ \A n \in pending : n.id <= m.id}
  IN  /\ pc[b] # "down" /\ pending # {}
      /\ pending' = batch
      /\ fetched' = [fetched EXCEPT ![b] = @ \cup batch]
      /\ \/ batch = {} /\ UNCHANGED offset
         \/ \E m \in batch : offset' = [offset EXCEPT ![b] = m.id]
      /\ UNCHANGED <<database, pc, hand, known, saying, buckets, now, history, answers>>

\* getUpdates: the updates the bot has fetched before are confirmed, Telegram forgets
\* them; those after them it returns, to this bot and to any other that asks.
Fetch(b) ==
  LET batch == {m \in pending : m.id > offset[b]}
  IN  /\ pc[b] # "down" /\ pending # {}
      /\ pending' = batch
      /\ fetched' = [fetched EXCEPT ![b] = @ \cup batch]
      /\ \/ batch = {} /\ UNCHANGED offset
         \/ \E m \in batch : /\ \A n \in batch : n.id <= m.id
                            /\ offset' = [offset EXCEPT ![b] = m.id]
      /\ UNCHANGED <<database, pc, hand, known, saying, buckets, now, history, answers>>

\* Where the handler of an update begins.
Entrance(m) ==
  IF m.verb = "press" THEN "answer"
  ELSE IF m.verb \in {"start"} \cup Reads THEN "load" ELSE "begin"

\* The oldest of the fetched updates is handled next.
Take(b) ==
  /\ pc[b] = "idle"
  /\ \E m \in fetched[b] :
       /\ \A n \in fetched[b] : m.id <= n.id
       /\ hand' = [hand EXCEPT ![b] = m]
       /\ fetched' = [fetched EXCEPT ![b] = @ \ {m}]
       /\ Goto(b, Entrance(m))
  /\ UNCHANGED <<pending, database, offset, known, saying, buckets, now, history, answers>>

-------------------------------------------------------------------------------
(* Before the database: the press is acknowledged, gates and limits *)

\* query.answer(), of which nothing catches a failure.
Answer(b) ==
  /\ pc[b] = "answer"
  /\ Goto(b, "begin")
  /\ UNCHANGED <<pending, database, bot, hand, saying, buckets, now, history, answers>>

Entry(b) == hand[b].verb

\* Only the wheel's handlers look; a disabled flip is left to the engine.
GatedOut(b) ==
  /\ Entry(b) \in {"prompt", "usage"} \cup Stakes
  /\ hand[b].game = "wheel" /\ "wheel" \notin Enabled[b]

Scope(b) == IF Entry(b) = "prompt" THEN "prompt" ELSE "action"

Limit(b, scope) == IF scope = "prompt" THEN PromptLimit[b] ELSE ActionLimit[b]

\* Mutant of Expired: an event exactly a window old is forgotten.
ExpiredEarly(t, time) == t <= time - Window

Expired(t, time) == t < time - Window

\* _prune: events are dropped from the oldest on, up to the first that has not expired.
Pruned(events, time) ==
  LET first == CHOOSE i \in 1..(Len(events) + 1) :
                 /\ \A j \in 1..(i - 1) : Expired(events[j], time)
                 /\ i <= Len(events) => ~Expired(events[i], time)
  IN  SubSeq(events, first, Len(events))

Bucket(b, time) == Pruned(buckets[b][<<Scope(b), hand[b].user>>], time)

\* _allow
Allowed(b, time) == Limit(b, Scope(b)) = 0 \/ Len(Bucket(b, time)) < Limit(b, Scope(b))

Reply(b, text) ==
  /\ Say(b, text, 0)
  /\ UNCHANGED <<pending, database, bot, hand, history, answers>>

Disabled(b) ==
  /\ pc[b] = "begin" /\ GatedOut(b)
  /\ Reply(b, "disabled")
  /\ UNCHANGED <<buckets, now>>

Usage(b) ==
  /\ pc[b] = "begin" /\ ~GatedOut(b) /\ Entry(b) = "usage"
  /\ Reply(b, "usage")
  /\ UNCHANGED <<buckets, now>>

\* The limiters are the only ones to look at the clock: it moves when they do.
Limited(b, time) ==
  /\ pc[b] = "begin" /\ ~GatedOut(b) /\ Entry(b) \in {"prompt"} \cup Stakes
  /\ ~Allowed(b, time)
  /\ now' = time
  /\ buckets' = [buckets EXCEPT ![b][<<Scope(b), hand[b].user>>] = Bucket(b, time)]
  /\ Reply(b, "limited")

Admit(b, time) ==
  /\ pc[b] = "begin" /\ ~GatedOut(b) /\ Entry(b) \in {"prompt"} \cup Stakes
  /\ Allowed(b, time)
  /\ IF Limit(b, Scope(b)) = 0 THEN UNCHANGED <<now, buckets, admitted>>
     ELSE /\ now' = time
          /\ buckets' = [buckets EXCEPT
                           ![b][<<Scope(b), hand[b].user>>] = Append(Bucket(b, time), time)]
          /\ admitted' = [admitted EXCEPT
                            ![b] = @ \cup {<<Scope(b), hand[b].user, hand[b].id, time>>}]
  /\ Goto(b, "load")
  /\ UNCHANGED <<pending, database, bot, hand, saying, sent, crashes, played, answers>>

-------------------------------------------------------------------------------
(* The database work, in a thread *)

\* The user is looked up, with nothing to catch an error.
Help(b) ==
  /\ pc[b] = "load" /\ Entry(b) = "help"
  /\ \/ Reply(b, "read") /\ UNCHANGED <<buckets, now>>
     \/ GiveUp(b)

\* The same, before a catalogue of which an error is caught.
Catalogue(b) ==
  /\ pc[b] = "load" /\ Entry(b) = "games"
  /\ \/ \E text \in {"read", "error"} : Reply(b, text) /\ UNCHANGED <<buckets, now>>
     \/ GiveUp(b)

\* Here every error is caught.
HistoryOfRounds(b) ==
  /\ pc[b] = "load" /\ Entry(b) = "rounds"
  /\ \E text \in {"read", "error"} : Reply(b, text)
  /\ UNCHANGED <<buckets, now>>

\* ensure_telegram_user looks for the row.
LookUp(b) ==
  /\ pc[b] = "load" /\ Entry(b) \notin Reads
  /\ known' = [known EXCEPT ![b] = users[hand[b].user] > 0]
  /\ Goto(b, "save")
  /\ UNCHANGED <<pending, database, offset, fetched, hand, saying, buckets, now, history, answers>>

\* Mutant of Insertable: the Telegram id is not unique.
InsertableAlways(u) == TRUE

\* The unique index on telegram_user_id.
Insertable(u) == users[u] = 0

\* create_user: the row and its account, in one transaction.
Created(u) ==
  /\ Insertable(u)
  /\ users' = [users EXCEPT ![u] = @ + 1]
  /\ wallets' = [wallets EXCEPT ![u] = @ + 1]

Saved(b, text, payout) ==
  /\ Say(b, text, payout)
  /\ UNCHANGED <<pending, bot, hand, buckets, now, sent, crashes, admitted, answers>>

\* The work of a start or a prompt commits the user; what comes after may still raise.
Registered(b) ==
  /\ \/ known[b] /\ UNCHANGED <<users, wallets>>
     \/ ~known[b] /\ Created(hand[b].user)
  /\ UNCHANGED <<rounds, played>>

Start(b) ==
  /\ pc[b] = "save" /\ Entry(b) = "start" /\ Registered(b)
  /\ \E text \in {"welcome", "error"} : Saved(b, text, 0)

\* The keyboard of the stakes the user can pay.
Prompt(b) ==
  /\ pc[b] = "save" /\ Entry(b) = "prompt" /\ Registered(b)
  /\ \E text \in {"keyboard", "error"} : Saved(b, text, 0)

\* The engine's first checks: the game is enabled and the bet within the limits.
Accepts(b) ==
  hand[b].game \in Enabled[b] /\ [verb |-> Entry(b), game |-> hand[b].game] \in InLimits[b]

Decides(b) == rounds[Key(hand[b])] = NoRound

\* The engine runs a round of its own and the transaction commits; what comes after
\* the commit may still raise.
Play(b) ==
  /\ pc[b] = "save" /\ Entry(b) \in Stakes /\ known[b]
  /\ Accepts(b) /\ Decides(b)
  /\ \E status \in {"committed", "rejected"}, p \in Payouts :
       LET payout == IF status = "committed" THEN p ELSE 0 IN
       /\ rounds' = [rounds EXCEPT ![Key(hand[b])] = [status |-> status, payout |-> payout]]
       /\ played' = IF status = "committed" THEN played \cup {<<hand[b], payout>>} ELSE played
       /\ \/ status = "committed" /\ Saved(b, "result", payout)
          \/ status = "rejected" /\ Saved(b, "refused", 0)
          \/ Saved(b, "error", 0)
  /\ UNCHANGED <<users, wallets>>

\* The key has its row: the answer is that of the first time.
Replay(b) ==
  LET row == rounds[Key(hand[b])] IN
  /\ pc[b] = "save" /\ Entry(b) \in Stakes /\ known[b]
  /\ Accepts(b) /\ row # NoRound
  /\ \/ row.status = "committed" /\ Saved(b, "result", row.payout)
     \/ row.status = "rejected" /\ Saved(b, "refused", 0)
     \/ row.status = "failed" /\ Saved(b, "error", 0)
  /\ UNCHANGED <<database, played>>

\* GameEngineRejected rolls everything back: for a disabled game or a bet outside the
\* limits, even if its key has a row; for a key without one, by the gates of GameRounds;
\* for a user just created, whose balance is below GAME_ACCESS_MIN_TOKENS.
EngineRejects(b) ==
  /\ pc[b] = "save" /\ Entry(b) \in Stakes
  /\ \/ known[b] /\ ~Accepts(b)
     \/ known[b] /\ rounds[Key(hand[b])] = NoRound
     \/ ~known[b] /\ Insertable(hand[b].user)
  /\ Saved(b, "rejected", 0)
  /\ UNCHANGED <<database, played>>

\* The unit of work raises, which a round that had begun may leave as a failed row.
WorkFails(b) ==
  LET k == Key(hand[b]) IN
  /\ pc[b] \in {"load", "save"} /\ Entry(b) \notin Reads
  /\ \/ UNCHANGED rounds
     \/ /\ pc[b] = "save" /\ Entry(b) \in Stakes /\ known[b]
        /\ Accepts(b) /\ rounds[k] = NoRound
        /\ rounds' = [rounds EXCEPT ![k] = [status |-> "failed", payout |-> 0]]
  /\ Saved(b, "error", 0)
  /\ UNCHANGED <<users, wallets, played>>

\* The log of a rejection looks the user up once more, with nothing to catch an error.
LogRejection(b) ==
  /\ pc[b] = "log"
  /\ \/ /\ Goto(b, Surface(hand[b]))
        /\ UNCHANGED <<pending, database, bot, hand, saying, buckets, now, history, answers>>
     \/ GiveUp(b)

-------------------------------------------------------------------------------
(* Delivery *)

\* The wheel's first voice message, of which a failure is only remembered for Encore.
Voice(b) ==
  /\ pc[b] = "voice"
  /\ Goto(b, Surface(hand[b]))
  /\ UNCHANGED <<pending, database, bot, hand, saying, buckets, now, history, answers>>

\* The text has reached the user.
Deliver(b) ==
  /\ told' = told \cup {hand[b]}
  /\ results' = IF saying[b].text = "result"
                THEN results \cup {<<hand[b], saying[b].payout>>} ELSE results
  /\ IF saying[b].text = "result" /\ hand[b].game = "wheel"
     THEN Goto(b, "encore") /\ UNCHANGED <<hand, saying, known>>
     ELSE Finish(b)
  /\ UNCHANGED <<pending, database, offset, fetched, buckets, now, history, excused>>

\* Mutant of Edit: an edit that Telegram refuses is the end of it.
EditOrLeave(b) ==
  /\ pc[b] = "edit"
  /\ \/ Deliver(b)
     \/ /\ Finish(b)
        /\ UNCHANGED <<pending, database, offset, fetched, buckets, now, history, answers>>

\* edit_message_text; on BadRequest the handler replies instead.
Edit(b) ==
  /\ pc[b] = "edit"
  /\ \/ Deliver(b)
     \/ /\ Goto(b, "reply")
        /\ UNCHANGED <<pending, database, bot, hand, saying, buckets, now, history, answers>>

ReplyText(b) == pc[b] = "reply" /\ Deliver(b)

\* The second voice message, and a notice when one of the two has failed.
Encore(b) ==
  /\ pc[b] = "encore"
  /\ Finish(b)
  /\ UNCHANGED <<pending, database, offset, fetched, buckets, now, history, answers>>

\* A call to Telegram fails in a way that nothing catches.
CallFails(b) == pc[b] \in {"answer", "edit", "reply", "encore"} /\ GiveUp(b)

-------------------------------------------------------------------------------

Init ==
  /\ pending = {}
  /\ users = [u \in Users |-> 0] /\ wallets = [u \in Users |-> 0]
  /\ rounds = [k \in Keys |-> NoRound]
  /\ pc = [b \in Bots |-> "idle"]
  /\ offset = [b \in Bots |-> 0]
  /\ fetched = [b \in Bots |-> {}]
  /\ hand = [b \in Bots |-> Nothing]
  /\ known = [b \in Bots |-> FALSE]
  /\ saying = [b \in Bots |-> Silence]
  /\ buckets = [b \in Bots |-> NoEvents]
  /\ admitted = [b \in Bots |-> {}]
  /\ now = 0 /\ sent = [updates |-> 0, queries |-> 0] /\ crashes = 0
  /\ played = {} /\ told = {} /\ results = {} /\ excused = {}

\* A step of the handler, of its thread, or of Telegram's answer to it.
HandlerStep(b) ==
  \/ Answer(b) \/ Disabled(b) \/ Usage(b)
  \/ \E time \in now..MaxTime : Limited(b, time) \/ Admit(b, time)
  \/ Help(b) \/ Catalogue(b) \/ HistoryOfRounds(b) \/ LookUp(b)
  \/ Start(b) \/ Prompt(b) \/ Play(b) \/ Replay(b)
  \/ EngineRejects(b) \/ LogRejection(b) \/ WorkFails(b)
  \/ Voice(b) \/ Edit(b) \/ ReplyText(b) \/ Encore(b) \/ CallFails(b)

Next ==
  \/ \E u \in Users, entry \in Entries : Send(u, entry)
  \/ \E u \in Users : ApiCreateUser(u)
  \/ \E b \in Bots : Fetch(b) \/ Take(b) \/ HandlerStep(b) \/ StartBot(b) \/ Crash(b)

Spec == Init /\ [][Next]_vars

-------------------------------------------------------------------------------
(* Properties *)

\* Updates, tables and processes have their types, and an idle bot has nothing in hand.
TypeOK ==
  /\ pending \subseteq Update
  /\ users \in [Users -> Nat] /\ wallets \in [Users -> Nat]
  /\ rounds \in [Keys -> Round \cup {NoRound}]
  /\ pc \in [Bots -> {"down", "idle", "answer", "begin", "load", "save", "log", "voice",
                      "edit", "reply", "encore"}]
  /\ offset \in [Bots -> Nat]
  /\ fetched \in [Bots -> SUBSET Update]
  /\ hand \in [Bots -> Update \cup {Nothing}]
  /\ \A b \in Bots : hand[b] = Nothing <=> pc[b] \in {"down", "idle"}
  /\ known \in [Bots -> BOOLEAN]
  /\ saying \in [Bots -> Saying]
  /\ now \in 0..MaxTime /\ crashes \in 0..MaxCrashes
  /\ sent \in [updates : 0..MaxUpdates, queries : 0..MaxUpdates]
  /\ told \subseteq Update /\ excused \subseteq Update

\* A Telegram id has one row, whoever saw it first, and every row has its account, so
\* that adjust_user_tokens never has to make one (ensure_telegram_user, create_user).
OneAccountPerUser == \A u \in Users : users[u] <= 1 /\ wallets[u] = users[u]

\* Where an update is accounted for: some bot has it, or it was answered, or given up.
Accounted ==
  told \cup excused \cup {hand[b] : b \in Bots} \cup (UNION {fetched[b] : b \in Bots})

\* Nothing a user sends is lost on the way: until an update is answered, or a crash, a
\* failed call or a start gives it up, Telegram or a bot has it.  With two bots at work
\* Telegram forgets an update as soon as either confirms it (run_polling, the handlers'
\* except branches).
NoUpdateLost ==
  \A i \in 1..sent.updates : \E m \in pending \cup Accounted : m # Nothing /\ m.id = i

\* A result that a user is told for an update is the round played for that update, and
\* was committed before it was told (the idempotency keys, replays, delivery).
ToldOwnRound == results \subseteq played

\* A handler that comes to its end has answered its update, unless a crash, a failed
\* call or an unguarded read has ended it: a button whose message can no longer be
\* edited is answered by a new message (the handlers' except branches).
HandlersAnswer ==
  [][\A b \in Bots : hand[b] # Nothing /\ hand'[b] = Nothing =>
       hand[b] \in told' \cup excused']_vars

\* No running bot lets a user through more often than the limit in any window, its ends
\* included (_allow).
LimitPerWindow ==
  \A b \in Bots, scope \in {"prompt", "action"}, u \in Users, start \in 0..MaxTime :
    Limit(b, scope) > 0 =>
      Cardinality({e \in admitted[b] : /\ e[1] = scope /\ e[2] = u
                                       /\ e[4] \in start..(start + Window)}) <= Limit(b, scope)

===============================================================================
