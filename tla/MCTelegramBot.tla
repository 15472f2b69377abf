----------------------------- MODULE MCTelegramBot -----------------------------
(***************************************************************************)
(* Instances of TelegramBot for TLC.                                       *)
(***************************************************************************)
EXTENDS TelegramBot

CONSTANTS b1, b2

Plain(verb) == [verb |-> verb, game |-> NoGame]

Flip(verb) == [verb |-> verb, game |-> "flip"]

Wheel(verb) == [verb |-> verb, game |-> "wheel"]

\* Every verb in one of two places: a stake meets a press, and a stake of the other game.
MCMenu ==
  <<{Plain("start"), Plain("games"), Plain("rounds"), Wheel("prompt"), Flip("usage"),
     Flip("stake")},
    {Plain("help"), Flip("press"), Wheel("stake")}>>

\* The second bot is started with other settings.
MCEnabled == [b \in Bots |-> IF b = b1 THEN Games ELSE {"flip"}]

MCInLimits == [b \in Bots |-> IF b = b1 THEN Entries ELSE Entries \ {Flip("press")}]

MCPromptLimit == [b \in Bots |-> 0]

MCActionLimit == [b \in Bots |-> IF b = b1 THEN 1 ELSE 0]

===============================================================================
