\* Two round workers and an admin compete for one key and one account row.
SPECIFICATION FairSpec
CONSTANTS
  u1 = u1
  flip = flip
  flip2 = flip2
  wheel = wheel
  plain = plain
  toobig = toobig
  Workers = {w1, w2}
  Admins = {a1}
  Users = {u1}
  Keys = {flip}
  DirectKeys = {}
  KeyUser <- MCKeyUser
  KeyGame <- MCKeyGame
  KeyBet <- MCKeyBet
  GamesEnabled = {"coin_flip", "bonus_wheel"}
  MinBet <- MCMinBet
  MaxBet <- MCMaxBet
  CooldownGames = {"coin_flip"}
  TokenUnitScale = 2
  GameAccessMinTokens = 1
  MaxBetAmount = 4
  OpeningBalance <- MCOpeningBalance
  AdminDeltas <- MCDebit
  MaxBalance = 4
  MaxCounted = 0
  NoKey = NoKey
  Nobody = Nobody
PROPERTIES
  EveryUpdateEnds
