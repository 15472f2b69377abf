\* One round worker and one admin: the round overwrites the adjustment.
SPECIFICATION Spec
CONSTANTS
  u1 = u1
  flip = flip
  flip2 = flip2
  wheel = wheel
  plain = plain
  toobig = toobig
  Workers = {w1}
  Admins = {a1}
  Users = {u1}
  Keys = {flip}
  DirectKeys = {}
  KeyUser <- MCKeyUser
  KeyGame <- MCKeyGame
  KeyBet <- MCKeyBet
  GamesEnabled = {"coin_flip", "bonus_wheel"}
  MinBet <- MCMinBet
  MaxBet <- MCMaxBet
  CooldownGames = {"coin_flip"}
  TokenUnitScale = 2
  GameAccessMinTokens = 1
  MaxBetAmount = 4
  OpeningBalance <- MCOpeningBalance
  AdminDeltas <- MCCredit
  MaxBalance = 4
  MaxCounted = 0
  NoKey = NoKey
  Nobody = Nobody
INVARIANTS
  LedgerMatchesBalance
