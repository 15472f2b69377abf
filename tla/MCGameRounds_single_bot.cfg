\* One round worker, as one polling process has, and no adjustment by an admin.
SPECIFICATION Spec
CONSTANTS
  u1 = u1
  flip = flip
  flip2 = flip2
  wheel = wheel
  plain = plain
  toobig = toobig
  Workers = {w1}
  Admins = {}
  Users = {u1}
  Keys = {flip, flip2, wheel, plain, toobig}
  DirectKeys = {plain, toobig}
  KeyUser <- MCKeyUser
  KeyGame <- MCKeyGame
  KeyBet <- MCKeyBet
  GamesEnabled = {"coin_flip", "bonus_wheel"}
  MinBet <- MCMinBet
  MaxBet <- MCMaxBet
  CooldownGames = {"coin_flip"}
  TokenUnitScale = 2
  GameAccessMinTokens = 1
  MaxBetAmount = 4
  OpeningBalance <- MCOpeningBalance
  AdminDeltas <- MCCreditAndDebit
  MaxBalance = 4
  MaxCounted = 1
  NoKey = NoKey
  Nobody = Nobody
INVARIANTS
  LedgerMatchesBalance
PROPERTIES
  CooldownRespected
  MetricsMissNoRound
