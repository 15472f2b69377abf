\* One user, two bots of which one has the wheel disabled, any two updates.
CONSTANTS
  Bots = {b1, b2}
  Users = {u1}
  Menu <- MCMenu
  b1 = b1
  b2 = b2
  Enabled <- MCEnabled
  InLimits <- MCInLimits
  Payouts = {1, 2}
  PromptLimit <- MCPromptLimit
  ActionLimit <- MCActionLimit
  Window = 1
  MaxUpdates = 2
  MaxTime = 2
  MaxCrashes = 1
  NoGame = NoGame
  Nothing = Nothing
SPECIFICATION Spec
INVARIANTS
  TypeOK
  OneAccountPerUser
  ToldOwnRound
  NoUpdateLost
  LimitPerWindow
PROPERTIES
  HandlersAnswer
CHECK_DEADLOCK FALSE
