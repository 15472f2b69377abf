\* Two API processes and a superadmin at work on two events of one subscription.
SPECIFICATION Spec
CONSTANTS
  c1 = c1
  sub1 = sub1
  sub2 = sub2
  started = started
  unpaid = unpaid
  invoice = invoice
  blank = blank
  keyless = keyless
  Hooks = {h1, h2}
  Replayers = {r1}
  Events = {started, unpaid}
  Customers = {c1}
  SubIds = {sub1}
  SubRows = {row1, row2}
  EventCustomer <- MCEventCustomer
  EventSub <- MCEventSub
  EventStatus <- MCEventStatus
  Ignorable = {}
  Hinted = {unpaid}
  Lapsed = {}
  Unsupported = {}
  DeadLetterAttempts = 2
  MaxAttempts = 2
  MaxFailures = 1
  NoEvent = NoEvent
  NoSubId = NoSubId
  NoSubRow = NoSubRow
SYMMETRY MCSymmetry
INVARIANTS
  TypeOK
  AckedIsRecorded
  ProcessedIsApplied
PROPERTIES
  DeliveryAppliesOnce
  FlagPartsOnlyWhenStale
  ImplementsEventInbox
