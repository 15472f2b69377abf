\* A provider that keeps sending an ignorable event and one without a subscription id.
SPECIFICATION FairSpec
CONSTANTS
  c1 = c1
  sub1 = sub1
  sub2 = sub2
  started = started
  unpaid = unpaid
  invoice = invoice
  blank = blank
  keyless = keyless
  Hooks = {h1, h2}
  Replayers = {}
  Events = {keyless, blank}
  Customers = {c1}
  SubIds = {sub1}
  SubRows = {row1, row2}
  EventCustomer <- MCEventCustomer
  EventSub <- MCEventSub
  EventStatus <- MCEventStatus
  Ignorable = {blank}
  Hinted = {}
  Lapsed = {}
  Unsupported = {}
  DeadLetterAttempts = 2
  MaxAttempts = 2
  MaxFailures = 1
  NoEvent = NoEvent
  NoSubId = NoSubId
  NoSubRow = NoSubRow
PROPERTIES
  EveryEventAcknowledged
