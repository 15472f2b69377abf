\* Two requests at a time, three in all, over two rows; one plan and one subscription
\* id.  Once they are used up the system stops.
CONSTANTS
  Threads = {t1, t2}
  SubRows = {row1, row2}
  Plans = {plus}
  SubIds = {sub1}
  Customers = {c1, c2}
  Primary = "stripe"
  Grace = FALSE
  Enforced = TRUE
  MaxRequests = 3
  NoPlan = NoPlan
  NoSubId = NoSubId
  NoCustomer = NoCustomer
SPECIFICATION Spec
SYMMETRY MCSymmetry
INVARIANTS
  TypeOK
  FlagFollowsRow
  SoldToKnownCustomer
  DeactivatedStaysClosed
PROPERTIES
  DeactivateEndsAccess
  GateAgreesWithFlag
CHECK_DEADLOCK FALSE
