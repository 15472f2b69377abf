\* Two requests at a time, three sessions, the seeded superadmin and a second account that
\* can be created and changed but cannot log in.  Where the bounds are used up the
\* system stops.
CONSTANTS
  Threads = {t1, t2}
  Admins = {root, staff}
  Seed = root
  MixedCase = {staff}
  Sids = {s1, s2, s3}
  DrillToken = FALSE
  MaxPatches = 1
  NoAdmin = NoAdmin
  NoSid = NoSid
SPECIFICATION Spec
SYMMETRY MCSymmetry
INVARIANTS
  TypeOK
  OneSessionPerLogin
PROPERTIES
  LogoutEndsLogin
  LogoutAllEndsOldSessions
  InactiveGainsNothing
CHECK_DEADLOCK FALSE
