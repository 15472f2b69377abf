\* Two requests at a time from two addresses, and the two failures that lock; five
\* requests in all.  Once they are used up the system stops.
CONSTANTS
  Threads = {t1, t2}
  Ips = {ip1, ip2}
  LockRows = {r1, r2, r3}
  MaxLoginAttempts = 2
  LoginLimit = 2
  MaxGuesses = 5
  NoIp = NoIp
  NoPk = NoPk
SPECIFICATION Spec
SYMMETRY MCSymmetry
INVARIANTS
  TypeOK
  LockAfterMaxFailures
  OneLockRowUnlessRaced
  ThrottleOvershoot
PROPERTIES
  SuccessForgetsFailures
CHECK_DEADLOCK FALSE
