SPECIFICATION Spec
CONSTANTS
  Users = {u1, u2, u3}
  Requests = {t1, t2}
  Locking = TRUE
PROPERTIES
  GuardedWriteLeavesOwner
SYMMETRY UserAndRequestSymmetry
CHECK_DEADLOCK FALSE
