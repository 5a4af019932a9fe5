SPECIFICATION Spec
CONSTANTS
  Users = {u1, u2}
  Requests = {t1, t2, t3}
  Locking = TRUE
INVARIANTS
  OwnerRemains
SYMMETRY UserAndRequestSymmetry
CHECK_DEADLOCK FALSE
