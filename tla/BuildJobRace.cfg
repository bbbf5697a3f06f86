CONSTANTS
  b1 = b1  b2 = b2  n1 = n1  n2 = n2
  None = None
  Builds = {b1, b2}
  Names = {n1, n2}
  MaxRestarts = 0
  MaxLag = 1
  MaxFaults = 0
SYMMETRY Interchangeable
SPECIFICATION Spec
INVARIANTS TypeOK SuccessIsReal NoStrayPods
CHECK_DEADLOCK FALSE
