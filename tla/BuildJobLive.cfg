CONSTANTS
  b1 = b1  b2 = b2  n1 = n1  n2 = n2
  None = None
  Builds = {b1}
  Names = {n1}
  MaxRestarts = 1
  MaxLag = 2
  MaxFaults = 2
SPECIFICATION FairSpec
PROPERTIES ResultArrives LoggerEnds
CHECK_DEADLOCK FALSE
