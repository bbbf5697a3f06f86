CONSTANTS
  k1 = k1
  k2 = k2
  s1 = s1
  a1 = a1
  c1 = c1
  None = None
  Keys = {k1, k2}
  Services = {s1}
  ServiceOf <- MCServiceOf
  Rules <- MCRules
  Listens <- MCListens
  Certs = {c1}
  Addrs = {a1}
  Boots <- MCBoots
  RingCap = 1
  Day = 9
  MaxNow = 1
SPECIFICATION FairSpec
CHECK_DEADLOCK FALSE
INVARIANTS TypeOK NoLostUpdate CertFollows
PROPERTIES PoolBeforeServer Settles
