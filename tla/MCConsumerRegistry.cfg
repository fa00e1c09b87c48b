SPECIFICATION RegistrySpec
CONSTANTS
  Consumers = {c1}
  Types = {"membership", "tenant", "provider", "repair"}
  Requests = {r1, r2}
  MaxSequence = 2
  MaxWritings = 2
  MaxIncidents = 1
  NoOne = NoOne
SYMMETRY Symmetric
CONSTRAINT MCScope
INVARIANTS
  BelievedOnlyWhenComplete
  WaivedOnlyIfRevived
CHECK_DEADLOCK FALSE
