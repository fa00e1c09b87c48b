SPECIFICATION RegistrySpec
CONSTANTS
  Consumers = {c1}
  Types = {"membership"}
  Requests = {r1, r2}
  MaxSequence = 1
  MaxWritings = 1
  MaxIncidents = 0
  NoOne = NoOne
PROPERTIES
  MarkMovesForwardOnly
CHECK_DEADLOCK FALSE
