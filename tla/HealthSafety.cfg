\* One check at a time, on every endpoint; a pool of two connections, which the other
\* requests may take; every state of the files and variables of the sections.
CONSTANTS
  Sections = {"DEBUG_MODE", "DATABASE_ZUMP", "KAFKA"}
  Keys = {"BOOTSTRAP_SERVERS", "PORT", "CLIENT_ENCODING"}
  Probed <- BrokersGivenOrNot
  Checks = {c1}
  Endpoints = {"liveness", "db", "redis", "kafka", "readiness", "stack"}
  Conditions = {"up", "refusing", "silent"}
  PoolLimit = 2
CHECK_DEADLOCK FALSE
SPECIFICATION HealthFairSpec
INVARIANTS
  HealthTypeOK
  LayersInOrder
  HealthyMeansReached
  StartedClientsClosed
  ConnectionsOfChecks
PROPERTY HealthAnswered
