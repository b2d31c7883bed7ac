\* One stream and one enqueue request at a time, both of u1, in line with u2; one fault of the consumer
\* and one of a client or a message.
CONSTANTS
  Users = {u1, u2}
  Streams = {s1}
  Calls = {c1}
  Watchers = {u1}
  Callers = {u1}
  PerSec = 1
  FaultKinds = {"redis", "start", "fetch", "stop", "crash"}
  MaxRecords = 2
  MaxFaults = 1
  MishapKinds = {"redis", "kafka", "publish"}
  MaxMishaps = 1
SPECIFICATION ClientSpec
INVARIANTS
  ClientTypeOK
  StaleMeansNotified
  RankIsOfThisRecord
PROPERTY ImplementsConsumer
