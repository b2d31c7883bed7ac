\* Three calls; no symmetry, it is unsound for liveness.
CONSTANT
  Sends = {s1, s2, s3}
SPECIFICATION FairSpec
INVARIANTS
  TypeOK
  OneProducer
PROPERTIES
  SendsEnd
  ImplementsRecordSend
