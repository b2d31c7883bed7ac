\* The run looks for a call that meets a producer nobody will start.
CONSTANT
  Sends = {s1, s2, s3}
SPECIFICATION FairSpec
SYMMETRY SendSymmetry
INVARIANT StartedWhenNeeded
