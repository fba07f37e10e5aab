\* Three callers, two request ids, two sets of inputs, lost replies and crashes.
CONSTANTS
  Caller = {c1, c2, c3}
  RequestId = {r1, r2}
  Digest = {d1, d2}
  NoDigest = NoDigest
SPECIFICATION Spec
INVARIANTS
  RunOncePerRequest
  AnswersNameTheRun
