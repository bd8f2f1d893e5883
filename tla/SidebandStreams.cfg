SPECIFICATION FairSpec
CONSTANTS
  Requests = {r1}
  Streams = {speaker, mic}
  Workers = {w1, w2}
  NoRequest = NoRequest
  MaxErrors = 1
INVARIANTS
  QuietAfterStop
  RequestInOnePlace
  StreamsCounted
  SilentWhenIdle
PROPERTIES
  NoEndlessRetry
CHECK_DEADLOCK FALSE
