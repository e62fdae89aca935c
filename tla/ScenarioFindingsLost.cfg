SPECIFICATION Spec
CONSTANTS
  Runners = {r1}
  Links = {a, b, c}
  Target <- SpineTarget
  NoReport = NoReport
  MaxInterrupts = 1
  r1 = r1
  r2 = r2
  a = a
  b = b
  c = c
INVARIANT LeftDownIsReported
