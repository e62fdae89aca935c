SPECIFICATION Spec
CONSTANTS
  Runners = {r1, r2}
  Links = {a, b}
  Target <- SpineTarget
  NoReport = NoReport
  MaxInterrupts = 0
  r1 = r1
  r2 = r2
  a = a
  b = b
  c = c
INVARIANT TypeOK
INVARIANT ReportWritable
INVARIANT LeftDownIsReported
