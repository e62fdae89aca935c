SPECIFICATION FairSpec
CONSTANTS
  Routers = {r1, r2}
  Probed = {r1}
  Probes = {p1}
  MaxWorkers = 1
  NoReport = NoReport
INVARIANT TypeOK
INVARIANT PassMeansHealthy
INVARIANT FailMeansFlawed
PROPERTY PatientUntilDeadline
PROPERTY ReturnsLastPoll
PROPERTY VerificationEnds
