SPECIFICATION Spec
CONSTANTS
  Procs = {p1}
  Inputs <- AllInputs
  Files <- MCFiles
  Nodes <- MCNodes
  Content <- MCContent
  NamesOf <- MCNamesOf
  PassedReports <- MCPassedReports
  NoFile = NoFile
  NoManifest = NoManifest
  NoStamp = NoStamp
  Absent = Absent
  a = a
  b = b
  Menu <- Commands
  MaxFaults = 1
  Reverts = FALSE
INVARIANT TypeOK
INVARIANT IntactBuildIsWhole
INVARIANT EvidenceOfThisBuild
INVARIANT AttestedLabRunsTheBuild
PROPERTY HonoursContract
PROPERTY FailedDeployLeavesNoStamp
