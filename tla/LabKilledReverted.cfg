SPECIFICATION Spec
CONSTANTS
  Procs = {p1}
  Inputs <- TwinInputs
  Files <- MCFiles
  Nodes <- MCNodes
  Content <- MCContent
  NamesOf <- MCNamesOf
  PassedReports <- MCPassedReports
  NoFile = NoFile
  NoManifest = NoManifest
  NoStamp = NoStamp
  Absent = Absent
  a = a
  b = b
  Menu <- NoAssure
  MaxFaults = 1
  Reverts = TRUE
INVARIANT AttestedLabRunsTheBuild
