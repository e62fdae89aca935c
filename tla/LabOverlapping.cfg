SPECIFICATION Spec
CONSTANTS
  Procs = {p1, p2}
  Inputs <- SmallInputs
  Files <- MCFiles
  Nodes <- OneNode
  Content <- MCContent
  NamesOf <- MCNamesOf
  PassedReports <- MCPassedReports
  NoFile = NoFile
  NoManifest = NoManifest
  NoStamp = NoStamp
  Absent = Absent
  a = a
  b = b
  Menu <- NoAssure
  MaxFaults = 0
  Reverts = FALSE
INVARIANT OnlyValidatedRuns
SYMMETRY Slots
