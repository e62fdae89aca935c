SPECIFICATION FairSpec
CONSTANTS
  Procs = {p1}
  Inputs <- ShapeInputs
  Files <- MCFiles
  Nodes <- MCNodes
  Content <- MCContent
  NamesOf <- MCNamesOf
  PassedReports <- MCPassedReports
  NoFile = NoFile
  NoManifest = NoManifest
  NoStamp = NoStamp
  Absent = Absent
  a = a
  b = b
  Menu <- NoCompile
  MaxFaults = 1
  Reverts = FALSE
INVARIANT GuardProtectsLab
PROPERTY TornDownAgain
