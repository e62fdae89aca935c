SPECIFICATION FairSpec
CONSTANTS
  Seeders = {s1}
  Objects <- MCObjects
  Order <- MCOrder
  Constrained <- Unique
  MaxFaults = 1
  Fixture <- MCDual
  Asns <- MCAsns
  NoAsn = NoAsn
  Networks <- MCNetworks
  Names <- MCNames
  Slots <- MCSlots
  RequiredPlanes <- TwoPlanes
  SpineCount <- OneSpine
INVARIANT SeedTypeOK
INVARIANT NothingDoubled
INVARIANT SeededIsWhole
INVARIANT SnapshotCloses
INVARIANT AcceptedIsWhole
PROPERTY SeedCompletes
