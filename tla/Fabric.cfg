SPECIFICATION Spec
CONSTANTS
  Names <- MCNames
  Slots <- MCSlots
  Asns <- MCAsns
  NoAsn = NoAsn
  Networks <- MCNetworks
  RequiredPlanes <- MCRequired
  SpineCount <- MCSpineCount
  RendererOf <- MCRendererOf
  Typed <- MCTyped
  EthSlots <- MCEthSlots
  OddLoopbacks <- MCOddLoopbacks
  Seeds <- MCSeeds
  Edited <- MCEdited
  Readdress <- MCReaddress
  MaxEdits = 2
  MaxFaults = 1
  NoContract = NoContract
  NoNode = NoNode
INVARIANT TypeOK
INVARIANT ValidCompiles
INVARIANT EverythingIsExpected
INVARIANT HealthyPasses
INVARIANT FaultsAreFound
INVARIANT AssuranceForesees
INVARIANT UnreadIsFound
INVARIANT SessionsAreTheirNodes
CHECK_DEADLOCK FALSE
