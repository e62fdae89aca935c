SPECIFICATION Spec
CONSTANTS
  Names <- MCNames
  Slots <- MCSlots
  Asns <- MCAsns
  NoAsn = NoAsn
  Networks <- MCNetworks
  RequiredPlanes <- MCRequired
  SpineCount <- MCSpineCount
  RendererOf <- MCRendererOf
  Typed <- MCTyped
  EthSlots <- MCEthSlots
  OddLoopbacks <- MCOddLoopbacks
  Seeds <- MCSeeds
  Edited <- MCEdited
  Readdress <- MCReaddress
  MaxEdits = 1
  MaxFaults = 1
  NoContract = NoContract
  NoNode = NoNode
CHECK_DEADLOCK FALSE
INVARIANT CrossPlaneFails
