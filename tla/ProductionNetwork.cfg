SPECIFICATION NetSpec
CONSTANTS
  Nodes = {n1, n2}
  InitialOwner = n1
  NoOwner = NoOwner
  MaxOps = 2
  MaxBoots = 1
  MaxFaults = 1
  MaxMoves = 1
INVARIANTS
  GuardsBeforeForwarding
  OneGateway
  RolledBackIsBaseline
  GuestsStartOncePerBoot
  GuestsBehindGuards
PROPERTIES
  CommittedIsNeverUndone
  CommitsUnderItsTimer
CHECK_DEADLOCK FALSE
