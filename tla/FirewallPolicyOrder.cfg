SPECIFICATION Spec
CONSTANTS
    allowDns = allowDns
    blockAll = blockAll
    byHand = byHand
    system = system
    toGuest = toGuest
    Policy <- MCPolicy
    Predefined <- MCPredefined
    Elsewhere <- MCElsewhere
    Managed <- MCManaged
    Orders <- MCOrders
    Given <- MCGiven
    MaxIndex = 5
    MaxOutside = 1
    Untracked = Untracked
    NoList = NoList
INVARIANTS TypeOK AppliedOrderHolds QuietApplyIsConsistent WrittenOrderPlansNothing
