SPECIFICATION FairSpec
CONSTANTS
    i1 = i1
    i2 = i2
    i3 = i3
    plugs = plugs
    bulb = bulb
    Id <- MCId
    Group <- MCGroup
    Icon <- MCIcon
    None = None
    Untracked = Untracked
    MaxRetries = 3
    MaxUpsets = 3
INVARIANTS TypeOK StateNamesTheRecord UpdateSyncsIcon DestroyFreesGroups
PROPERTY OperationsReturn
