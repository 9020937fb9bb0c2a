SPECIFICATION Spec
CONSTANTS
    logging = logging
    respond = respond
    item = item
    lan1 = lan1
    lan2 = lan2
    low = low
    high = high
    secret1 = secret1
    secret2 = secret2
    Null = Null
    Zero = Zero
    Empty = Empty
    Unknown = Unknown
    Foreign = Foreign
    Untracked = Untracked
    Gone = Gone
    Flag <- MCFlag
    Value <- MCValue
    Target <- MCTarget
    Schedule <- MCSchedule
    Respond = respond
    Option <- MCOption
    Switch <- MCSwitch
    Choice <- MCChoice
    Passphrase <- MCPassphrase
    Setting <- MCSetting
    Class <- MCClass
    Lan <- MCLan
    Amount <- MCAmount
    MaxEdits = 2
    MaxOutside = 1
INVARIANT PortTypeNeedNotBeSet
