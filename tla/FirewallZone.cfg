SPECIFICATION FairSpec
CONSTANTS
    internal = internal
    iot = iot
    lan = lan
    cams = cams
    Unknown = Unknown
    NoList = NoList
    Zone <- MCZone
    Net <- MCNet
    MaxAttempts = 2
INVARIANTS TypeOK VerifiedUpdateTookEffect QuietApplyConverges
PROPERTY OperationsReturn
CHECK_DEADLOCK FALSE
