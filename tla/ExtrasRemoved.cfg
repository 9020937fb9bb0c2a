SPECIFICATION FairSpec
CONSTANTS
    runner = runner
    lab = lab
    group = group
    client = client
    policy = policy
    device = device
    zone = zone
    ports = ports
    Object <- MCObject
    Baselines <- MCBaselines
    Adopted <- MCAdopted
    Device <- MCDevice
    BuiltIn <- MCBuiltIn
    Client <- MCClient
    Tagged <- MCTagged
    Lasting <- MCLasting
    Invalid <- MCInvalid
    Clashing <- MCClashing
    Refs <- MCRefs
    MaxFaults = 1
    MaxOutside = 3
PROPERTIES SuccessLeavesNoExtras
