SPECIFICATION Spec
CONSTANTS
    p1 = p1
    p2 = p2
    desk = desk
    trunk = trunk
    iot = iot
    Port <- MCPort
    PhysicalPort <- MCPort
    WanPort = {}
    FlexMini = FALSE
    Name = {desk}
    Profile = {trunk}
    Network = {iot}
    LanNetwork = {iot}
    VlanNetwork = {iot}
    Configured <- MCConfigured
    Given <- MCGiven
    Edited <- MCEdited
    None = None
    Release = Release
    Untracked = Untracked
    Gone = Gone
    MaxOutside = 1
INVARIANTS TypeOK StateReadsBack UnsupportedNeverReset RetryIsHarmless
PROPERTY UnlistedPortsUntouched
