SPECIFICATION ProfileSpec
CONSTANTS
    default = default
    cams = cams
    iot = iot
    guest = guest
    Net <- MCNet
    Native = default
    NoProfile = NoProfile
    Untracked = Untracked
    NoList = NoList
INVARIANTS ProfileTypeOK TaggedNetworksStick CreatedProfileIsTracked
SYMMETRY Symmetry
