SPECIFICATION Spec
CONSTANTS
    name = name
    led = led
    contact = contact
    ng = ng
    ax = ax
    channel = channel
    width = width
    a = a
    b = b
    Empty = Empty
    Null = Null
    NoList = NoList
    Untracked = Untracked
    Gone = Gone
    Text <- MCText
    Always <- MCAlways
    Led <- MCLed
    Band <- MCBand
    Present <- MCPresent
    Field <- MCField
    Value <- MCValue
    Caching = TRUE
    MaxEdits = 2
    MaxOutside = 1
INVARIANTS TypeOK NoPerpetualDiff SettingsSurvive
SYMMETRY Symmetry
