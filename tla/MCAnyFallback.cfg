SPECIFICATION Spec
CONSTANTS
    XorOctet <- MCXorOctet
    IsUtf8 <- MCIsUtf8
    FromStr <- MCFromStr
    Spell <- MCSpell
    Settings <- V6OnlySettings
    Ports = {1}
    MaxInbox = 2
INVARIANTS
    AnyFallsBack
CHECK_DEADLOCK FALSE
