SPECIFICATION FairSpec
CONSTANTS
    XorOctet <- MCXorOctet
    IsUtf8 <- MCIsUtf8
    FromStr <- MCFromStr
    Spell <- MCSpell
    Settings <- MCSettings
    Ports = {1, 2}
    MaxInbox = 2
INVARIANTS
    TypeOK
    StunNeverPanics
    AlignmentErrorsAreDead
    DnsNeverPanics
    AnswerIsWhatServerSaw
    GoodReplyIsUsed
    CutsLoseOnlyTheTail
    VersionHonoured
PROPERTIES
    CallEnds
CHECK_DEADLOCK FALSE
