SPECIFICATION Spec
CONSTANTS
    Senders <- MCSenders
    ConfigRemotes <- MCConfig
    SentKinds = {"app"}
    Probes = 3
    ReestDelay = 5
    InboxCap = 1
    NoTask = NoTask
    Texts <- MCTexts
    PtonFamily <- MCPtonFamily
    TextLen <- MCTextLen
    Canonical <- MCCanonical
CONSTRAINT DetachedBound
INVARIANT OnePeerPerAddress
