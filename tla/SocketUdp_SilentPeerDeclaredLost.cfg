SPECIFICATION Spec
CONSTANTS
    Senders <- MCSenders
    ConfigRemotes <- MCNoConfig
    SentKinds = {"quit", "app"}
    Probes = 3
    ReestDelay = 5
    InboxCap = 1
    NoTask = NoTask
    Texts <- MCTexts
    PtonFamily <- MCPtonFamily
    TextLen <- MCTextLen
    Canonical <- MCCanonical
CONSTRAINT DetachedBound
INVARIANT SilentPeerDeclaredLost
