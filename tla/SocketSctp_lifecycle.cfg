CONSTANTS
    r1 = r1
    c1 = c1
    a1 = a1
    a2 = a2
    ConfigRemotes <- MCConfigRemotes
    Clients <- MCClients
    Assocs <- MCAssocs
    DataCap = 1
    MaxReests = 2
    Texts <- MCTexts
    PtonFamily <- MCPtonFamily
    TextLen <- MCTextLen
    Canonical <- MCCanonical
    MappedText <- MCMappedText
    LocalLists <- MCLocalLists

SPECIFICATION MCSpec

INVARIANTS
    TypeOK
    PeerMapConsistent
    OneAttemptPerRemote
    BoundAddressesReported

PROPERTIES
    ImplementsLifecycle
