SPECIFICATION Spec
CONSTANTS
    a1 = a1
    a2 = a2
    c1 = c1
    ConfigRemotes <- MCConfigRemotes
    Clients <- MCClients
    PeersMtxRecursive = FALSE
    Variants = {FALSE}
    NoOwner = NoOwner
CHECK_DEADLOCK FALSE
PROPERTY ClosedPeerRemoved
