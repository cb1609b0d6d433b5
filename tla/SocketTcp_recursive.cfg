SPECIFICATION Spec
CONSTANTS
    a1 = a1
    a2 = a2
    c1 = c1
    ConfigRemotes <- MCConfigRemotes
    Clients <- MCClients
    PeersMtxRecursive = TRUE
    Variants = {FALSE, TRUE}
    NoOwner = NoOwner
INVARIANTS
    TypeOK
    OneAttemptPerRemote
