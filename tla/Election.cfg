CONSTANTS
    h1 = h1
    h2 = h2
    h3 = h3
    c1 = c1
    c2 = c2
    Hosts = {h1, h2}
    NoHost = NoHost
    Clients = {c1, c2}
    MaxPolls = 2
SPECIFICATION FairSpec
INVARIANTS
    OneHostWorks
    ServingIsRegistered
    RecordIsOwners
PROPERTIES
    ConnectReturns
    UnreachableOwnerLeaves
