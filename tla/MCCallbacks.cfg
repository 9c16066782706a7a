CONSTANTS
    IdCount = 4
    Client = {c1, c2, c3, c4}
    None = None
    NoClient = NoClient
SPECIFICATION FairSpec
INVARIANTS TypeOK OwnEntry NoStrayEntry
PROPERTIES ImplementsMap AddReturns
