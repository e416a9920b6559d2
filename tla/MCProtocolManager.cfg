SPECIFICATION FairSpec
CONSTANTS
    Versions <- MCVersions
    Pool <- MCPool
    None = None
    Servers = {1}
    MaxRegistered = 4
INVARIANTS
    TypeOK
    CacheFresh
    BreadthFirst
PROPERTIES
    AnswersStay
    ResolvesChains
    CallsReturn
