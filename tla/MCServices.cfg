SPECIFICATION ServicesSpec
CONSTANTS
    w1 = w1
    w2 = w2
    document = document
    value = value
    l1 = l1
    p = p
    PatchCount = 2
    Reversible <- LastTwo
    Workers = {w1, w2}
    MaxClaims = 3
    Actors = {w1, w2}
    Documents = {document}
    Reservations = {value}
    Logs = {l1}
    DocumentBound = 2
    BatchSize = 1
    CommitBound = 2
    CallBound = 4
    ConnectionBound = 3
    PublishBound = 3
    RetentionLimit = 2
    BatchLimit = 1
    Passwords = {p}
    RoleSets = {"admin"}
    DefaultRoles = "user"
    Emails = {"a"}
    AccountPatches <- ProviderPatches
    CommandBound = 3
    AccountBound = 4
    FaultBound = 1
SYMMETRY Interchangeable
CHECK_DEADLOCK FALSE
INVARIANTS
    JournalTrue
    Exclusive
    AppliesInOrder
    CacheIgnorable
    CompletedCovers
    LossIsVisible
    PresenceTrue
    SessionsExact
    TokensSpentOnce
    FailureRevokesOwn
PROPERTIES
    EffectsProtected
    StoreIsAtomic
    PromotedIsCurrent
