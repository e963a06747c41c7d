SPECIFICATION Spec
CONSTANTS
    a1 = a1
    l1 = l1
    d1 = d1
    d2 = d2
    Unset = Unset
    Clients = {a1, l1}
    Loggers = {l1}
    Qsos = {1}
    Activations = {2}
    Sessions = {4}
    Checkins = {6}
    Traffic = {7}
    MaxAhead = 2
    Desktops = {d1, d2}
    MaxTokens = 2
    MaxCodes = 2
    MaxCredentials = 2
    MaxRequests = 1
    MaxLanFaults = 1
    MaxHostedSessions = 3
    MaxSecrets = 2
    Ops = {1, 2, 3}
    Unqueued = {x1}
    Unsupported = {3}
    MaxAttempts = 2
    MaxQueueFaults = 1
    queue_limit = 2
    MaxClaims = 3
CONSTRAINT Explored
SYMMETRY Symmetry
INVARIANTS
    TypeOK
    ValidAtItsPlace
    TrustHasSecret
    PairedSidesAgree
    AnsweredOnce
    SecretsMatchRecord
    HoldsItsSession
    DrainReportsAreTrue
    RepeatIsMarked
