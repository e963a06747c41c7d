SPECIFICATION Spec
CONSTANTS
    u1 = u1
    u2 = u2
    Accounts = {u1, u2}
    MaxQsos = 1
    MaxJobs = 2
    MaxAttempts = 3
    MaxImports = 1
    MaxUploadFaults = 1
    Owners = {u1, u2}
    MaxStations = 2
    MaxEquipment = 1
    MaxProfileFiles = 1
    MaxProfileFaults = 1
    CredentialIds = {1, 2}
    Secrets = {s1, s2}
    Processes = {p1, p2}
    NoSecret = NoSecret
    Torn = Torn
    Closed = Closed
    Unsupported = Unsupported
CONSTRAINT Explored
SYMMETRY Symmetry
INVARIANTS
    TypeOK
    NoSilentRepeat
    OneDefault
    AssignmentsResolve
    CredentialsAnswer
