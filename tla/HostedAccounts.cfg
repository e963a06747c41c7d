SPECIFICATION Spec
CONSTANTS
    alice = alice
    bob = bob
    Emails = {alice, bob}
    Modes = {"InviteOnly", "Open"}
    Roles = {"Viewer"}
    MaxAccounts = 2
    MaxSessions = 2
    MaxDevices = 2
    MaxInvites = 1
    MaxRecoveries = 1
    MaxLogbooks = 1
    MaxSends = 1
    MaxFaults = 1
    MaxIssued = 7
    MaxIssuedLater = 5
CONSTRAINT Explored
SYMMETRY Symmetry
INVARIANTS
    TypeOK
    EndingsLast
    DeletedHoldsNothing
    OneSessionPerDevice
    EveryGrantWasMade
    MailedTokenVerifies
