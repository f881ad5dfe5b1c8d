SPECIFICATION FairSpec
CONSTANTS
    Uins = {u1, u2}
    MaxLogins = 2
    MaxRequests = 1
    MaxFaults = 2
    MaxRefusals = 1
INVARIANTS
    TypeOK
    OnlineIsCounted
    DifferenceExplained
    RefusedHasNoSeat
PROPERTIES
    LogoutIsProtected
    ReconnectIsAnswered
    PresenceIsRestored
CHECK_DEADLOCK FALSE
