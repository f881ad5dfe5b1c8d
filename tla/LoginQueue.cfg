SPECIFICATION FairSpec
CONSTANTS
    Users = {u1, u2, u3}
    Configs <- ThreeConfigs
    MaxIndex = 4
INVARIANTS
    TypeOK
    OneRole
    IndexWindow
    HonestAnswer
PROPERTIES
    NoOvertaking
    CapacityRespected
    PositionNeverGrows
    ImplementsAdmissionQueue
    EventuallyServed
