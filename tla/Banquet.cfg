SPECIFICATION Spec
CONSTANTS
    Players = {p1, p2}
    NoTeam = NoTeam
    Seats = 2
    Windows = 2
    MaxSteps = 3
SYMMETRY Symmetry
INVARIANTS
    TypeOK
    SeatsIndexed
    InSync
CHECK_DEADLOCK FALSE
