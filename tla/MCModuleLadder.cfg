CONSTANTS
    Drivers <- MCDrivers
    Ladder <- MCLadder
    Exempt <- MCExempt
SPECIFICATION Spec
CHECK_DEADLOCK FALSE
INVARIANTS TypeOK ReleasesHeld UsersHold BaseHeld Quiescent
