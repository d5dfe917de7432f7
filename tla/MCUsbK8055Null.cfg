CONSTANTS
    u1 = u1
    u2 = u2
    Users = {u1, u2}
    None = None
    Abandoned = Abandoned
    MaxPlugs = 1
SPECIFICATION Spec
CHECK_DEADLOCK FALSE
INVARIANT DevicePresent
