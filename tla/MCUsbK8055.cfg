CONSTANTS
    u1 = u1
    u2 = u2
    Users = {u1, u2}
    None = None
    Abandoned = Abandoned
    MaxPlugs = 2
SPECIFICATION Spec
INVARIANTS TypeOK SingleOpen BusyOwned OwnTransfer
PROPERTIES DisconnectFreesIdle UnplugEndsWait
CHECK_DEADLOCK FALSE
