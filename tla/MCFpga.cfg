CONSTANTS
    u1 = u1
    u2 = u2
    s1 = s1
    Users = {u1, u2}
    None = None
    Switches = {s1}
    NB_MINORS = 3
    OpenedMinors = {0}
    MODULE_MEM_LENGTH = 2
    Sizes = {1, 3}
    Positions = {3}
    MaxStructs = 2
    MaxBindings = 1
SPECIFICATION Spec
INVARIANTS TypeOK UsersHoldStruct ExclusiveOpen HandlerHoldsDevice ProbeUndone EdgesCounted InsideModule
PROPERTIES CallReturns SwitchServed
CHECK_DEADLOCK FALSE
