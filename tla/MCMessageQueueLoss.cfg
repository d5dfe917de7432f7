CONSTANTS
    p1 = p1
    p2 = p2
    q1 = q1
    q2 = q2
    None = None
    Drivers = {"V_04"}
    Readers = {p1, p2}
    Writers = {q1, q2}
    MSG_NB_MAX = 2
    MSG_LG_MAX = 3
    ReadLengths = {1, 3}
    WriteLengths = {1, 2}
    MaxMessages = 3
SPECIFICATION Spec
PROPERTIES RemovedWasRead
SYMMETRY Symmetry
