CONSTANTS
    p1 = p1
    p2 = p2
    q1 = q1
    q2 = q2
    None = None
    Drivers = {"V_02", "V_03", "V_04"}
    Readers = {p1, p2}
    Writers = {q1, q2}
    MSG_NB_MAX = 1
    MSG_LG_MAX = 2
    ReadLengths = {2}
    WriteLengths = {1}
    MaxMessages = 2
SPECIFICATION Spec
PROPERTIES SleeperWakes
