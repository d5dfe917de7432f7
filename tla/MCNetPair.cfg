CONSTANTS
    ETH_ZLEN = 2
    ETH_DATA_LEN = 3
    Lengths = {1, 3, 4}
    MaxPackets = 3
SPECIFICATION Spec
INVARIANTS TypeOK FreedOnce DeliveredIntact CountersAgree
CHECK_DEADLOCK FALSE
