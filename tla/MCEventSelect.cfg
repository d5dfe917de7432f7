CONSTANTS
    r1 = r1
    r2 = r2
    c1 = c1
    c2 = c2
    Readers = {r1, r2}
    NonBlocking = {}
    Selectors = {r1}
    Cpus = {c1, c2}
    CpuOf <- MCCpuOf
    None = None
    EXAMPLE_ARRAY_SIZE = 2
    MaxInterrupts = 3
SPECIFICATION SelectSpec
INVARIANTS ReadyReadReturns
PROPERTIES SelectReturns
