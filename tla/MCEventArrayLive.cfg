CONSTANTS
    r1 = r1
    r2 = r2
    r3 = r3
    c1 = c1
    c2 = c2
    None = None
    Readers = {r1, r2}
    NonBlocking = {}
    Cpus = {c1, c2}
    CpuOf <- MCCpuOfTwo
    EXAMPLE_ARRAY_SIZE = 2
    MaxInterrupts = 3
SPECIFICATION Spec
PROPERTIES HandlerReturns SleeperWakes
