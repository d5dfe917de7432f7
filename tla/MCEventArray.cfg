CONSTANTS
    r1 = r1
    r2 = r2
    r3 = r3
    c1 = c1
    c2 = c2
    None = None
    Readers = {r1, r2, r3}
    NonBlocking = {r3}
    Cpus = {c1, c2}
    CpuOf <- MCCpuOf
    EXAMPLE_ARRAY_SIZE = 2
    MaxInterrupts = 4
SPECIFICATION Spec
INVARIANTS TypeOK ArrayExclusive NoSelfDeadlock NoLostWakeup
PROPERTIES FifoSpec
