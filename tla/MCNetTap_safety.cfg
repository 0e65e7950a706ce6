\* Three runners, so that two of them can find the tap of the third, and one clean.
CONSTANTS
    r1 = r1
    r2 = r2
    r3 = r3
    k1 = k1
    Runners = {r1, r2, r3}
    Cleaners = {k1}
SPECIFICATION Spec
INVARIANTS
    TypeOK
    TapsAreRecorded
    OnlyDanglingIsPruned
PROPERTIES
    ImplementsRegistry
SYMMETRY RunnerSymmetry
\* Once every process has ended, nothing happens but reuse of PIDs.
CHECK_DEADLOCK FALSE
