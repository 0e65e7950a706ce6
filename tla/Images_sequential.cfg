\* Commands one after another, each may fail or crash at any step.
CONSTANTS
    b1 = b1
    b2 = b2
    Builders = {b1, b2}
    Concurrent = FALSE
SPECIFICATION Spec
INVARIANTS
    TypeOK
    InstallsFromGoodBase
PROPERTIES
    SuccessMeansSetUp
    OverwriteOnRequest
    UnfinishedAfterFailure
