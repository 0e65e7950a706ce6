\* Violated: a base image that comes up between two looks is not verified.
CONSTANTS
    b1 = b1
    b2 = b2
    Builders = {b1, b2}
    Concurrent = TRUE
SPECIFICATION Spec
INVARIANTS
    InstallIsVerified
