\* "run" with its password prompts, and a guest that may hang.
CONSTANTS
    Callers = {"main", "signal"}
    Passthrough = FALSE
    GuestMayHang = TRUE
    Commands = {"run"}
    WithTap = FALSE
    InterruptQueue = 1
    ForceAfter = 1
SPECIFICATION FairProgramSpec
PROPERTIES
    ShutdownEndsProgram
    InterruptsAreTaken
\* A program that has ended takes no further step.
CHECK_DEADLOCK FALSE
