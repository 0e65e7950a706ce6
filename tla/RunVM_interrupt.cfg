\* Violated: an interrupt taken before QEMU is started uses up the only shutdown.
CONSTANTS
    Callers = {"main", "signal"}
    Passthrough = FALSE
    GuestMayHang = FALSE
    Commands = {"run"}
    WithTap = FALSE
    InterruptQueue = 1
    ForceAfter = 1
SPECIFICATION FairProgramSpec
PROPERTIES
    InterruptEndsProgram
\* A program that has ended takes no further step.
CHECK_DEADLOCK FALSE
