\* Violated: Cancel signals QEMU right after the guest accepted poweroff.
CONSTANTS
    c1 = c1
    Callers = {c1}
    Passthrough = FALSE
    GuestMayHang = FALSE
SPECIFICATION Spec
PROPERTIES
    PoweroffIsGraceful
\* A VM that has ended takes no further step.
CHECK_DEADLOCK FALSE
