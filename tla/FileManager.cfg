CONSTANT GuestMayHang = TRUE
SPECIFICATION FairSpec
INVARIANTS
    TypeOK
    EffectsInOrder
    PromptIsPatient
PROPERTIES
    WaitsEnd
    CancelEndsWork
    ImplementsShare
CHECK_DEADLOCK FALSE
