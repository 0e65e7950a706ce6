\* Five ports: two candidates for FTP, the second of which ends the search by overflow.
\* For AFP everything is as for SMB.
CONSTANTS
    Size = 13
    FirstPort = 8
    PassiveCount = 2
    EphemeralPorts = {9, 11}
    OtherSockets <- SomeSockets
    WildcardExcludes = TRUE
    Backends = {"ftp", "smb", "none"}
    Requests <- SomeRequests
SPECIFICATION FairLaunchSpec
INVARIANTS
    LaunchTypeOK
    PortsAreInRange
    FoundIsBindable
    PassivePortsAgree
    MachineIsConfigured
PROPERTIES
    LaunchEnds
CHECK_DEADLOCK FALSE
