\* Every call that can fail may fail, the driver may be loaded again and
\* again; two processes write device settings, others the lists of devices.
SPECIFICATION DriverSpec
CONSTANTS
    Ports <- MCPorts
    AsleepRemoval = FALSE
    Devices = {1}
    Others = {"uInLimit"}
    Writers = {1, 2}
INVARIANTS
    TimerOwned
    PollKept
    ResumedRuns
    NothingHeld
    SettingsKept
    NoFileLeft
PROPERTIES
    ChangeHandled
CHECK_DEADLOCK FALSE
