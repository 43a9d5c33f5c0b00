\* EDs are removed while the controller is suspended.
SPECIFICATION Spec
CONSTANTS
    Ports <- MCPorts
    AsleepRemoval = TRUE
INVARIANTS
    ResumedRuns
CHECK_DEADLOCK FALSE
