SPECIFICATION Spec
CONSTANTS
    w1 = w1
    w2 = w2
    Worker = {w1, w2}
    Attempts = 2
    MaxRuns = 3
    MaxStalls = 1
    Skew <- MCSkew
    Framework = {"express"}
    Fault = {"named"}
    SdkHidden = {"customer"}
    HostEvents <- MCHostEvents
    Policies <- MCPolicies
    MaxLost = 2
INVARIANTS TypeOK Causal Linear Told Listed Agrees Recorded
CHECK_DEADLOCK FALSE
