CONSTANTS
    p1 = p1
    p2 = p2
    POD <- MCPod1
    RoleAware = TRUE
    MaxReplicas = 1
    MaxGen = 2
    MaxFaults = 1
    MaxEnvSteps = 3
SPECIFICATION Spec
INVARIANT NoNilWorkloadPanic
CHECK_DEADLOCK FALSE
