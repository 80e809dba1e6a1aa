CONSTANTS
    p1 = p1
    p2 = p2
    POD <- MCPod1
    RoleAware = FALSE
    MaxReplicas = 1
    MaxGen = 2
    MaxFaults = 1
    MaxEnvSteps = 4
SPECIFICATION Spec
INVARIANT FailedOnlyWhenUnavailable
CHECK_DEADLOCK FALSE
