\* A pod that fails and is deleted or recovers while its message is recorded.
CONSTANTS
    p1 = p1
    p2 = p2
    POD <- MCPod1
    RoleAware = TRUE
    MaxReplicas = 1
    MaxGen = 2
    MaxFaults = 1
    MaxEnvSteps = 4
SPECIFICATION Spec
INVARIANT NoStaleMessageWhenIdle
CHECK_DEADLOCK FALSE
