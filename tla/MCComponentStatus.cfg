CONSTANTS
    p1 = p1
    p2 = p2
    POD <- MCPod1
    RoleAware = TRUE
    MaxReplicas = 1
    MaxGen = 2
    MaxEnvSteps = 3
    MaxFaults = 1
SPECIFICATION Spec
INVARIANT TypeOK
INVARIANT StatusFreshWhenIdle
INVARIANT ClusterMirrorsComponent
PROPERTY Converges
CHECK_DEADLOCK FALSE
