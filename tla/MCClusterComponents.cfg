\* Two components, one of them in the ClusterDefinition; two spec edits.
CONSTANTS
    c1 = c1
    c2 = c2
    CompOrder <- MCCompOrder
    DefComps <- MCDefComps
    MaxGen = 3
    MaxFaults = 1
    MaxEnvSteps = 3
SPECIFICATION Spec
\* With the edits spent and no request queued, the controller is idle.
CHECK_DEADLOCK FALSE
INVARIANT
    TypeOK
PROPERTY
    SpecComponentsEventuallyRecorded
