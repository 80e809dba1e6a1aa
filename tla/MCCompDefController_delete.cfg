\* Two Components, two spec edits, one failing write.
CONSTANTS
    k1 = k1
    k2 = k2
    COMP <- MCComp
    MaxGen = 3
    MaxFaults = 1
    MaxEnvSteps = 4
SPECIFICATION Spec
\* A deleted definition, or a live one that is Available, is left alone.
CHECK_DEADLOCK FALSE
PROPERTY
    ReleaseOnlyWhenUnreferenced
