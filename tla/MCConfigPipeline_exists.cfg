\* Two config templates, one failing call, two environment events.
CONSTANTS
    t1 = t1
    t2 = t2
    TPL <- MCTpl
    MaxFaults = 1
    MaxEnvSteps = 2
SPECIFICATION Spec
\* Once the environment is spent and the pipelines have stopped, nothing
\* is enabled.
CHECK_DEADLOCK FALSE
PROPERTY
    ConfigurationEventuallyExists
