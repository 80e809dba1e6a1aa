\* Owned objects: one referenced and one generated account, a PDB whose
\* MinAvailable the user may set, change or clear.
CONSTANTS
    a1 = a1
    a2 = a2
    pw1 = pw1
    pw2 = pw2
    m1 = m1
    m2 = m2
    pdb = pdb
    compFin = compFin
    defFin = defFin
    AccountSeq <- MCAccountSeq
    RefAccounts <- MCRefAccounts
    PASSWORD <- MCPassword
    MINAVAIL <- MCMinAvail
    Pdb = pdb
    CompFinalizer = compFin
    DefFinalizer = defFin
    MaxEnvSteps = 3
    MaxFaults = 1
SPECIFICATION Spec
INVARIANTS
    TypeOK
    OwnedObjectsWhenIdle
PROPERTIES
    AccountsEventuallyReady
CHECK_DEADLOCK FALSE
