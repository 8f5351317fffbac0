SPECIFICATION Spec
CONSTANTS
    Installers = {i1, i2}
    Nobody = Nobody
    Work <- MCWork
    MaxEdits = 1
    MaxNow = 1
    MaxCrashes = 1
INVARIANTS
    NoLostInstall
    
    
CHECK_DEADLOCK FALSE
