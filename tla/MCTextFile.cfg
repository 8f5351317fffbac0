SPECIFICATION Spec
CONSTANTS
    MaxText = 5
    MaxBytes = 4
    Inputs <- MCInputs
    EditLists <- MCEditLists
    MaxMatches = 3
    MaxDecoded = 8
    Context = 1
INVARIANTS
    EditsAreExact
    
    FormatKept
CHECK_DEADLOCK FALSE
