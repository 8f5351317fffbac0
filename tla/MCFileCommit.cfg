SPECIFICATION Spec
CONSTANTS
    f1 = f1
    f2 = f2
    Workers = {w1}
    Files = {f1, f2}
    Contents = {h1, h2}
    Absent = Absent
    Batches <- OneAndTwo
    Kinds = {"edit", "write"}
    MaxEdits = 4
SYMMETRY Symmetry
INVARIANTS
    NothingLeftBehind
    ReplacesExpectedContent
PROPERTY CreateNeverReplaces
CHECK_DEADLOCK FALSE
