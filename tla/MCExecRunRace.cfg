SPECIFICATION Spec
CONSTANTS
    Jobs = {j1, j2}
    Owners = {o1}
    NoJob = NoJob
    Admitted = {"exec_run", "process_start", "process_stop", "debug_stop", "debug_continue", "debug_interrupt", "mem_scan", "process_status", "debug_status", "session_revoke"}
INVARIANT RevokedSessionHasNoManagedChild
CHECK_DEADLOCK FALSE
