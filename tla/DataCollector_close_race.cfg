\* The harvest thread connects the span stream while another thread shuts it down.
CONSTANTS
    Connectors = {t1}
    Stoppers = {t2}
    MaxFailures = 2
    Methods <- MCMethods
SPECIFICATION Spec
INVARIANTS
    ShutdownFinal
