\* The OTLP protocol fails to connect after the primary protocol connected.
CONSTANTS
    Connectors = {t1}
    Stoppers = {t1}
    MaxFailures = 2
    Methods <- MCMethods
SPECIFICATION Spec
INVARIANTS
    NoOrphanedProtocol
