\* The developer-mode override drops the channel super() returns.
CONSTANTS
    Connectors = {t1}
    Stoppers = {t1}
    MaxFailures = 2
    Methods <- MCMethods
SPECIFICATION Spec
INVARIANTS
    ReturnsCreatedChannel
