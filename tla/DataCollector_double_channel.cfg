\* Two threads race on the self._rpc check: a second channel is constructed.
CONSTANTS
    Connectors = {t1, t2}
    Stoppers = {t1, t2}
    MaxFailures = 2
    Methods <- MCMethods
SPECIFICATION Spec
INVARIANTS
    AtMostOneChannel
