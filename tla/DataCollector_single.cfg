\* One host thread (the single harvest caller of spec section 5).
CONSTANTS
    Connectors = {t1}
    Stoppers = {t1}
    MaxFailures = 2
    Methods <- MCMethods
SPECIFICATION Spec
INVARIANTS
    TypeOK
    AtMostOneChannel
    ShutdownFinal
    ChannelOnlyWhenEnabled
    ServerlessNoRunRequests
PROPERTIES
    SpanStreamRefinement
