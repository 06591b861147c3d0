\* Two host threads calling connect_span_stream and shutdown_span_stream concurrently.
CONSTANTS
    Connectors = {t1, t2}
    Stoppers = {t1, t2}
    MaxFailures = 2
    Methods <- MCMethods
SPECIFICATION Spec
INVARIANTS
    TypeOK
    ChannelOnlyWhenEnabled
    ServerlessNoRunRequests
PROPERTIES
    NoNewStreamAfterShutdown
