\* shutdown_span_stream before any channel exists does not close the stream.
CONSTANTS
    Connectors = {t1}
    Stoppers = {t1}
    MaxFailures = 2
    Methods <- MCMethods
SPECIFICATION Spec
INVARIANTS
    SpanStreamClosedTerminal
