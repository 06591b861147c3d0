\* One host thread over one agent run, with its shutdown sequence.
\* The process ends after close_connection: no deadlock check.
CONSTANTS
    Connectors = {t1}
    Stoppers = {t1}
    MaxFailures = 1
    Methods <- MCHostMethods
SPECIFICATION HostSpec
INVARIANT ChannelNotOutliveAuth
CHECK_DEADLOCK FALSE
