------------------------------- MODULE MCHost -------------------------------
EXTENDS Host

\* A payload method of each kind: primary, OTLP, run request, log events.
MCHostMethods == {"send_metric_data", "send_ml_events", "get_agent_commands",
                  "shutdown_session"}

=============================================================================
