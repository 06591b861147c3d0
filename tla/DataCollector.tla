--------------------------- MODULE DataCollector ---------------------------
(***************************************************************************)
(* The communications layer with the data collector                        *)
(* (src/newrelic/core/data_collector.py): the factory create_session, the  *)
(* Session class with its DeveloperModeSession and ServerlessModeSession   *)
(* variants, the lazily created streaming channel (self._rpc) and the      *)
(* payload methods.                                                        *)
(*                                                                         *)
(* The host calls the session from several threads: connect_span_stream    *)
(* is split at the points where it reads or writes shared state (the       *)
(* check of self._rpc at line 55, the assignment at line 75, the call to   *)
(* rpc.connect() at line 78), so that the calls of two threads interleave  *)
(* as they may under the interpreter's thread switching.  The other        *)
(* operations touch no state another thread's call reads part-way, and     *)
(* are single steps.                                                       *)
(*                                                                         *)
(* Payloads are abstracted to the protocol and endpoint they are sent to;  *)
(* the Protocol and StreamingRpc collaborators to their connection state.  *)
(***************************************************************************)
EXTENDS Naturals, Sequences

CONSTANTS
    Connectors,   \* host threads that call connect_span_stream
    Stoppers,     \* host threads that call shutdown_span_stream
    MaxFailures,  \* bound on the create_session calls that fail
    Methods       \* payload methods the host calls (a subset of DOMAIN Route)

(***************************************************************************)
(* Route[m] is the protocol and endpoint name the payload method m of      *)
(* Session sends to (lines 85-271).                                        *)
(***************************************************************************)
Route ==
    [ send_transaction_traces       |-> <<"primary", "transaction_sample_data">>,
      send_transaction_events       |-> <<"primary", "analytic_event_data">>,
      send_custom_events            |-> <<"primary", "custom_event_data">>,
      send_ml_events                |-> <<"otlp", "ml_event_data">>,
      send_span_events              |-> <<"primary", "span_event_data">>,
      send_metric_data              |-> <<"primary", "metric_data">>,
      send_dimensional_metric_data  |-> <<"otlp", "dimensional_metric_data">>,
      send_log_events               |-> <<"primary", "log_event_data">>,
      get_agent_commands            |-> <<"primary", "get_agent_commands">>,
      send_errors                   |-> <<"primary", "error_data">>,
      send_error_events             |-> <<"primary", "error_event_data">>,
      send_sql_traces               |-> <<"primary", "sql_trace_data">>,
      send_agent_command_results    |-> <<"primary", "agent_command_results">>,
      send_profile_data             |-> <<"primary", "profile_data">>,
      send_loaded_modules           |-> <<"primary", "update_loaded_modules">>,
      shutdown_session              |-> <<"primary", "shutdown">> ]

ASSUME DataCollectorAssumption ==
    /\ Connectors # {}
    /\ MaxFailures \in Nat \ {0}
    /\ Methods \subseteq DOMAIN Route

Threads == Connectors \cup Stoppers
NoSession == "none"
NoRequest == <<"none", "none">>
Variants == {"Session", "DeveloperModeSession", "ServerlessModeSession"}
ChannelStates == {"new", "open", "closed"}

VARIABLES
    settings,   \* global_settings(): [serverless, developer], read by the factory
    config,     \* the primary protocol's configuration, read by connect_span_stream
    session,    \* NoSession, or the class create_session instantiated
    failures,   \* create_session calls that raised so far
    orphans,    \* primary protocols connected by a Session() that then raised
    primary,    \* state of the session's primary protocol
    finalized,  \* whether finalize() has been called
    rpc,        \* self._rpc: 0 (None) or the index in chans of the stored channel
    chans,      \* every StreamingRpc the session constructed, by creation order
    pc,         \* per thread: where its connect_span_stream call is
    mine,       \* per thread: local variable rpc of connect_span_stream (0: unset)
    ret,        \* per thread: what its last connect_span_stream call returned
    lastSent,   \* <<protocol, endpoint>> of the last request sent
    shutdowns   \* history: what the shutdown_span_stream calls found, "absent" or "closed"

vars == <<settings, config, session, failures, orphans, primary, finalized,
          rpc, chans, pc, mine, ret, lastSent, shutdowns>>
streamVars == <<rpc, chans, pc, mine, ret, shutdowns>>

Settings == [serverless : BOOLEAN, developer : BOOLEAN]
Configs == [host : BOOLEAN, dt : BOOLEAN, spanEvents : BOOLEAN,
            collectSpanEvents : BOOLEAN, debugConnect : BOOLEAN]

-----------------------------------------------------------------------------
\* Mutant of Factory: developer mode checked before serverless mode.
FactoryDeveloperFirst(s) ==
    IF s.developer THEN "DeveloperModeSession"
    ELSE IF s.serverless THEN "ServerlessModeSession"
    ELSE "Session"

(***************************************************************************)
(* create_session (lines 302-309): serverless mode takes priority over     *)
(* developer mode.                                                         *)
(***************************************************************************)
Factory(s) ==
    IF s.serverless THEN "ServerlessModeSession"
    ELSE IF s.developer THEN "DeveloperModeSession"
    ELSE "Session"

(***************************************************************************)
(* The conditions under which Session.connect_span_stream constructs a     *)
(* channel (lines 56-69): a trace observer host, and distributed tracing,  *)
(* span events and span-event collection all enabled.                      *)
(***************************************************************************)
TracingEnabled(c) ==
    /\ c.host
    /\ c.dt
    /\ c.spanEvents
    /\ c.collectSpanEvents

(***************************************************************************)
(* Whether the class v reaches the base connect_span_stream: the           *)
(* serverless override is a no-op (lines 289-291), the developer override  *)
(* calls it only with the debug flag set (lines 280-282).                  *)
(***************************************************************************)
ReachesBaseConnect(v, c) ==
    \/ v = "Session"
    \/ v = "DeveloperModeSession" /\ c.debugConnect

(***************************************************************************)
(* Methods the ServerlessModeSession answers itself, without a request     *)
(* (lines 293-299).                                                        *)
(***************************************************************************)
ServerlessLocal == {"get_agent_commands", "shutdown_session"}

-----------------------------------------------------------------------------
Init ==
    /\ settings \in Settings
    /\ config \in Configs
    /\ session = NoSession
    /\ failures = 0
    /\ orphans = 0
    /\ primary = "none"
    /\ finalized = FALSE
    /\ rpc = 0
    /\ chans = << >>
    /\ pc = [t \in Threads |-> "idle"]
    /\ mine = [t \in Threads |-> 0]
    /\ ret = [t \in Threads |-> 0]
    /\ lastSent = NoRequest
    /\ shutdowns = {}

(***************************************************************************)
(* create_session (lines 302-309) and Session.__init__ (lines 34-41): the  *)
(* primary protocol connects, then the OTLP protocol; a connection error   *)
(* of either propagates to the caller.  The host calls create_session      *)
(* again while it has no session; at most MaxFailures calls fail.          *)
(***************************************************************************)
CreateSession ==
    /\ session = NoSession
    /\ \/ \* self.PROTOCOL.connect raises (line 35)
          /\ failures < MaxFailures
          /\ failures' = failures + 1
          /\ UNCHANGED <<session, orphans, primary>>
       \/ \* self.OTLP_PROTOCOL.connect raises (line 38), the primary is connected
          /\ failures < MaxFailures
          /\ failures' = failures + 1
          /\ orphans' = orphans + 1
          /\ UNCHANGED <<session, primary>>
       \/ \* both connect; self._rpc = None (line 41)
          /\ session' = Factory(settings)
          /\ primary' = "connected"
          /\ UNCHANGED <<failures, orphans>>
    /\ UNCHANGED <<settings, config, finalized, lastSent>>
    /\ UNCHANGED streamVars

\* Mutant of StartConnect: the self._rpc check of line 55 dropped.
StartConnectNoRpcCheck(t) ==
    /\ session # NoSession
    /\ pc[t] = "idle"
    /\ mine' = [mine EXCEPT ![t] = 0]
    /\ IF ReachesBaseConnect(session, config) /\ TracingEnabled(config)
       THEN /\ pc' = [pc EXCEPT ![t] = "create"]
            /\ UNCHANGED ret
       ELSE /\ ret' = [ret EXCEPT ![t] = 0]
            /\ UNCHANGED pc
    /\ UNCHANGED <<settings, config, session, failures, orphans, primary,
                   finalized, rpc, chans, lastSent, shutdowns>>

(***************************************************************************)
(* Thread t enters connect_span_stream.  The call returns None at once     *)
(* when the class's override does nothing, when self._rpc is set          *)
(* (line 55), when no host is configured (lines 56-58) or when tracing is  *)
(* not fully enabled (lines 65-69); otherwise it goes on to construct the  *)
(* channel.                                                                *)
(***************************************************************************)
StartConnect(t) ==
    /\ session # NoSession
    /\ pc[t] = "idle"
    /\ mine' = [mine EXCEPT ![t] = 0]
    /\ IF ReachesBaseConnect(session, config) /\ rpc = 0 /\ TracingEnabled(config)
       THEN /\ pc' = [pc EXCEPT ![t] = "create"]
            /\ UNCHANGED ret
       ELSE /\ ret' = [ret EXCEPT ![t] = 0]
            /\ UNCHANGED pc
    /\ UNCHANGED <<settings, config, session, failures, orphans, primary,
                   finalized, rpc, chans, lastSent, shutdowns>>

\* Mutant of CreateChannel: the index taken before the append.
CreateChannelIndexBeforeAppend(t) ==
    /\ pc[t] = "create"
    /\ chans' = Append(chans, "new")
    /\ rpc' = Len(chans')
    /\ mine' = [mine EXCEPT ![t] = Len(chans)]
    /\ pc' = [pc EXCEPT ![t] = "connect"]
    /\ UNCHANGED <<settings, config, session, failures, orphans, primary,
                   finalized, ret, lastSent, shutdowns>>

\* Mutant of CreateChannel: rpc = StreamingRpc(...) without storing self._rpc.
CreateChannelUnstored(t) ==
    /\ pc[t] = "create"
    /\ chans' = Append(chans, "new")
    /\ mine' = [mine EXCEPT ![t] = Len(chans')]
    /\ pc' = [pc EXCEPT ![t] = "connect"]
    /\ UNCHANGED <<settings, config, session, failures, orphans, primary,
                   finalized, rpc, ret, lastSent, shutdowns>>

(***************************************************************************)
(* rpc = self._rpc = StreamingRpc(...) (line 75): a new channel, stored.   *)
(***************************************************************************)
CreateChannel(t) ==
    /\ pc[t] = "create"
    /\ chans' = Append(chans, "new")
    /\ rpc' = Len(chans')
    /\ mine' = [mine EXCEPT ![t] = Len(chans')]
    /\ pc' = [pc EXCEPT ![t] = "connect"]
    /\ UNCHANGED <<settings, config, session, failures, orphans, primary,
                   finalized, ret, lastSent, shutdowns>>

(***************************************************************************)
(* rpc.connect(); return rpc (lines 78-79).  The connect of a channel      *)
(* another thread has closed meanwhile is not specified by StreamingRpc's  *)
(* contract: it may reopen it or leave it closed.  DeveloperModeSession's  *)
(* override discards the value super() returns (line 282).                 *)
(***************************************************************************)
ConnectChannel(t) ==
    /\ pc[t] = "connect"
    /\ \E s \in IF chans[mine[t]] = "closed" THEN {"open", "closed"} ELSE {"open"} :
          chans' = [chans EXCEPT ![mine[t]] = s]
    /\ ret' = [ret EXCEPT ![t] = IF session = "DeveloperModeSession" THEN 0 ELSE mine[t]]
    /\ pc' = [pc EXCEPT ![t] = "idle"]
    /\ UNCHANGED <<settings, config, session, failures, orphans, primary,
                   finalized, rpc, mine, lastSent, shutdowns>>

\* Mutant of ShutdownSpanStream: self._rpc reset to None after the close.
ShutdownSpanStreamReset(t) ==
    /\ session # NoSession
    /\ pc[t] = "idle"
    /\ chans' = IF rpc # 0 THEN [chans EXCEPT ![rpc] = "closed"] ELSE chans
    /\ rpc' = 0
    /\ shutdowns' = shutdowns \cup {IF rpc # 0 THEN "closed" ELSE "absent"}
    /\ UNCHANGED <<settings, config, session, failures, orphans, primary,
                   finalized, pc, mine, ret, lastSent>>

(***************************************************************************)
(* shutdown_span_stream (lines 81-83): close the stored channel, if any.   *)
(* self._rpc keeps the closed channel.                                     *)
(***************************************************************************)
ShutdownSpanStream(t) ==
    /\ session # NoSession
    /\ pc[t] = "idle"
    /\ chans' = IF rpc # 0 THEN [chans EXCEPT ![rpc] = "closed"] ELSE chans
    /\ shutdowns' = shutdowns \cup {IF rpc # 0 THEN "closed" ELSE "absent"}
    /\ UNCHANGED <<settings, config, session, failures, orphans, primary,
                   finalized, rpc, pc, mine, ret, lastSent>>

\* Mutant of SendPayload: ServerlessModeSession without its overrides.
SendPayloadNoOverrides(m) ==
    /\ session # NoSession
    /\ \E traces \in {"empty", "nonempty"} :
          /\ (m = "send_transaction_traces" => traces = "nonempty")
          /\ lastSent' = Route[m]
    /\ UNCHANGED <<settings, config, session, failures, orphans, primary,
                   finalized>>
    /\ UNCHANGED streamVars

(***************************************************************************)
(* A payload method m (lines 85-271): the payload goes to Route[m].        *)
(* send_transaction_traces returns early on an empty list (lines 95-96),   *)
(* and the serverless overrides of ServerlessLocal return without a        *)
(* request; those calls change nothing.                                    *)
(***************************************************************************)
SendPayload(m) ==
    /\ session # NoSession
    /\ ~(session = "ServerlessModeSession" /\ m \in ServerlessLocal)
    /\ \E traces \in {"empty", "nonempty"} :
          /\ (m = "send_transaction_traces" => traces = "nonempty")
          /\ lastSent' = Route[m]
    /\ UNCHANGED <<settings, config, session, failures, orphans, primary,
                   finalized>>
    /\ UNCHANGED streamVars

(***************************************************************************)
(* close_connection (lines 51-52) closes the primary protocol only.        *)
(***************************************************************************)
CloseConnection ==
    /\ session # NoSession
    /\ primary' = "closed"
    /\ UNCHANGED <<settings, config, session, failures, orphans, finalized,
                   lastSent>>
    /\ UNCHANGED streamVars

(***************************************************************************)
(* finalize (lines 273-274) delegates to the primary protocol.             *)
(***************************************************************************)
Finalize ==
    /\ session # NoSession
    /\ finalized' = TRUE
    /\ UNCHANGED <<settings, config, session, failures, orphans, primary,
                   lastSent>>
    /\ UNCHANGED streamVars

Next ==
    \/ CreateSession
    \/ \E t \in Threads :
          \/ t \in Connectors /\ StartConnect(t)
          \/ CreateChannel(t)
          \/ ConnectChannel(t)
          \/ t \in Stoppers /\ ShutdownSpanStream(t)
    \/ \E m \in Methods : SendPayload(m)
    \/ CloseConnection
    \/ Finalize

Spec == Init /\ [][Next]_vars

-----------------------------------------------------------------------------
TypeOK ==
    /\ settings \in Settings
    /\ config \in Configs
    /\ session \in Variants \cup {NoSession}
    /\ failures \in 0..MaxFailures
    /\ orphans \in 0..failures
    /\ primary \in {"none", "connected", "closed"}
    /\ finalized \in BOOLEAN
    /\ chans \in Seq(ChannelStates)
    /\ rpc \in 0..Len(chans)
    /\ pc \in [Threads -> {"idle", "create", "connect"}]
    /\ mine \in [Threads -> 0..Len(chans)]
    /\ \A t \in Threads : pc[t] = "connect" => mine[t] \in 1..Len(chans)
    /\ ret \in [Threads -> 0..Len(chans)]
    /\ lastSent \in {Route[m] : m \in DOMAIN Route} \cup {NoRequest}
    /\ shutdowns \subseteq {"absent", "closed"}

(***************************************************************************)
(* The session's channel is created at most once: when connect_span_stream *)
(* is called by one thread at a time, as spec section 5 assumes, no second *)
(* StreamingRpc is constructed (the self._rpc check at line 55 against the *)
(* assignment at line 75).  Two concurrent callers break it (unlocked).    *)
(***************************************************************************)
AtMostOneChannel == Len(chans) <= 1

(***************************************************************************)
(* Closing is final: once shutdown_span_stream has closed one of the       *)
(* session's channels, none of them is open (a later connect_span_stream   *)
(* must not start a new channel, and a connect in flight must not reopen   *)
(* the closed one).                                                        *)
(***************************************************************************)
ShutdownFinal ==
    "closed" \in shutdowns => \A i \in DOMAIN chans : chans[i] # "open"

(***************************************************************************)
(* A channel exists only when the process settings allow streaming and     *)
(* the configuration enables it: never in serverless mode, in developer    *)
(* mode only with the debug flag, and only with a trace observer host and  *)
(* tracing fully enabled.  This ties create_session's choice of class to   *)
(* the overrides of connect_span_stream and to its checks.                 *)
(***************************************************************************)
ChannelOnlyWhenEnabled ==
    Len(chans) > 0 =>
        /\ ~settings.serverless
        /\ settings.developer => config.debugConnect
        /\ TracingEnabled(config)

(***************************************************************************)
(* A session in serverless mode never asks the collector for agent         *)
(* commands and never sends shutdown: there is no persistent run.          *)
(***************************************************************************)
ServerlessNoRunRequests ==
    settings.serverless =>
        lastSent \notin {Route["get_agent_commands"], Route["shutdown_session"]}

(***************************************************************************)
(* A failed create_session leaves no connected protocol behind: every      *)
(* primary protocol that was connected belongs to the session (spec: the   *)
(* Session exclusively owns its protocol handles).                         *)
(***************************************************************************)
NoOrphanedProtocol == orphans = 0

(***************************************************************************)
(* connect_span_stream returns the channel it created, and None when it    *)
(* created none (spec 4.2; 4.5: the developer variant is identical but for *)
(* the debug gate).                                                        *)
(***************************************************************************)
ReturnsCreatedChannel == \A t \in Threads : pc[t] = "idle" => ret[t] = mine[t]

(***************************************************************************)
(* The spec's span-stream state machine: shutdown_span_stream moves the    *)
(* stream to Closed, which is terminal, so no channel is open afterwards.  *)
(***************************************************************************)
SpanStreamClosedTerminal ==
    shutdowns # {} => \A i \in DOMAIN chans : chans[i] # "open"

(***************************************************************************)
(* What of "Closed is terminal" survives concurrent callers: once          *)
(* shutdown_span_stream has closed the stored channel, a                   *)
(* connect_span_stream call that begins afterwards never goes on to        *)
(* construct a channel.  self._rpc keeps the closed channel (line 83) and  *)
(* the check of line 55 sees it; a call already past that check is the     *)
(* race of ConnectChannel.                                                 *)
(***************************************************************************)
NoNewStreamAfterShutdown ==
    [][\A t \in Threads :
          "closed" \in shutdowns /\ pc[t] = "idle" => pc'[t] # "create"]_vars

-----------------------------------------------------------------------------
(***************************************************************************)
(* Refinement of the abstract span-stream lifecycle: self._rpc unset is   *)
(* Absent, a stored channel is Active until closed.                        *)
(***************************************************************************)
StreamState ==
    IF rpc = 0 THEN "Absent"
    ELSE IF chans[rpc] = "closed" THEN "Closed" ELSE "Active"

StreamPermitted ==
    /\ ReachesBaseConnect(Factory(settings), config)
    /\ TracingEnabled(config)

Abstract == INSTANCE SpanStream
    WITH stream <- StreamState, created <- Len(chans), allowed <- StreamPermitted

(***************************************************************************)
(* The session implements the abstract lifecycle of spec 4.2.              *)
(***************************************************************************)
SpanStreamRefinement == Abstract!Spec

=============================================================================
