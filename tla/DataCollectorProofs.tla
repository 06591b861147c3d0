------------------------- MODULE DataCollectorProofs -------------------------
(***************************************************************************)
(* Proofs about DataCollector for every set of threads and every bound.    *)
(***************************************************************************)
EXTENDS DataCollector, TLAPS

USE DataCollectorAssumption

(***************************************************************************)
(* TypeOK in three parts, so that each proof step handles few facts: the   *)
(* settings and flags, the session and its bookkeeping, and the channel    *)
(* state the threads share.                                                *)
(***************************************************************************)
TypeFlags ==
    /\ settings \in Settings
    /\ config \in Configs
    /\ primary \in {"none", "connected", "closed"}
    /\ finalized \in BOOLEAN

TypeSession ==
    /\ session \in Variants \cup {NoSession}
    /\ failures \in 0..MaxFailures
    /\ orphans \in 0..failures
    /\ lastSent \in {Route[m] : m \in DOMAIN Route} \cup {NoRequest}
    /\ shutdowns \subseteq {"absent", "closed"}

TypeStream ==
    /\ chans \in Seq(ChannelStates)
    /\ rpc \in 0..Len(chans)
    /\ pc \in [Threads -> {"idle", "create", "connect"}]
    /\ mine \in [Threads -> 0..Len(chans)]
    /\ \A t \in Threads : pc[t] = "connect" => mine[t] \in 1..Len(chans)
    /\ ret \in [Threads -> 0..Len(chans)]

LEMMA TypeParts == TypeOK <=> TypeFlags /\ TypeSession /\ TypeStream
  BY DEF TypeOK, TypeFlags, TypeSession, TypeStream

(***************************************************************************)
(* The type invariant holds in every reachable state.                      *)
(***************************************************************************)
THEOREM TypeCorrect == Spec => []TypeOK
<1>1. Init => TypeOK
  <2> SUFFICES ASSUME Init PROVE TypeFlags /\ TypeSession /\ TypeStream
    BY TypeParts
  <2>1. TypeFlags
    BY DEF Init, TypeFlags
  <2>2. TypeSession
    BY DEF Init, TypeSession
  <2>3. TypeStream
    BY DEF Init, TypeStream
  <2>4. QED
    BY <2>1, <2>2, <2>3
<1>2. TypeOK /\ [Next]_vars => TypeOK'
  <2> SUFFICES ASSUME TypeFlags, TypeSession, TypeStream, [Next]_vars
               PROVE TypeFlags' /\ TypeSession' /\ TypeStream'
    BY DEF TypeOK, TypeFlags, TypeSession, TypeStream
  <2>1. CASE CreateSession
    <3>1. TypeFlags'
      BY <2>1 DEF CreateSession, TypeFlags
    <3>2. session' \in Variants \cup {NoSession}
      BY <2>1 DEF CreateSession, TypeSession, Factory, Variants
    <3>3. failures' \in 0..MaxFailures /\ orphans' \in 0..failures'
      BY <2>1 DEF CreateSession, TypeSession
    <3>4. TypeSession'
      BY <2>1, <3>2, <3>3 DEF CreateSession, TypeSession, streamVars
    <3>5. TypeStream'
      BY <2>1 DEF CreateSession, TypeStream, streamVars
    <3>6. QED
      BY <3>1, <3>4, <3>5
  <2>2. ASSUME NEW t \in Threads, StartConnect(t)
        PROVE TypeFlags' /\ TypeSession' /\ TypeStream'
    <3>1. TypeFlags' /\ TypeSession'
      BY <2>2 DEF StartConnect, TypeFlags, TypeSession
    <3>1a. UNCHANGED <<rpc, chans, ret>> \/ UNCHANGED <<rpc, chans, pc>>
      BY <2>2 DEF StartConnect
    <3>1b. pc' \in [Threads -> {"idle", "create", "connect"}]
      BY <2>2 DEF StartConnect, TypeStream
    <3>1c. mine' \in [Threads -> 0..Len(chans)] /\ mine'[t] = 0
      BY <2>2 DEF StartConnect, TypeStream
    <3>1d. ret' \in [Threads -> 0..Len(chans)]
      <4>1. CASE ReachesBaseConnect(session, config) /\ rpc = 0 /\ TracingEnabled(config)
        BY <2>2, <4>1 DEF StartConnect, TypeStream
      <4>2. CASE ~(ReachesBaseConnect(session, config) /\ rpc = 0 /\ TracingEnabled(config))
        <5>1. ret' = [ret EXCEPT ![t] = 0]
          BY <2>2, <4>2 DEF StartConnect
        <5>2. QED
          BY <5>1 DEF TypeStream
      <4>3. QED
        BY <4>1, <4>2
    <3>1e. pc'[t] # "connect" /\ \A u \in Threads \ {t} : pc'[u] = pc[u] /\ mine'[u] = mine[u]
      BY <2>2 DEF StartConnect, TypeStream
    <3>2. TypeStream'
      BY <2>2, <3>1b, <3>1c, <3>1d, <3>1e DEF StartConnect, TypeStream
    <3>3. QED
      BY <3>1, <3>2
  <2>3. ASSUME NEW t \in Threads, CreateChannel(t)
        PROVE TypeFlags' /\ TypeSession' /\ TypeStream'
    <3>1. TypeFlags' /\ TypeSession'
      BY <2>3 DEF CreateChannel, TypeFlags, TypeSession
    <3>2. TypeStream'
      BY <2>3 DEF CreateChannel, TypeStream, ChannelStates
    <3>3. QED
      BY <3>1, <3>2
  <2>4. ASSUME NEW t \in Threads, ConnectChannel(t)
        PROVE TypeFlags' /\ TypeSession' /\ TypeStream'
    <3>1. TypeFlags' /\ TypeSession'
      BY <2>4 DEF ConnectChannel, TypeFlags, TypeSession
    <3>2. TypeStream'
      BY <2>4 DEF ConnectChannel, TypeStream, ChannelStates
    <3>3. QED
      BY <3>1, <3>2
  <2>5. ASSUME NEW t \in Threads, ShutdownSpanStream(t)
        PROVE TypeFlags' /\ TypeSession' /\ TypeStream'
    <3>1. TypeFlags' /\ TypeSession'
      BY <2>5 DEF ShutdownSpanStream, TypeFlags, TypeSession
    <3>1a. chans' \in Seq(ChannelStates) /\ Len(chans') = Len(chans)
      <4>1. CASE rpc = 0
        BY <2>5, <4>1 DEF ShutdownSpanStream, TypeStream
      <4>2. CASE rpc # 0
        <5>1. rpc \in 1..Len(chans) /\ chans \in Seq(ChannelStates)
          BY <4>2 DEF TypeStream
        <5>2. chans' = [chans EXCEPT ![rpc] = "closed"]
          BY <2>5, <4>2 DEF ShutdownSpanStream
        <5>3. QED
          BY <5>1, <5>2 DEF ChannelStates
      <4>3. QED
        BY <4>1, <4>2
    <3>1b. UNCHANGED <<rpc, pc, mine, ret>>
      BY <2>5 DEF ShutdownSpanStream
    <3>2. TypeStream'
      BY <3>1a, <3>1b DEF TypeStream
    <3>3. QED
      BY <3>1, <3>2
  <2>6. ASSUME NEW m \in Methods, SendPayload(m)
        PROVE TypeFlags' /\ TypeSession' /\ TypeStream'
    <3>1. lastSent' \in {Route[x] : x \in DOMAIN Route}
      BY <2>6 DEF SendPayload
    <3>2. UNCHANGED <<settings, config, primary, finalized, session, failures,
                      orphans, shutdowns>>
      BY <2>6 DEF SendPayload, streamVars
    <3>3. TypeFlags' /\ TypeSession'
      BY <3>1, <3>2 DEF TypeFlags, TypeSession
    <3>4. TypeStream'
      BY <2>6 DEF SendPayload, TypeStream, streamVars
    <3>5. QED
      BY <3>3, <3>4
  <2>7. CASE CloseConnection
    BY <2>7 DEF CloseConnection, TypeFlags, TypeSession, TypeStream, streamVars
  <2>8. CASE Finalize
    BY <2>8 DEF Finalize, TypeFlags, TypeSession, TypeStream, streamVars
  <2>9. CASE UNCHANGED vars
    BY <2>9 DEF vars, TypeFlags, TypeSession, TypeStream
  <2>10. QED
    BY <2>1, <2>2, <2>3, <2>4, <2>5, <2>6, <2>7, <2>8, <2>9 DEF Next
<1>3. QED
  BY <1>1, <1>2, PTL DEF Spec

(***************************************************************************)
(* The strengthening of ChannelOnlyWhenEnabled and ServerlessNoRunRequests *)
(* that is inductive: the session is of the class create_session chooses  *)
(* for the settings, a thread past the checks of connect_span_stream and   *)
(* every channel exist only when streaming is permitted for that class,    *)
(* and a serverless session has sent no run request.                       *)
(***************************************************************************)
ModeInv ==
    /\ session # NoSession => session = Factory(settings)
    /\ \A t \in Threads : pc[t] \in {"create", "connect"} => StreamPermitted
    /\ Len(chans) > 0 => StreamPermitted
    /\ ServerlessNoRunRequests

\* Settings and configuration are read, never written, so whether streaming
\* is permitted does not change along a step that leaves them alone.
LEMMA PermittedStable ==
    ASSUME UNCHANGED <<settings, config>>
    PROVE  StreamPermitted' = StreamPermitted
  BY DEF StreamPermitted, Factory, ReachesBaseConnect, TracingEnabled

\* A payload method other than the two serverless overrides does not send to
\* the endpoints of get_agent_commands and shutdown_session.
LEMMA RouteDistinct ==
    ASSUME NEW m \in DOMAIN Route, m \notin ServerlessLocal
    PROVE  Route[m] \notin {Route["get_agent_commands"], Route["shutdown_session"]}
  BY DEF Route, ServerlessLocal

\* ModeInv holds in every reachable state, for any number of threads: the
\* session is the factory's class and every channel is permitted by it.
LEMMA ModeInvariant == Spec => []ModeInv
<1>1. Init => ModeInv
  BY DEF Init, ModeInv, ServerlessNoRunRequests, NoRequest, Route
<1>2. TypeOK /\ ModeInv /\ [Next]_vars => ModeInv'
  <2> SUFFICES ASSUME TypeOK, ModeInv, [Next]_vars PROVE ModeInv'
    OBVIOUS
  <2>1. CASE CreateSession
    <3>1. UNCHANGED <<settings, config, pc, chans, lastSent>>
      BY <2>1 DEF CreateSession, streamVars
    <3>2. session' = NoSession \/ session' = Factory(settings')
      BY <2>1, <3>1 DEF CreateSession
    <3>3. QED
      BY <3>1, <3>2, PermittedStable DEF ModeInv, ServerlessNoRunRequests
  <2>2. ASSUME NEW t \in Threads, StartConnect(t)
        PROVE ModeInv'
    <3>1. UNCHANGED <<settings, config, session, chans, lastSent>>
      BY <2>2 DEF StartConnect
    <3>2. session = Factory(settings)
      BY <2>2 DEF StartConnect, ModeInv
    <3>3. pc'[t] \in {"create", "connect"} => StreamPermitted
      BY <2>2, <3>2 DEF StartConnect, StreamPermitted, TypeOK
    <3>4. \A u \in Threads \ {t} : pc'[u] = pc[u]
      BY <2>2 DEF StartConnect, TypeOK
    <3>5. QED
      BY <3>1, <3>3, <3>4, PermittedStable DEF ModeInv, ServerlessNoRunRequests
  <2>3. ASSUME NEW t \in Threads, CreateChannel(t)
        PROVE ModeInv'
    <3>1. UNCHANGED <<settings, config, session, lastSent>>
      BY <2>3 DEF CreateChannel
    <3>2. StreamPermitted
      BY <2>3 DEF CreateChannel, ModeInv
    <3>3. pc' \in [Threads -> {"idle", "create", "connect"}]
      BY <2>3 DEF CreateChannel, TypeOK
    <3>4. QED
      BY <3>1, <3>2, <3>3, PermittedStable DEF ModeInv, ServerlessNoRunRequests
  <2>4. ASSUME NEW t \in Threads, ConnectChannel(t)
        PROVE ModeInv'
    <3>1. UNCHANGED <<settings, config, session, lastSent>>
      BY <2>4 DEF ConnectChannel
    <3>2. Len(chans') = Len(chans)
      BY <2>4 DEF ConnectChannel, TypeOK
    <3>3. \A u \in Threads : pc'[u] \in {"create", "connect"} => pc[u] \in {"create", "connect"}
      BY <2>4 DEF ConnectChannel, TypeOK
    <3>4. QED
      BY <3>1, <3>2, <3>3, PermittedStable DEF ModeInv, ServerlessNoRunRequests
  <2>5. ASSUME NEW t \in Threads, ShutdownSpanStream(t)
        PROVE ModeInv'
    <3>1. UNCHANGED <<settings, config, session, lastSent, pc>>
      BY <2>5 DEF ShutdownSpanStream
    <3>2. Len(chans') = Len(chans)
      BY <2>5 DEF ShutdownSpanStream, TypeOK
    <3>3. QED
      BY <3>1, <3>2, PermittedStable DEF ModeInv, ServerlessNoRunRequests
  <2>6. ASSUME NEW m \in Methods, SendPayload(m)
        PROVE ModeInv'
    <3>1. UNCHANGED <<settings, config, session, pc, chans>>
      BY <2>6 DEF SendPayload, streamVars
    <3>2. lastSent' = Route[m]
      BY <2>6 DEF SendPayload
    <3>3. settings.serverless => m \notin ServerlessLocal
      BY <2>6 DEF SendPayload, ModeInv, Factory
    <3>4. settings.serverless => lastSent' \notin {Route["get_agent_commands"], Route["shutdown_session"]}
      BY <3>2, <3>3, RouteDistinct
    <3>5. QED
      BY <3>1, <3>4, PermittedStable DEF ModeInv, ServerlessNoRunRequests
  <2>7. CASE CloseConnection \/ Finalize \/ UNCHANGED vars
    <3>1. UNCHANGED <<settings, config, session, pc, chans, lastSent>>
      BY <2>7 DEF CloseConnection, Finalize, vars, streamVars
    <3>2. QED
      BY <3>1, PermittedStable DEF ModeInv, ServerlessNoRunRequests
  <2>8. QED
    BY <2>1, <2>2, <2>3, <2>4, <2>5, <2>6, <2>7 DEF Next
<1>3. QED
  BY <1>1, <1>2, TypeCorrect, PTL DEF Spec

(***************************************************************************)
(* A channel is only ever constructed when the class create_session chose  *)
(* for the process settings reaches the base connect_span_stream and the   *)
(* configuration enables tracing, and a serverless session never sends    *)
(* get_agent_commands or shutdown: the factory's priority of serverless    *)
(* over developer mode agrees with the overrides of both variants.         *)
(***************************************************************************)
THEOREM ModeCorrect == Spec => [](ChannelOnlyWhenEnabled /\ ServerlessNoRunRequests)
<1>1. ModeInv => ChannelOnlyWhenEnabled /\ ServerlessNoRunRequests
  BY DEF ModeInv, ChannelOnlyWhenEnabled, StreamPermitted, ReachesBaseConnect, Factory
<1>2. QED
  BY <1>1, ModeInvariant, PTL

-----------------------------------------------------------------------------
\* For any number of threads: a shutdown that closed a channel leaves it in
\* self._rpc, which nothing resets.
ShutdownKept == "closed" \in shutdowns => rpc # 0

LEMMA ShutdownKeptInvariant == Spec => [](TypeOK /\ ShutdownKept)
<1>1. Init => ShutdownKept
  BY DEF Init, ShutdownKept
<1>2. TypeOK /\ ShutdownKept /\ [Next]_vars => ShutdownKept'
  <2> SUFFICES ASSUME TypeOK, ShutdownKept, [Next]_vars PROVE ShutdownKept'
    OBVIOUS
  <2>1. ASSUME NEW t \in Threads, CreateChannel(t)
        PROVE ShutdownKept'
    BY <2>1 DEF CreateChannel, ShutdownKept, TypeOK
  <2>2. ASSUME NEW t \in Threads, ShutdownSpanStream(t)
        PROVE ShutdownKept'
    BY <2>2 DEF ShutdownSpanStream, ShutdownKept
  <2>3. CASE \/ CreateSession
             \/ \E t \in Threads : StartConnect(t) \/ ConnectChannel(t)
             \/ \E m \in Methods : SendPayload(m)
             \/ CloseConnection \/ Finalize \/ UNCHANGED vars
    <3>1. UNCHANGED <<rpc, shutdowns>>
      BY <2>3 DEF CreateSession, StartConnect, ConnectChannel, SendPayload,
                  CloseConnection, Finalize, vars, streamVars
    <3>2. QED
      BY <3>1 DEF ShutdownKept
  <2>4. QED
    BY <2>1, <2>2, <2>3 DEF Next
<1>3. QED
  BY <1>1, <1>2, TypeCorrect, PTL DEF Spec

(***************************************************************************)
(* However many threads call connect_span_stream and shutdown_span_stream, *)
(* once a shutdown has closed the stored channel no connect_span_stream    *)
(* call begun afterwards constructs a channel: the check of line 55 sees   *)
(* the closed channel that line 83 left in self._rpc.                      *)
(***************************************************************************)
THEOREM NoNewStreamAfterShutdownCorrect == Spec => NoNewStreamAfterShutdown
<1>1. ASSUME TypeOK, ShutdownKept, [Next]_vars, NEW t \in Threads,
             "closed" \in shutdowns, pc[t] = "idle"
      PROVE  pc'[t] # "create"
  <2>1. rpc # 0
    BY <1>1 DEF ShutdownKept
  <2>2. ASSUME NEW u \in Threads, StartConnect(u)
        PROVE  pc'[t] # "create"
    <3>1. CASE u = t
      BY <1>1, <2>1, <2>2, <3>1 DEF StartConnect, TypeOK
    <3>2. CASE u # t
      BY <1>1, <2>2, <3>2 DEF StartConnect, TypeOK
    <3>3. QED
      BY <3>1, <3>2
  <2>3. ASSUME NEW u \in Threads, CreateChannel(u) \/ ConnectChannel(u)
        PROVE  pc'[t] # "create"
    BY <1>1, <2>3 DEF CreateChannel, ConnectChannel, TypeOK
  <2>4. CASE \/ CreateSession
             \/ \E u \in Threads : ShutdownSpanStream(u)
             \/ \E m \in Methods : SendPayload(m)
             \/ CloseConnection \/ Finalize \/ UNCHANGED vars
    <3>1. UNCHANGED pc
      BY <2>4 DEF CreateSession, ShutdownSpanStream, SendPayload, CloseConnection,
                  Finalize, vars, streamVars
    <3>2. QED
      BY <1>1, <3>1
  <2>5. QED
    BY <1>1, <2>2, <2>3, <2>4 DEF Next
<1>2. TypeOK /\ ShutdownKept /\ [Next]_vars =>
        [\A t \in Threads : "closed" \in shutdowns /\ pc[t] = "idle" => pc'[t] # "create"]_vars
  BY <1>1
<1>3. QED
  BY <1>2, ShutdownKeptInvariant, PTL DEF Spec, NoNewStreamAfterShutdown

-----------------------------------------------------------------------------
(***************************************************************************)
(* With one host thread c, the strengthening of AtMostOneChannel and       *)
(* ShutdownFinal: self._rpc is the only channel, a thread about to create  *)
(* one has found self._rpc unset, a thread about to connect holds the     *)
(* fresh stored channel, and a shutdown that found a channel left it       *)
(* closed with no connect still to come.                                   *)
(***************************************************************************)
SingleInv(c) ==
    /\ rpc = Len(chans)
    /\ Len(chans) <= 1
    /\ pc[c] = "create" => rpc = 0 /\ "closed" \notin shutdowns
    /\ pc[c] = "connect" => /\ mine[c] = rpc
                            /\ rpc \in 1..Len(chans)
                            /\ chans[rpc] = "new"
                            /\ "closed" \notin shutdowns
    /\ "closed" \in shutdowns => rpc \in 1..Len(chans) /\ chans[rpc] = "closed"

(***************************************************************************)
(* With a single host thread, as spec section 5 assumes, connect_span_stream *)
(* never constructs a second StreamingRpc, and once shutdown_span_stream   *)
(* has closed the channel none is open: the self._rpc check of line 55    *)
(* then sees the closed channel and nothing reopens it.                    *)
\* With one host thread c, SingleInv(c) holds in every reachable state.
LEMMA SingleInvariant ==
    ASSUME NEW c, Threads = {c}
    PROVE  Spec => [](TypeOK /\ SingleInv(c))
<1>1. Init => SingleInv(c)
  BY DEF Init, SingleInv
<1>2. TypeOK /\ SingleInv(c) /\ [Next]_vars => SingleInv(c)'
  <2> SUFFICES ASSUME TypeOK, SingleInv(c), [Next]_vars PROVE SingleInv(c)'
    OBVIOUS
  <2>1. CASE CreateSession
    BY <2>1 DEF CreateSession, streamVars, SingleInv
  <2>2. CASE StartConnect(c)
    <3>1. UNCHANGED <<rpc, chans, shutdowns>> /\ pc[c] = "idle"
      BY <2>2 DEF StartConnect
    <3>2. pc'[c] = "create" => rpc = 0
      BY <2>2 DEF StartConnect, TypeOK
    <3>3. pc'[c] # "connect"
      BY <2>2 DEF StartConnect, TypeOK
    <3>4. QED
      BY <3>1, <3>2, <3>3 DEF SingleInv
  <2>3. CASE CreateChannel(c)
    <3>1. rpc = 0 /\ Len(chans) = 0 /\ "closed" \notin shutdowns
      BY <2>3 DEF CreateChannel, SingleInv
    <3>2. chans' = <<"new">> /\ rpc' = 1 /\ mine'[c] = 1 /\ pc'[c] = "connect"
      BY <2>3, <3>1 DEF CreateChannel, TypeOK
    <3>3. UNCHANGED shutdowns
      BY <2>3 DEF CreateChannel
    <3>4. QED
      BY <3>1, <3>2, <3>3 DEF SingleInv
  <2>4. CASE ConnectChannel(c)
    <3>1. rpc \in 1..Len(chans) /\ mine[c] = rpc /\ chans[rpc] = "new"
          /\ "closed" \notin shutdowns
      BY <2>4 DEF ConnectChannel, SingleInv
    <3>2. chans' = [chans EXCEPT ![rpc] = "open"] /\ pc'[c] = "idle"
      BY <2>4, <3>1 DEF ConnectChannel, TypeOK
    <3>3. UNCHANGED <<rpc, shutdowns>>
      BY <2>4 DEF ConnectChannel
    <3>4. QED
      BY <3>1, <3>2, <3>3 DEF SingleInv, TypeOK
  <2>5. CASE ShutdownSpanStream(c)
    <3>1. pc[c] = "idle" /\ UNCHANGED <<rpc, pc>>
      BY <2>5 DEF ShutdownSpanStream
    <3>2. CASE rpc # 0
      <4>1. rpc \in 1..Len(chans)
        BY <3>2 DEF TypeOK
      <4>2. chans' = [chans EXCEPT ![rpc] = "closed"]
        BY <2>5, <3>2 DEF ShutdownSpanStream
      <4>3. QED
        BY <3>1, <4>1, <4>2 DEF SingleInv, TypeOK
    <3>3. CASE rpc = 0
      <4>1. UNCHANGED chans /\ shutdowns' = shutdowns \cup {"absent"}
        BY <2>5, <3>3 DEF ShutdownSpanStream
      <4>2. QED
        BY <3>1, <3>3, <4>1 DEF SingleInv
    <3>4. QED
      BY <3>2, <3>3
  <2>6. CASE \E m \in Methods : SendPayload(m)
    BY <2>6 DEF SendPayload, streamVars, SingleInv
  <2>7. CASE CloseConnection \/ Finalize \/ UNCHANGED vars
    BY <2>7 DEF CloseConnection, Finalize, vars, streamVars, SingleInv
  <2>8. QED
    BY <2>1, <2>2, <2>3, <2>4, <2>5, <2>6, <2>7 DEF Next, Threads
<1>3. QED
  BY <1>1, <1>2, TypeCorrect, PTL DEF Spec

(***************************************************************************)
THEOREM SingleThreadSafe ==
    ASSUME NEW c, Threads = {c}
    PROVE  Spec => [](AtMostOneChannel /\ ShutdownFinal)
<1>1. TypeOK /\ SingleInv(c) => AtMostOneChannel /\ ShutdownFinal
  BY DEF TypeOK, SingleInv, AtMostOneChannel, ShutdownFinal
<1>2. QED
  BY <1>1, SingleInvariant, PTL

(***************************************************************************)
(* With a single host thread the session implements the span-stream       *)
(* lifecycle of spec section 4.2: storing the first StreamingRpc is the   *)
(* Absent-to-Active step, permitted by the session's class and            *)
(* configuration; closing it is the step to Closed; every other operation, *)
(* rpc.connect() included, leaves the abstract stream as it is.            *)
(***************************************************************************)
THEOREM SingleThreadRefinement ==
    ASSUME NEW c, Threads = {c}
    PROVE  Spec => SpanStreamRefinement
<1> DEFINE Inv == TypeOK /\ ModeInv /\ SingleInv(c)
<1>1. Init => Abstract!Init
  BY DEF Init, Abstract!Init, StreamState, StreamPermitted, Settings, Configs,
         Factory, ReachesBaseConnect, TracingEnabled
<1>2. Inv /\ [Next]_vars => [Abstract!Next]_Abstract!vars
  <2> SUFFICES ASSUME Inv, [Next]_vars PROVE [Abstract!Next]_Abstract!vars
    OBVIOUS
  <2>1. UNCHANGED <<settings, config>>
    BY DEF Next, vars, CreateSession, StartConnect, CreateChannel, ConnectChannel,
           ShutdownSpanStream, SendPayload, CloseConnection, Finalize
  <2>2. StreamPermitted' = StreamPermitted
    BY <2>1, PermittedStable
  <2>3. CASE UNCHANGED <<rpc, chans>>
    BY <2>2, <2>3 DEF Abstract!vars, StreamState
  <2>4. CASE CreateChannel(c)
    <3>1. rpc = 0 /\ Len(chans) = 0 /\ StreamPermitted
      BY <2>4 DEF CreateChannel, SingleInv, ModeInv
    <3>2. chans' = <<"new">> /\ rpc' = 1
      BY <2>4, <3>1 DEF CreateChannel, TypeOK
    <3>3. Abstract!Connect
      BY <2>2, <3>1, <3>2 DEF Abstract!Connect, StreamState
    <3>4. QED
      BY <3>3 DEF Abstract!Next
  <2>5. CASE ConnectChannel(c)
    <3>1. rpc \in 1..Len(chans) /\ mine[c] = rpc /\ chans[rpc] = "new"
      BY <2>5 DEF ConnectChannel, SingleInv
    <3>2. chans' = [chans EXCEPT ![rpc] = "open"] /\ UNCHANGED rpc
      BY <2>5, <3>1 DEF ConnectChannel
    <3>3. QED
      BY <2>2, <3>1, <3>2 DEF Abstract!vars, StreamState, TypeOK
  <2>6. CASE ShutdownSpanStream(c) /\ rpc # 0 /\ chans[rpc] # "closed"
    <3>1. rpc \in 1..Len(chans)
      BY <2>6 DEF TypeOK
    <3>2. chans' = [chans EXCEPT ![rpc] = "closed"] /\ UNCHANGED rpc
      BY <2>6 DEF ShutdownSpanStream
    <3>3. Abstract!Shutdown
      BY <2>2, <2>6, <3>1, <3>2 DEF Abstract!Shutdown, StreamState, TypeOK
    <3>4. QED
      BY <3>3 DEF Abstract!Next
  <2>7. CASE ShutdownSpanStream(c) /\ ~(rpc # 0 /\ chans[rpc] # "closed")
    <3>1. UNCHANGED <<rpc, chans>>
      BY <2>7 DEF ShutdownSpanStream, TypeOK
    <3>2. QED
      BY <2>3, <3>1
  <2>8. QED
    <3>1. CreateSession \/ StartConnect(c) \/ (\E m \in Methods : SendPayload(m))
          \/ CloseConnection \/ Finalize => UNCHANGED <<rpc, chans>>
      BY DEF CreateSession, streamVars, StartConnect, SendPayload, CloseConnection,
             Finalize
    <3>2. QED
      BY <2>3, <2>4, <2>5, <2>6, <2>7, <3>1 DEF Next, vars, Threads
<1>3. QED
  <2>1. Spec => []Inv
    BY SingleInvariant, ModeInvariant, PTL
  <2>2. QED
    BY <1>1, <1>2, <2>1, PTL DEF Spec, SpanStreamRefinement, Abstract!Spec

\* A serverless session never asks for agent commands nor sends shutdown,
\* for any number of threads.
COROLLARY ServerlessCorrect == Spec => []ServerlessNoRunRequests
  BY ModeCorrect, PTL

\* With a single host thread the session constructs at most one StreamingRpc.
COROLLARY SingleThreadOneChannel ==
    ASSUME NEW c, Threads = {c}
    PROVE  Spec => []AtMostOneChannel
  BY SingleThreadSafe, PTL

=============================================================================
