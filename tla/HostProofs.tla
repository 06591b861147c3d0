----------------------------- MODULE HostProofs -----------------------------
(***************************************************************************)
(* Proofs about the session driven by the host: every step of the host is *)
(* a step of the session or leaves it alone, so the theorems of            *)
(* DataCollectorProofs hold of the composition; and with the host's        *)
(* shutdown order the span channel does not outlive the connection.        *)
(***************************************************************************)
EXTENDS Host, DataCollectorProofs

USE DataCollectorAssumption, HostAssumption

(***************************************************************************)
(* The host's shutdown order and its single thread, in one invariant: the  *)
(* host is running until it begins to stop and closes the connection only *)
(* after shutting the stream down, which it does from an idle thread;     *)
(* from then on no connect is under way and no channel is open.           *)
(***************************************************************************)
HostInv(c) ==
    /\ hostPhase \in {"running", "stopping", "stopped"}
    /\ done \subseteq {"session", "stream"}
    /\ hostPhase = "running" => done = {} /\ primary # "closed"
    /\ primary = "closed" => "stream" \in done
    /\ "stream" \in done => /\ hostPhase # "running"
                            /\ pc[c] = "idle"
                            /\ \A i \in DOMAIN chans : chans[i] # "open"

\* Every step of the host is a step of the session or leaves the session's
\* variables alone, so the session's safety theorems hold under the host.
LEMMA HostImplementsSession == HostSpec => Spec
<1>1. Init0 => Init
  BY DEF Init0
<1>2. [HostNext]_allVars => [Next]_vars
  <2> SUFFICES ASSUME [HostNext]_allVars PROVE [Next]_vars
    OBVIOUS
  <2>1. CASE Running
    <3>1. CASE CreateSession \/ Finalize
      BY <3>1 DEF Next
    <3>2. CASE \E t \in Connectors : StartConnect(t)
      BY <3>2 DEF Next, Threads
    <3>3. CASE \E m \in Methods \ {"shutdown_session"} : SendPayload(m)
      BY <3>3 DEF Next
    <3>4. QED
      BY <2>1, <3>1, <3>2, <3>3 DEF Running
  <2>2. CASE \E t \in Threads : InFlight(t)
    BY <2>2 DEF InFlight, Next
  <2>3. CASE StopSession
    BY <2>3 DEF StopSession, Next
  <2>4. CASE StopStream
    BY <2>4 DEF StopStream, Next, Threads
  <2>5. CASE CloseAtExit
    BY <2>5 DEF CloseAtExit, Next
  <2>6. CASE BeginStop \/ UNCHANGED allVars
    BY <2>6 DEF BeginStop, allVars
  <2>7. QED
    BY <2>1, <2>2, <2>3, <2>4, <2>5, <2>6 DEF HostNext
<1>3. QED
  BY <1>1, <1>2, PTL DEF HostSpec, Spec

(***************************************************************************)
(* With one host thread that follows the shutdown order of spec section 5 *)
(* (shutdown_span_stream, then close_connection), the span channel never  *)
(* outlives its auth context: after close_connection no channel is open.   *)
(***************************************************************************)
THEOREM HostShutdownOrder ==
    ASSUME NEW c, Threads = {c}
    PROVE  HostSpec => []ChannelNotOutliveAuth
<1>1. Init0 => HostInv(c)
  BY DEF Init0, Init, HostInv
<1>2. TypeOK /\ SingleInv(c) /\ HostInv(c) /\ [HostNext]_allVars => HostInv(c)'
  <2> SUFFICES ASSUME TypeOK, SingleInv(c), HostInv(c), [HostNext]_allVars
               PROVE  HostInv(c)'
    OBVIOUS
  <2>1. CASE Running
    <3>1. UNCHANGED <<hostPhase, done>> /\ hostPhase = "running" /\ primary' # "closed"
      BY <2>1 DEF Running, hostVars, CreateSession, StartConnect, SendPayload, Finalize, HostInv
    <3>2. QED
      BY <3>1 DEF HostInv
  <2>2. CASE InFlight(c)
    <3>1. UNCHANGED <<hostPhase, done>>
      BY <2>2 DEF InFlight, hostVars
    <3>4. UNCHANGED primary /\ pc[c] \in {"create", "connect"}
      <4>1. CASE CreateChannel(c)
        BY <4>1 DEF CreateChannel
      <4>2. CASE ConnectChannel(c)
        BY <4>2 DEF ConnectChannel
      <4>3. QED
        BY <2>2, <4>1, <4>2 DEF InFlight
    <3>2. QED
      BY <3>1, <3>4 DEF HostInv
  <2>3. CASE BeginStop
    BY <2>3 DEF BeginStop, HostInv, vars
  <2>4. CASE StopSession
    <3>1. UNCHANGED <<hostPhase, primary, pc, chans>> /\ done' = done \cup {"session"}
          /\ hostPhase = "stopping"
      BY <2>4 DEF StopSession, SendPayload, vars, streamVars
    <3>2. QED
      BY <3>1 DEF HostInv
  <2>5. CASE StopStream
    <3>1. hostPhase = "stopping" /\ UNCHANGED <<hostPhase, primary, pc>>
          /\ done' = done \cup {"stream"} /\ pc[c] = "idle"
      BY <2>5 DEF StopStream, ShutdownSpanStream, Threads
    <3>2. \A i \in DOMAIN chans' : chans'[i] # "open"
      <4>0. chans' = IF rpc # 0 THEN [chans EXCEPT ![rpc] = "closed"] ELSE chans
        BY <2>5 DEF StopStream, ShutdownSpanStream
      <4>1. CASE rpc # 0
        <5>1. rpc = 1 /\ Len(chans) = 1 /\ chans \in Seq(ChannelStates)
          BY <4>1 DEF SingleInv, TypeOK
        <5>2. chans' = [chans EXCEPT ![1] = "closed"]
          BY <4>0, <4>1, <5>1
        <5>3. QED
          BY <5>1, <5>2
      <4>2. CASE rpc = 0
        <5>1. Len(chans) = 0 /\ chans \in Seq(ChannelStates)
          BY <4>2 DEF SingleInv, TypeOK
        <5>2. QED
          BY <4>0, <4>2, <5>1
      <4>3. QED
        BY <4>1, <4>2
    <3>3. QED
      BY <3>1, <3>2 DEF HostInv
  <2>6. CASE CloseAtExit
    <3>1. done = {"session", "stream"} /\ UNCHANGED <<pc, chans, done>>
          /\ hostPhase' = "stopped"
      BY <2>6 DEF CloseAtExit, CloseConnection, streamVars
    <3>2. QED
      BY <3>1 DEF HostInv
  <2>7. CASE UNCHANGED allVars
    BY <2>7 DEF allVars, vars, hostVars, HostInv
  <2>8. QED
    BY <2>1, <2>2, <2>3, <2>4, <2>5, <2>6, <2>7 DEF HostNext, Threads
<1>3. HostInv(c) => ChannelNotOutliveAuth
  BY DEF HostInv, ChannelNotOutliveAuth
<1>4. QED
  <2>1. HostSpec => [](TypeOK /\ SingleInv(c))
    BY HostImplementsSession, SingleInvariant
  <2>2. QED
    BY <1>1, <1>2, <1>3, <2>1, PTL DEF HostSpec

=============================================================================
