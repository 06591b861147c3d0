-------------------------------- MODULE Host --------------------------------
(***************************************************************************)
(* The session driven by the host agent over one agent run (spec sections *)
(* 2 and 5): the host obtains a session from create_session, retrying    *)
(* while it fails, calls connect_span_stream and the payload methods while *)
(* it runs, and at process end calls shutdown_session and                  *)
(* shutdown_span_stream, in either order, and then close_connection.  The  *)
(* host is not part of this repository; its order is the caller contract  *)
(* of spec section 5.  The session's operations are those of               *)
(* DataCollector, unchanged.                                               *)
(***************************************************************************)
EXTENDS DataCollector

\* The host deregisters its run at process end.
ASSUME HostAssumption == "shutdown_session" \in Methods

VARIABLES
    hostPhase,  \* "running", "stopping" (process end begun) or "stopped"
    done        \* the shutdown calls made so far: "session", "stream"

hostVars == <<hostPhase, done>>
allVars == <<vars, hostVars>>

Init0 == Init /\ hostPhase = "running" /\ done = {}

(***************************************************************************)
(* While the host runs it creates the session, starts the span stream and  *)
(* harvests; shutdown_session is kept for the end of the run.              *)
(***************************************************************************)
Running ==
    /\ hostPhase = "running"
    /\ \/ CreateSession
       \/ \E t \in Connectors : StartConnect(t)
       \/ \E m \in Methods \ {"shutdown_session"} : SendPayload(m)
       \/ Finalize
    /\ UNCHANGED hostVars

(***************************************************************************)
(* A connect_span_stream call under way runs to its end, whatever the host *)
(* does meanwhile.                                                         *)
(***************************************************************************)
InFlight(t) ==
    /\ CreateChannel(t) \/ ConnectChannel(t)
    /\ UNCHANGED hostVars

BeginStop ==
    /\ hostPhase = "running"
    /\ session # NoSession
    /\ hostPhase' = "stopping"
    /\ UNCHANGED <<vars, done>>

(***************************************************************************)
(* shutdown_session: a request in the default and developer sessions, the *)
(* no-op override of ServerlessModeSession (lines 297-299).                *)
(***************************************************************************)
StopSession ==
    /\ hostPhase = "stopping"
    /\ "session" \notin done
    /\ \/ SendPayload("shutdown_session")
       \/ session = "ServerlessModeSession" /\ UNCHANGED vars
    /\ done' = done \cup {"session"}
    /\ UNCHANGED hostPhase

StopStream ==
    /\ hostPhase = "stopping"
    /\ "stream" \notin done
    /\ \E t \in Stoppers : ShutdownSpanStream(t)
    /\ done' = done \cup {"stream"}
    /\ UNCHANGED hostPhase

\* Mutant of CloseAtExit: the connection closed without waiting for the stream.
CloseAtExitEarly ==
    /\ hostPhase = "stopping"
    /\ "session" \in done
    /\ CloseConnection
    /\ hostPhase' = "stopped"
    /\ UNCHANGED done

(***************************************************************************)
(* close_connection comes last (spec section 5: shutdown_span_stream       *)
(* precedes close_connection).                                             *)
(***************************************************************************)
CloseAtExit ==
    /\ hostPhase = "stopping"
    /\ done = {"session", "stream"}
    /\ CloseConnection
    /\ hostPhase' = "stopped"
    /\ UNCHANGED done

HostNext ==
    \/ Running
    \/ \E t \in Threads : InFlight(t)
    \/ BeginStop
    \/ StopSession
    \/ StopStream
    \/ CloseAtExit

HostSpec == Init0 /\ [][HostNext]_allVars

-----------------------------------------------------------------------------
(***************************************************************************)
(* The span channel never outlives its auth context: once close_connection *)
(* has closed the primary protocol, no channel of the session is open.     *)
(* The code does not enforce the order; the host's shutdown sequence must. *)
(***************************************************************************)
ChannelNotOutliveAuth ==
    primary = "closed" => \A i \in DOMAIN chans : chans[i] # "open"

=============================================================================
