----------------------------- MODULE SpanStream -----------------------------
(***************************************************************************)
(* What a session promises about its span stream (spec 4.2 and 9): the    *)
(* stream goes from Absent to Active at most once, and only when streaming *)
(* is allowed for the session, and from Active to Closed, which is        *)
(* terminal.  Exactly one channel is ever created.                         *)
(***************************************************************************)
EXTENDS Naturals

VARIABLES
    stream,   \* "Absent", "Active" or "Closed"
    created,  \* number of channels created for the session
    allowed   \* whether the session's mode and configuration allow streaming

vars == <<stream, created, allowed>>

Init ==
    /\ stream = "Absent"
    /\ created = 0
    /\ allowed \in BOOLEAN

(***************************************************************************)
(* connect_span_stream creates and stores the channel.                     *)
(***************************************************************************)
Connect ==
    /\ stream = "Absent"
    /\ allowed
    /\ stream' = "Active"
    /\ created' = created + 1
    /\ UNCHANGED allowed

(***************************************************************************)
(* shutdown_span_stream closes the stream.                                 *)
(***************************************************************************)
Shutdown ==
    /\ stream \in {"Absent", "Active"}
    /\ stream' = "Closed"
    /\ UNCHANGED <<created, allowed>>

Next == Connect \/ Shutdown

Spec == Init /\ [][Next]_vars

=============================================================================
