---------------------------- MODULE SessionProps ----------------------------
(* What a connection is expected to guarantee, and what it does not. *)
EXTENDS Session

(***************************************************************************)
(* Safety                                                                  *)
(***************************************************************************)

\* close_connection keeps the connection "to ensure that the reason is
\* transmitted" (net.py:659): when the server has closed because of its mark,
\* the client has the reason or will read it, unless it closed its own socket or
\* TCP dropped what it had not read.
ReasonArrives ==
    bye /\ sock["client"] = "open" /\ ~reset["client"] =>
        \/ heard
        \/ \E i \in 1..Len(wire["client"]) : wire["client"][i] = CloseConn
        \/ \E i \in 1..Len(inq["client"]) : inq["client"][i] = CloseConn

\* wait_for_pong returns when _pongdata is there; pingServer then uses what
\* on_pong has left for it, and raises "No answer received" if it has not.
AnsweredHasData == pc.capp = "answered" => data

(***************************************************************************)
(* Refinement                                                              *)
(***************************************************************************)
Abstract == INSTANCE Link WITH
    Names <- DOMAIN ServerIds \cup {"ping", "pong"},
    closed <- {s \in Sides : sock[s] = "closed"}

\* The handshake makes the client establish before the server and gives both the
\* same names for the same packets; then packets arrive in order, each once,
\* however connections end.
ImplementsLink == Abstract!Spec

(***************************************************************************)
(* Liveness under FairSpec                                                 *)
(***************************************************************************)
Ended == \E s \in Sides : sock[s] = "closed"
\* The server's net thread has overlooked a packet (see QueuedIsSent of Server).
Stranded == sock["server"] = "open" /\ writeq # <<>> /\ ~armed /\ pc.snet = "ready"
\* The client has sent something after its close_connection (see Client).
Deaf == sock["client"] = "open" /\ ~interest

\* A handshake with a type the server knows ends: both ends are established, or
\* the connection is over (another version, other packets, a crash).
HandshakeEnds == <>(established = Sides \/ Ended \/ Stranded \/ target \notin types)

\* A ping is answered, however late, unless the connection ends; and once on_pong
\* has run, pingServer returns whatever becomes of the connection.
PingAnswered ==
    /\ target = "ping" /\ match /\ "ping" \in types
           ~> pc.capp \in {"answered", "timedout"} \/ Ended \/ Stranded
    /\ data ~> pc.capp \in {"answered", "timedout"} \/ ~alive["client"]

\* No half of a connection stays behind when the other one is closed.
EndReaches == \A s \in Sides : sock[s] = "closed" ~> sock[Other(s)] = "closed" \/ Deaf

\* close_connection at the server ends the connection even if the net thread
\* misses the mark (see MarkedIsClosed of Server): the client closes, and the
\* server sees it.
MarkedEnds == mark["server"] ~> sock["server"] = "closed" \/ Stranded \/ Deaf

(***************************************************************************)
(* Stated by the documentation, refuted by the code                        *)
(***************************************************************************)

\* "reason is the reason sent either by the peer or passed by the caller"
\* (net.py:830): a client that was told the reason closes because of it, not
\* because of the end of file that follows.
ReasonReported ==
    bye /\ state["client"] = "closed" /\ ~heard =>
        \A i \in 1..Len(inq["client"]) : inq["client"][i] # CloseConn
=============================================================================
