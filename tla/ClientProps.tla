----------------------------- MODULE ClientProps -----------------------------
(* What the client is expected to guarantee, and what it does not. *)
EXTENDS Client

(***************************************************************************)
(* Safety                                                                  *)
(***************************************************************************)

\* What send_message is given goes out in order, each byte once, however many
\* threads send, however short send() is, and whether the sender or the net thread
\* writes the rest: what the kernel took and what is left in _write_buf are what
\* was queued, except while a thread is about to cut off what it has sent.  It is
\* over when two threads have had a copy of _write_buf in hand at once, which
\* nothing in the code prevents (OneWriter says when it does not come to that).
SentInOrder ==
    ~mixed => /\ IsPrefix(wire, queued)
              /\ Up /\ (\A t \in Threads : pc[t] \notin {"cut", "trim"})
                    => wire \o writeBuf = queued

\* If send() takes all it is given (PartialSend = FALSE), the application sends
\* from one thread, after wait_for_connection, and its packet handler does not
\* send: then net, proc and application thread never have a copy of _write_buf in
\* hand at once, although no lock guards it.
OneWriter == ~mixed

\* If send() takes all it is given, an application that calls wait_for_connection
\* before it sends never gets ahead of the handshake: the server has all of accept
\* before the first byte of its packets.
AcceptBeforeUser == \A i \in 1..Len(wire) :
    wire[i][1] = "user" =>
        \A k \in 1..PacketSize : Contains(SubSeq(wire, 1, i), <<"accept", k>>)

\* What send() has left over is never forgotten: while the connection is there, a
\* thread is still at it, or the net thread waits for EVENT_WRITE; also if several
\* threads write and trim at once.  A marked client that has left the selector is
\* beyond help (EofIsAlwaysNoticed).
RestIsWatched ==
    Up /\ writeBuf # <<>> /\ interest = "r" => \E t \in Threads :
        pc[t] \in {"pump", "get", "send", "cut", "trim", "after"}

\* A client is CLOSED only after on_close: whichever thread got there first,
\* the application has been told.
ClosedWasNotified == state = "closed" => closes > 0

(***************************************************************************)
(* Refinement: what the client sends, seen as an Upstream                  *)
(***************************************************************************)
Abstract == INSTANCE Upstream WITH
    Msgs <- OutMsgs, accepted <- queued, delivered <- wire,
    mode <- IF ~Up THEN "lost" ELSE IF mixed THEN "mixed" ELSE "whole"

\* The client implements Upstream, also if send() takes less than it is given: net,
\* proc and application threads together send one stream, nothing of an application
\* that waits for the connection before accept, up to the moment when two threads
\* have had _write_buf in hand at once; they never take back what was sent, and
\* send nothing when the connection is lost.
ImplementsUpstream == Abstract!Spec

(***************************************************************************)
(* Liveness under FairSpec                                                 *)
(***************************************************************************)

\* When the server goes away the client closes its socket, however far the
\* handshake was, whether or not it had asked for the end itself, unless it is
\* stopped, or has sent something after its close_connection: then the socket
\* has left the selector (lines 1279-1283).
EofIsNoticed == ~SrvUp ~> sock = "closed" \/ ~run \/ (markClose /\ interest = "none")

\* The end of the handshake wakes every thread in wait_for_connection: the
\* state is set before the condition is notified.
ConnectedReturns == \A a \in Apps :
    pc[a] = "connecting" /\ state = "active" ~> pc[a] # "connecting"

\* stop() ends both threads, also if the net thread sleeps in select().
StopEnds == ~run ~> pc["net"] = "done" /\ pc["proc"] \in {"done", "dead"}

(***************************************************************************)
(* Stated by the documentation, refuted by the code                        *)
(***************************************************************************)

\* send_message "sends a message to the server" (net.py:1214), and of that
\* pump_write_buffer sends "as much ... as possible" (net.py:1254): what goes out is
\* what was queued, also when two threads write at once.
WireInOrder == IsPrefix(wire, queued)

\* wait_for_close "waits ... for the connection to close" (net.py:1490).
CloseReturns == \A a \in Apps :
    pc[a] = "closing" /\ state = "closed" ~> pc[a] # "closing"

\* close_connection "closes the connection to the server" (net.py:1371), also if
\* something is sent after it.
EofIsAlwaysNoticed == ~SrvUp ~> sock = "closed" \/ ~run

\* wait_for_connection "waits ... for the connection to be established"
\* (net.py:1478).
JoinedIsAccepted == joined # {} => Contains(queued, <<"accept", 1>>)

\* STATE_CLOSED is the "state indicating that the connection has been closed"
\* (constants.py:121): nothing leads out of it.
ClosedStays == [][state = "closed" => state' = "closed"]_state
=============================================================================
