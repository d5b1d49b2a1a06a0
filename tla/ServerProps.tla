----------------------------- MODULE ServerProps -----------------------------
(* What the server is expected to guarantee, and what it does not. *)
EXTENDS Server

(***************************************************************************)
(* Safety                                                                  *)
(***************************************************************************)

\* While both ends of a connection are open, what has gone out and what is
\* still in write_queue are, in that order, exactly what send_message was
\* given, whichever threads called it; and what went out stays a prefix of it
\* ever after.  (send_message appends, _client_ready pops, without a lock.)
InOrder == \A c \in Conns :
    /\ IsPrefix(wire[c], queued[c])
    /\ sock[c] = "open" /\ PeerUp(c) => wire[c] \o writeQ[c] = queued[c]

\* When the net thread closes a connection because of _mark_close, the peer has
\* been sent closeconn with the reason, unless the connection was lost before.
ReasonBeforeClose == \A c \in Conns :
    At("net", "retire", c) /\ sock[c] = "open" /\ PeerUp(c)
        => Contains(wire[c], "closeconn")

\* The selector only holds open sockets of known connections: a closed socket
\* in it would make select() raise, outside of the try of the main loop.
WatchedIsLive == \A c \in Conns :
    interest[c] # "none" => sock[c] = "open" /\ c \in clients

\* No connection is forgotten behind the application's back: its on_close has
\* been called, by whichever thread closed it.
ForgottenWasNotified == \A c \in Conns :
    sock[c] # "none" /\ c \notin clients => closes[c] > 0

\* With a selector that looks at its sets only when select() is called: if a
\* connection wants to write and the sleeping net thread does not know, a
\* wake-up is on its way (send_message interrupts under the lock, line 618).
WakeupPending == \A c \in Conns :
    pc["net"] = "select" /\ interest[c] = "rw" /\ c \notin watched /\ ~LiveSelector
        => irq > 0 \/ ~LockFree

(***************************************************************************)
(* Refinement: the packets of a connection, seen as an Outbox              *)
(***************************************************************************)
Phase(c) == IF c \in clients THEN "open"
            ELSE IF sock[c] = "none" THEN "absent" ELSE "closed"
Abstract == INSTANCE Outbox WITH
    Msgs <- OutMsgs, phase <- [c \in Conns |-> Phase(c)],
    accepted <- queued, delivered <- wire

\* The server implements Outbox: nothing is accepted or sent for a connection
\* before _accept or after it is forgotten, and delivery is in order.
ImplementsOutbox == Abstract!Spec

(***************************************************************************)
(* Liveness under FairSpec                                                 *)
(***************************************************************************)

\* A connection whose peer went away, however far it was, ends closed and
\* forgotten unless the server is stopped: none leaks, whatever the threads were
\* doing with it.
GoneIsForgotten == \A c \in Conns :
    peer[c] = "gone" ~> (sock[c] = "closed" /\ c \notin clients) \/ ~run

\* stop() ends both threads, also if the net thread sleeps in select().
StopEnds == ~run ~> pc["net"] = "done" /\ pc["proc"] = "done"

(***************************************************************************)
(* Stated by the documentation, refuted by the code                        *)
(***************************************************************************)

\* send_message "sends a message to the specified peer" (net.py:583): what is
\* queued goes out, or the connection ends.
QueuedIsSent == \A c \in Conns :
    writeQ[c] # <<>> ~> writeQ[c] = <<>> \/ ~PeerUp(c) \/ c \notin clients

\* close_connection "closes the connection to the given peer" (net.py:653).
MarkedIsClosed == \A c \in Conns : c \in markClose ~> c \notin clients \/ ~PeerUp(c)

\* STATE_ACTIVE is a "state indicating an active connection" (constants.py:113).
ActiveIsOpen == \A c \in Conns : state[c] = "active" => sock[c] = "open"

\* interrupt() "forces the main loop to iterate once" (net.py:334).
InterruptIterates == irq > 0 ~> pc["net"] \in {"select", "done"}

\* An unknown connection type: "the connection must be aborted"
\* (internal.py:105).
UnknownTypeAborted == \A c \in Conns :
    peer[c] = "mistyped" ~> sock[c] = "closed" \/ peer[c] # "mistyped"

\* shutdown(join=True) with timeout 0 "will block until all clients are
\* disconnected" (net.py:347): no client it marked is left when it stops.
ShutdownWaits == \A a \in Apps :
    pc[a] = "stop" /\ job[a].then = "join" =>
        clients \cap markClose = {}
=============================================================================
