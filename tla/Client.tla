------------------------------- MODULE Client -------------------------------
(***************************************************************************)
(* The threads of one connected peng3dnet Client (src/peng3dnet/net.py)    *)
(* and the packet handlers they run (packet/internal.py, conntypes.py).    *)
(*                                                                         *)
(*   "net"   the selector loop of runBlocking: _sock_ready                 *)
(*   "proc"  process_forever: the handlers of received packets             *)
(*   Apps    threads calling send_message, close_connection, stop,         *)
(*           wait_for_connection and wait_for_close                        *)
(*                                                                         *)
(* _write_buf is a bytes object that every sending thread reads and        *)
(* replaces without a lock: each read and each store is a step of its own. *)
(* job[t] holds the packet a thread is sending and the label it returns    *)
(* to.  A packet is its kind; on its way out it is cut into PacketSize     *)
(* pieces, and send() may stop between any two of them.  The selector is   *)
(* epoll: it drops a socket that is closed, and shows a modify() to a      *)
(* waiting select() at once.                                               *)
(***************************************************************************)
EXTENDS Naturals, FiniteSets, SequencesExt

CONSTANTS
    Apps,           \* application threads
    AppOps,         \* what they may call
    Senders,        \* those among them that do more than wait
    HandlerOps,     \* what the application's packet handler may do
    SrvOps,         \* what the server at the other end may send or do
    MaxCalls,       \* bound: calls of the application, by its threads and its handler
    MaxUser,        \* bound: application packets sent by the server
    IrqCap,         \* wake-ups that fit in the interrupt socket pair
    PacketSize,     \* pieces of a packet, as send() may cut it
    PartialSend,    \* may send() take only a part of what it is given?
    WaitFirst       \* do the applications wait for the connection, then send?

Threads == {"net", "proc"} \cup Apps

InMsgs  == {"hello", "badhello", "handshake", "badhandshake", "user", "closeconn"}
OutMsgs == {"settype", "accept", "user", "closeconn"}
States  == {"hellowait", "waittype", "handshake_wait1", "active", "closed"}

ASSUME AppsAssumption == Apps \cap {"net", "proc"} = {} /\ Senders \subseteq Apps
ASSUME OpsAssumption ==
    /\ AppOps \subseteq {"send", "close", "stop", "waitconn", "waitclose", "timeout"}
    /\ HandlerOps \subseteq {"reply", "close", "raise"}
    /\ SrvOps \subseteq InMsgs \cup {"leave"}
ASSUME BoundsAssumption ==
    /\ MaxCalls \in Nat /\ MaxUser \in Nat /\ IrqCap \in Nat \ {0}
    /\ PacketSize \in Nat \ {0}
    /\ PartialSend \in BOOLEAN /\ WaitFirst \in BOOLEAN

VARIABLES
    state,      \* Client.remote_state
    sock,       \* Client.sock: open, closed
    interest,   \* its entry in the selector: none, r or rw
    writeBuf,   \* Client._write_buf, as pieces of packets
    markClose,  \* Client._mark_close
    procQ,      \* Client._process_queue
    irq,        \* wake-ups written to _irqsend and not read yet
    run,        \* Client.run
    ready,      \* events of the current round of the net thread
    pc, job,    \* where each thread is, and with which arguments
    held,       \* the copy of _write_buf a thread has in hand
    taken,      \* how much of it send() took (bytes_sent)
    joined,     \* threads whose wait_for_connection has returned
    calls,      \* calls made by the application so far
    srv,        \* the server at the other end
    inbound,    \* packets on their way from it
    srvUser,    \* how many application packets it has sent
    queued,     \* history: what send_message appended to writeBuf
    wire,       \* history: what the kernel took with the server there
    mixed,      \* history: have two threads had a copy of writeBuf in hand at once?
    closes      \* history: calls of on_close

connVars == <<state, sock, interest, markClose, closes>>
bufVars  == <<writeBuf, held, taken, queued, wire, mixed>>
loopVars == <<procQ, irq, run, ready>>
appVars  == <<joined, calls>>
srvVars  == <<srv, inbound, srvUser>>
dataVars == <<connVars, bufVars, loopVars, appVars, srvVars>>
vars     == <<dataVars, pc, job>>

-----------------------------------------------------------------------------
(* Program counters and calls *)

SendLabels  == {"load", "store", "pump", "get", "send", "cut", "trim", "after",
                "wake", "quit", "bye", "mark"}
CloseLabels == {"cnotify", "shut", "unreg", "onclose", "setclosed"}
ProcLabels  == {"top", "draining", "typed", "inited", "accepting", "markaccept",
                "accepted", "announce", "dead"}
AppLabels   == {"idle", "connecting", "closing", "stop", "poke"}
Labels == SendLabels \cup CloseLabels \cup ProcLabels \cup AppLabels
          \cup {"loop", "select", "done"}

Jobs  == [msg : OutMsgs \cup {"none"},
          then : {"home", "mark", "typed", "markaccept", "accepted", "pump"}]
NoJob == [msg |-> "none", then |-> "home"]

Home(t) == IF t = "net" THEN "loop" ELSE IF t = "proc" THEN "draining" ELSE "idle"

Goto(t, label) == pc' = [pc EXCEPT ![t] = label] /\ UNCHANGED job
Call(t, label, msg, then) ==
    /\ pc' = [pc EXCEPT ![t] = label]
    /\ job' = [job EXCEPT ![t] = [msg |-> msg, then |-> then]]
Leave(t) == Call(t, Home(t), "none", "home")
\* The return of a method; also of pump_write_buffer when it raises.
Return(t) == IF job[t].then = "home" THEN Leave(t)
             ELSE Call(t, job[t].then, job[t].msg, "home")

\* close_connection sends first, and sets the mark when that is done.
CallClose(t) == Call(t, "load", "closeconn", "mark")

SrvUp == srv \notin {"reset", "gone"}

\* The connection is there: once it is not, nothing reaches the wire any more.
Up == sock = "open" /\ SrvUp

-----------------------------------------------------------------------------
(* The bytes of a packet *)

OutPieces == OutMsgs \X (1..PacketSize)
Pieces(m) == [i \in 1..PacketSize |-> <<m, i>>]

\* The server has the packet m, whole.
Arrived(m) == \E i \in 0..Len(wire) - PacketSize :
    SubSeq(wire, i + 1, i + PacketSize) = Pieces(m)

-----------------------------------------------------------------------------
Init ==
    /\ state = "hellowait" /\ sock = "open" /\ interest = "r"
    /\ markClose = FALSE /\ closes = 0
    /\ writeBuf = <<>> /\ queued = <<>> /\ wire = <<>> /\ mixed = FALSE
    /\ held = [t \in Threads |-> <<>>] /\ taken = [t \in Threads |-> 0]
    /\ procQ = <<>> /\ irq = 0 /\ run = TRUE /\ ready = {}
    /\ pc = [t \in Threads |-> IF t = "net" THEN "loop"
                             ELSE IF t = "proc" THEN "top" ELSE "idle"]
    /\ job = [t \in Threads |-> NoJob]
    /\ joined = {} /\ calls = 0
    /\ srv = "new" /\ inbound = <<>> /\ srvUser = 0

-----------------------------------------------------------------------------
(* send_message: the buffer is loaded, and stored with the packet behind it *)

\* From the load of _write_buf to the store that depends on it.
Holding(t) == pc[t] \in {"store", "send", "cut", "trim"}

\* Thread t takes a copy, and another thread of the connection may have one.
TakeCopy(t) ==
    /\ held' = [held EXCEPT ![t] = writeBuf]
    /\ mixed' = (mixed \/ (Up /\ \E u \in Threads \ {t} : Holding(u)))
    /\ UNCHANGED <<writeBuf, taken, queued, wire>>

Load(t) ==
    /\ pc[t] = "load"
    /\ TakeCopy(t)
    /\ Goto(t, "store")
    /\ UNCHANGED <<connVars, loopVars, appVars, srvVars>>

Store(t) ==
    /\ pc[t] = "store"
    /\ writeBuf' = held[t] \o Pieces(job[t].msg)
    /\ queued' = queued \o Pieces(job[t].msg)
    /\ held' = [held EXCEPT ![t] = <<>>]
    /\ Goto(t, "pump")
    /\ UNCHANGED <<connVars, loopVars, appVars, srvVars, taken, wire, mixed>>

(* pump_write_buffer: run by every sender, and by the net thread *)

Pump(t) ==
    /\ pc[t] = "pump"
    /\ IF writeBuf = <<>> THEN Return(t) ELSE Goto(t, "get")
    /\ UNCHANGED dataVars

Get(t) ==
    /\ pc[t] = "get"
    /\ TakeCopy(t)
    /\ Goto(t, "send")
    /\ UNCHANGED <<connVars, loopVars, appVars, srvVars>>

\* How much of a buffer the kernel may take: all of it or, as the return value
\* of send() says, any part that is not empty.
Portions(buf) == IF PartialSend /\ buf # <<>> THEN 1..Len(buf) ELSE {Len(buf)}

\* self.sock.send(): raises on a closed socket, and may raise once the server
\* is gone; until it does the kernel takes the data to nowhere.
Send(t) ==
    /\ pc[t] = "send"
    /\ held' = [held EXCEPT ![t] = <<>>]
    /\ \/ /\ sock = "open"
          /\ \E n \in Portions(held[t]) :
                /\ taken' = [taken EXCEPT ![t] = n]
                /\ wire' = IF SrvUp THEN wire \o SubSeq(held[t], 1, n) ELSE wire
          /\ Goto(t, "cut")
       \/ /\ sock = "closed" \/ ~SrvUp
          /\ Return(t)
          /\ UNCHANGED <<taken, wire>>
    /\ UNCHANGED <<connVars, loopVars, appVars, srvVars, writeBuf, queued, mixed>>

\* Mutant: one piece too few is cut off.
CutShort(t) ==
    /\ pc[t] = "cut"
    /\ held' = [held EXCEPT ![t] = SubSeq(writeBuf, taken[t], Len(writeBuf))]
    /\ taken' = [taken EXCEPT ![t] = 0]
    /\ Goto(t, "trim")
    /\ UNCHANGED <<connVars, loopVars, appVars, srvVars, writeBuf, queued, wire, mixed>>

\* self._write_buf = self._write_buf[bytes_sent:], loaded ...
Cut(t) ==
    /\ pc[t] = "cut"
    /\ held' = [held EXCEPT ![t] = SubSeq(writeBuf, taken[t] + 1, Len(writeBuf))]
    /\ taken' = [taken EXCEPT ![t] = 0]
    /\ Goto(t, "trim")
    /\ UNCHANGED <<connVars, loopVars, appVars, srvVars, writeBuf, queued, wire, mixed>>

\* ... and stored.
Trim(t) ==
    /\ pc[t] = "trim"
    /\ writeBuf' = held[t]
    /\ held' = [held EXCEPT ![t] = <<>>]
    /\ Goto(t, "after")
    /\ UNCHANGED <<connVars, loopVars, appVars, srvVars, taken, queued, wire, mixed>>

\* Mutant: a rest is kept, but EVENT_WRITE is not asked for.
AfterSilent(t) ==
    /\ pc[t] = "after"
    /\ IF writeBuf = <<>> /\ markClose THEN Goto(t, "quit") ELSE Return(t)
    /\ UNCHANGED <<bufVars, loopVars, appVars, srvVars, connVars>>

\* All sent: closing, if marked.  Not all: EVENT_WRITE is asked for, and never
\* taken back.  get_key() raises when the socket is no longer registered, and
\* modify() drops a closed one.
After(t) ==
    /\ pc[t] = "after"
    /\ IF writeBuf = <<>>
       THEN /\ IF markClose THEN Goto(t, "quit") ELSE Return(t)
            /\ UNCHANGED interest
       ELSE /\ IF interest = "r" /\ sock = "open" THEN Goto(t, "wake") ELSE Return(t)
            /\ interest' = IF interest # "r" THEN interest
                           ELSE IF sock = "open" THEN "rw" ELSE "none"
    /\ UNCHANGED <<bufVars, loopVars, appVars, srvVars, state, sock, markClose, closes>>

Wake(t) ==
    /\ pc[t] = "wake" /\ irq < IrqCap
    /\ irq' = irq + 1
    /\ Return(t)
    /\ UNCHANGED <<connVars, bufVars, appVars, srvVars, procQ, run, ready>>

\* A marked client leaves the selector (KeyError if it has) ...
Quit(t) ==
    /\ pc[t] = "quit"
    /\ interest' = "none"
    /\ IF interest = "none" THEN Return(t) ELSE Goto(t, "bye")
    /\ UNCHANGED <<bufVars, loopVars, appVars, srvVars, state, sock, markClose, closes>>

\* ... and calls on_close; the socket and the state stay as they are.
Bye(t) ==
    /\ pc[t] = "bye"
    /\ closes' = closes + 1
    /\ Return(t)
    /\ UNCHANGED <<bufVars, loopVars, appVars, srvVars, state, sock, interest, markClose>>

\* The end of close_connection.
Mark(t) ==
    /\ pc[t] = "mark"
    /\ markClose' = TRUE
    /\ Leave(t)
    /\ UNCHANGED <<bufVars, loopVars, appVars, srvVars, state, sock, interest, closes>>

-----------------------------------------------------------------------------
(* close: by the net thread at end of file, by the proc thread for closeconn *)

\* notify_all wakes the threads asleep at label asleep; thread t goes on.
Notify(t, asleep, next) ==
    pc' = [x \in Threads |-> IF x = t THEN next
                             ELSE IF pc[x] = asleep THEN "idle" ELSE pc[x]]

CloseNotify(t) ==
    /\ pc[t] = "cnotify"
    /\ Notify(t, "closing", "shut")
    /\ UNCHANGED <<dataVars, job>>

CloseSocket(t) ==
    /\ pc[t] = "shut"
    /\ sock' = "closed"
    /\ Goto(t, "unreg")
    /\ UNCHANGED <<bufVars, loopVars, appVars, srvVars, state, interest, markClose, closes>>

CloseUnregister(t) ==
    /\ pc[t] = "unreg"
    /\ interest' = "none"
    /\ Goto(t, "onclose")
    /\ UNCHANGED <<bufVars, loopVars, appVars, srvVars, state, sock, markClose, closes>>

\* Mutant: on_close is only called for an active connection.
CloseCallbackActive(t) ==
    /\ pc[t] = "onclose"
    /\ closes' = IF state = "active" THEN closes + 1 ELSE closes
    /\ Goto(t, "setclosed")
    /\ UNCHANGED <<bufVars, loopVars, appVars, srvVars, state, sock, interest, markClose>>

CloseCallback(t) ==
    /\ pc[t] = "onclose"
    /\ closes' = IF state = "closed" THEN closes ELSE closes + 1
    /\ Goto(t, "setclosed")
    /\ UNCHANGED <<bufVars, loopVars, appVars, srvVars, state, sock, interest, markClose>>

CloseSetState(t) ==
    /\ pc[t] = "setclosed"
    /\ state' = "closed"
    /\ Return(t)
    /\ UNCHANGED <<bufVars, loopVars, appVars, srvVars, sock, interest, markClose, closes>>

-----------------------------------------------------------------------------
(* The net thread: runBlocking and _sock_ready *)

LoopHead ==
    /\ pc["net"] = "loop" /\ ready = {}
    /\ Goto("net", IF run THEN "select" ELSE "done")
    /\ UNCHANGED dataVars

Events == {e \in {"irq", "in", "out"} :
    \/ e = "irq" /\ irq > 0
    \/ e = "in" /\ sock = "open" /\ interest # "none" /\ (inbound # <<>> \/ ~SrvUp)
    \/ e = "out" /\ sock = "open" /\ interest = "rw"}

SelectReturn ==
    /\ pc["net"] = "select" /\ Events # {}
    /\ ready' = Events
    /\ Goto("net", "loop")
    /\ UNCHANGED <<connVars, bufVars, appVars, srvVars, procQ, irq, run>>

\* Mutant: the event is handled, and the socket read, once more.
ReadIrqAgain ==
    /\ pc["net"] = "loop" /\ "irq" \in ready
    /\ UNCHANGED ready
    /\ irq' = irq - 1
    /\ UNCHANGED <<connVars, bufVars, appVars, srvVars, procQ, run, pc, job>>

ReadIrq ==
    /\ pc["net"] = "loop" /\ "irq" \in ready
    /\ ready' = ready \ {"irq"}
    /\ irq' = irq - 1
    /\ UNCHANGED <<connVars, bufVars, appVars, srvVars, procQ, run, pc, job>>

Taken == ready' = ready \ {"in", "out"}
AfterRead == IF "out" \in ready THEN "pump" ELSE "home"

Receive ==
    /\ pc["net"] = "loop" /\ "in" \in ready /\ sock = "open" /\ inbound # <<>>
    /\ \E n \in 1..Len(inbound) :
          /\ inbound' = SubSeq(inbound, n + 1, Len(inbound))
          /\ procQ' = procQ \o SubSeq(inbound, 1, n)
    /\ Taken
    /\ IF "out" \in ready THEN Call("net", "pump", "none", "home")
                          ELSE UNCHANGED <<pc, job>>
    /\ UNCHANGED <<connVars, bufVars, appVars, irq, run, srv, srvUser>>

\* recv raises on a socket the proc thread has closed: the event is over.
ReceiveError ==
    /\ pc["net"] = "loop" /\ "in" \in ready /\ sock = "closed"
    /\ Taken
    /\ UNCHANGED <<connVars, bufVars, appVars, srvVars, procQ, irq, run, pc, job>>

\* recv raises, once, because the server has reset the connection; nothing
\* catches it in _sock_ready, and the next round reads the end of file.
ReceiveReset ==
    /\ pc["net"] = "loop" /\ "in" \in ready
    /\ sock = "open" /\ srv = "reset"
    /\ srv' = "gone"
    /\ Taken
    /\ UNCHANGED <<connVars, bufVars, appVars, procQ, irq, run, pc, job, inbound,
                   srvUser>>

\* Mutant: an end of file is only noticed once the handshake is complete.
ReceiveEofActive ==
    /\ pc["net"] = "loop" /\ "in" \in ready
    /\ sock = "open" /\ inbound = <<>> /\ srv = "gone"
    /\ Taken
    /\ IF state = "active" THEN Call("net", "cnotify", "none", AfterRead)
                           ELSE UNCHANGED <<pc, job>>
    /\ UNCHANGED <<connVars, bufVars, appVars, srvVars, procQ, irq, run>>

\* recv returns nothing: self.close("socketclose").
ReceiveEof ==
    /\ pc["net"] = "loop" /\ "in" \in ready
    /\ sock = "open" /\ inbound = <<>> /\ srv = "gone"
    /\ Taken
    /\ Call("net", "cnotify", "none", AfterRead)
    /\ UNCHANGED <<connVars, bufVars, appVars, srvVars, procQ, irq, run>>

OnlyWrite ==
    /\ pc["net"] = "loop" /\ "out" \in ready /\ "in" \notin ready
    /\ Taken
    /\ Call("net", "pump", "none", "home")
    /\ UNCHANGED <<connVars, bufVars, appVars, srvVars, procQ, irq, run>>

-----------------------------------------------------------------------------
(* The proc thread: process_forever, process and the packet handlers *)

\* A round that finds nothing is left out of runs that never clear self.run.
ProcRound ==
    /\ \/ pc["proc"] = "top" /\ Goto("proc", IF run THEN "draining" ELSE "done")
       \/ /\ pc["proc"] = "draining" /\ procQ = <<>> /\ "stop" \in AppOps
          /\ Goto("proc", "top")
    /\ UNCHANGED dataVars

Taking(m) ==
    /\ pc["proc"] = "draining" /\ procQ # <<>> /\ Head(procQ) = m
    /\ procQ' = Tail(procQ)
    /\ UNCHANGED <<connVars, bufVars, srvVars, irq, run, ready, joined>>

\* HelloPacket, state HELLOWAIT only: settype is sent, or the protocol
\* versions differ.
TakeHello ==
    /\ \/ /\ Taking("hello")
          /\ IF state = "hellowait" THEN Call("proc", "load", "settype", "typed")
                                    ELSE Leave("proc")
       \/ /\ Taking("badhello")
          /\ IF state = "hellowait" THEN CallClose("proc") ELSE Leave("proc")
    /\ UNCHANGED calls

\* Then the state moves on twice, whatever it has become meanwhile.
Typed ==
    /\ pc["proc"] = "typed"
    /\ state' = "waittype"
    /\ Goto("proc", "inited")
    /\ UNCHANGED <<bufVars, loopVars, appVars, srvVars, sock, interest, markClose, closes>>
Inited ==
    /\ pc["proc"] = "inited"
    /\ state' = "handshake_wait1"
    /\ Leave("proc")
    /\ UNCHANGED <<bufVars, loopVars, appVars, srvVars, sock, interest, markClose, closes>>

\* HandshakePacket: closes in every other state than HANDSHAKE_WAIT1, and when
\* the versions or the registries do not match.
TakeHandshake ==
    /\ \/ /\ Taking("handshake")
          /\ IF state = "handshake_wait1" THEN Goto("proc", "accepting")
                                          ELSE CallClose("proc")
       \/ Taking("badhandshake") /\ CallClose("proc")
    /\ UNCHANGED calls

\* Sending accept looks at the state again (SmartPacket._send): if it is not
\* HANDSHAKE_WAIT1 any more, closeconn goes out first, and accept all the same.
Accepting ==
    /\ pc["proc"] = "accepting"
    /\ IF state = "handshake_wait1" THEN Call("proc", "load", "accept", "accepted")
       ELSE Call("proc", "load", "closeconn", "markaccept")
    /\ UNCHANGED dataVars
MarkAccept ==
    /\ pc["proc"] = "markaccept"
    /\ markClose' = TRUE
    /\ Call("proc", "load", "accept", "accepted")
    /\ UNCHANGED <<bufVars, loopVars, appVars, srvVars, state, sock, interest, closes>>

\* on_handshake_complete ...
Accepted ==
    /\ pc["proc"] = "accepted"
    /\ state' = "active"
    /\ Goto("proc", "announce")
    /\ UNCHANGED <<bufVars, loopVars, appVars, srvVars, sock, interest, markClose, closes>>

Sleepers(label) == {a \in Apps : pc[a] = label}

\* Mutant: one waiting thread is notified, not all.
AnnounceOne ==
    /\ pc["proc"] = "announce"
    /\ \E a \in Sleepers("connecting") \cup {"proc"} :
          /\ a = "proc" => Sleepers("connecting") = {}
          /\ joined' = joined \cup ({a} \cap Apps)
          /\ pc' = [x \in Threads |-> IF x = "proc" THEN "draining"
                                      ELSE IF x = a THEN "idle" ELSE pc[x]]
    /\ UNCHANGED <<connVars, bufVars, loopVars, srvVars, calls, job>>

\* ... and then whoever waits for the connection is woken.
Announce ==
    /\ pc["proc"] = "announce"
    /\ Notify("proc", "connecting", "draining")
    /\ joined' = joined \cup Sleepers("connecting")
    /\ UNCHANGED <<connVars, bufVars, loopVars, srvVars, calls, job>>

\* A SmartPacket of the application (state ACTIVE).  An exception of the
\* handler is not caught: it ends the thread.
TakeUser ==
    /\ Taking("user")
    /\ \/ /\ state = "active" /\ calls < MaxCalls /\ calls' = calls + 1
          /\ \/ "reply" \in HandlerOps /\ Call("proc", "load", "user", "home")
             \/ "close" \in HandlerOps /\ CallClose("proc")
       \/ /\ \/ state = "active" /\ "raise" \in HandlerOps /\ Goto("proc", "dead")
             \/ Leave("proc")
          /\ UNCHANGED calls

\* CloseConnectionPacket
TakeCloseConn ==
    /\ Taking("closeconn") /\ Call("proc", "cnotify", "none", "home")
    /\ UNCHANGED calls

-----------------------------------------------------------------------------
(* Application threads *)

Calling(a, op) == /\ pc[a] = "idle" /\ op \in AppOps /\ calls < MaxCalls
                  /\ a \in Senders \/ op \in {"waitconn", "waitclose"}
                  /\ calls' = calls + 1

AppCall(a) ==
    /\ \/ /\ Calling(a, "send") /\ (WaitFirst => a \in joined)
          /\ Call(a, "load", "user", "home")
       \/ /\ Calling(a, "close") /\ (WaitFirst => a \in joined)
          /\ CallClose(a)
       \/ /\ Calling(a, "stop")
          /\ Call(a, "stop", "none", "home")
    /\ UNCHANGED <<connVars, bufVars, loopVars, srvVars, joined>>

\* Mutant: only the handshake being under way is waited for.
WaitStartedConnection(a) ==
    /\ Calling(a, "waitconn")
    /\ IF state # "hellowait"
       THEN joined' = joined \cup {a} /\ UNCHANGED <<pc, job>>
       ELSE Goto(a, "connecting") /\ UNCHANGED joined
    /\ UNCHANGED <<connVars, bufVars, loopVars, srvVars>>

\* remote_state >= STATE_ACTIVE: CLOSED is the greatest of the states.
WaitForConnection(a) ==
    /\ Calling(a, "waitconn")
    /\ IF state \in {"active", "closed"}
       THEN joined' = joined \cup {a} /\ UNCHANGED <<pc, job>>
       ELSE Goto(a, "connecting") /\ UNCHANGED joined
    /\ UNCHANGED <<connVars, bufVars, loopVars, srvVars>>

WaitForClose(a) ==
    /\ Calling(a, "waitclose")
    /\ IF state = "closed" THEN UNCHANGED <<pc, job>> ELSE Goto(a, "closing")
    /\ UNCHANGED <<connVars, bufVars, loopVars, srvVars, joined>>

\* A wait that ends by its timeout raises TimedOutError.
WaitTimesOut(a) ==
    /\ pc[a] \in {"connecting", "closing"} /\ "timeout" \in AppOps
    /\ Leave(a)
    /\ UNCHANGED dataVars

Stop(a) ==
    /\ pc[a] = "stop"
    /\ run' = FALSE
    /\ Goto(a, "poke")
    /\ UNCHANGED <<connVars, bufVars, appVars, srvVars, procQ, irq, ready>>

\* Mutant: the wake-up is not written.
PokeSilent(a) ==
    /\ pc[a] = "poke" /\ irq < IrqCap
    /\ UNCHANGED irq
    /\ Return(a)
    /\ UNCHANGED <<connVars, bufVars, appVars, srvVars, procQ, run, ready>>

Poke(a) ==
    /\ pc[a] = "poke" /\ irq < IrqCap
    /\ irq' = irq + 1
    /\ Return(a)
    /\ UNCHANGED <<connVars, bufVars, appVars, srvVars, procQ, run, ready>>

-----------------------------------------------------------------------------
(* The server at the other end *)

SrvMaySend(m) ==
    \/ m \in {"hello", "badhello"} /\ srv = "new"
    \/ m \in {"handshake", "badhandshake"} /\ srv = "greeted"
       /\ Arrived("settype")
    \/ m = "user" /\ srv = "shaken" /\ Arrived("accept") /\ srvUser < MaxUser
    \/ m = "closeconn" /\ SrvUp /\ srv # "leaving"

SrvPhaseAfter(m) == IF m = "user" THEN srv
    ELSE [hello |-> "greeted", badhello |-> "greeted", handshake |-> "shaken",
          badhandshake |-> "shaken", closeconn |-> "leaving"][m]

SrvSend(m) ==
    /\ SrvMaySend(m)
    /\ inbound' = Append(inbound, m)
    /\ srv' = SrvPhaseAfter(m)
    /\ srvUser' = IF m = "user" THEN srvUser + 1 ELSE srvUser
    /\ UNCHANGED <<connVars, bufVars, loopVars, appVars, pc, job>>

\* It closes its end after a closeconn of either side, or whenever it likes; a
\* reset takes with it what the client has not read.
SrvLeave ==
    /\ SrvUp
    /\ \/ /\ "leave" \in SrvOps \/ srv = "leaving" \/ Arrived("closeconn")
          /\ srv' = "gone"
          /\ UNCHANGED inbound
       \/ /\ "leave" \in SrvOps
          /\ srv' = "reset"
          /\ inbound' = <<>>
    /\ UNCHANGED <<connVars, bufVars, loopVars, appVars, pc, job, srvUser>>

-----------------------------------------------------------------------------
SendStep(t) ==
    \/ Load(t) \/ Store(t) \/ Pump(t) \/ Get(t) \/ Send(t) \/ Cut(t) \/ Trim(t)
    \/ After(t) \/ Wake(t) \/ Quit(t) \/ Bye(t) \/ Mark(t)
CloseStep(t) ==
    \/ CloseNotify(t) \/ CloseSocket(t) \/ CloseUnregister(t)
    \/ CloseCallback(t) \/ CloseSetState(t)

NetStep ==
    \/ LoopHead \/ SelectReturn \/ ReadIrq \/ Receive \/ ReceiveError
    \/ ReceiveEof \/ ReceiveReset \/ OnlyWrite \/ SendStep("net") \/ CloseStep("net")
ProcStep ==
    \/ ProcRound \/ TakeHello \/ Typed \/ Inited \/ TakeHandshake \/ Accepting
    \/ MarkAccept \/ Accepted \/ Announce \/ TakeUser \/ TakeCloseConn
    \/ SendStep("proc") \/ CloseStep("proc")
AppStep(a) == Stop(a) \/ Poke(a) \/ SendStep(a)
SrvStep == SrvLeave \/ \E m \in SrvOps \cap InMsgs : SrvSend(m)

Next ==
    \/ NetStep \/ ProcStep \/ SrvStep
    \/ \E a \in Apps : AppStep(a) \/ AppCall(a) \/ WaitForConnection(a)
                       \/ WaitForClose(a) \/ WaitTimesOut(a)

Spec == Init /\ [][Next]_vars

\* The threads run; nothing is owed by the server.
Fairness == /\ WF_vars(NetStep) /\ WF_vars(ProcStep)
            /\ \A a \in Apps : WF_vars(AppStep(a))
FairSpec == Spec /\ Fairness

-----------------------------------------------------------------------------
ConnTypes ==
    /\ state \in States
    /\ sock \in {"open", "closed"}
    /\ interest \in {"none", "r", "rw"}
    /\ markClose \in BOOLEAN
    /\ closes \in Nat
BufTypes ==
    /\ writeBuf \in Seq(OutPieces) /\ queued \in Seq(OutPieces) /\ wire \in Seq(OutPieces)
    /\ held \in [Threads -> Seq(OutPieces)]
    /\ taken \in [Threads -> Nat]
    /\ mixed \in BOOLEAN
LoopTypes ==
    /\ procQ \in Seq(InMsgs)
    /\ irq \in 0..IrqCap /\ run \in BOOLEAN
    /\ ready \subseteq {"irq", "in", "out"}
ThreadTypes ==
    /\ pc \in [Threads -> Labels] /\ job \in [Threads -> Jobs]
    /\ joined \subseteq Apps /\ calls \in 0..MaxCalls
SrvTypes ==
    /\ srv \in {"new", "greeted", "shaken", "leaving", "reset", "gone"}
    /\ inbound \in Seq(InMsgs) /\ srvUser \in 0..MaxUser

\* Every variable has the type its comment says.
TypeOK == ConnTypes /\ BufTypes /\ LoopTypes /\ ThreadTypes /\ SrvTypes
=============================================================================
