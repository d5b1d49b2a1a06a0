------------------------------- MODULE Server -------------------------------
(***************************************************************************)
(* The threads of one peng3dnet Server (src/peng3dnet/net.py) and the      *)
(* packet handlers they run (packet/internal.py, conntypes.py).            *)
(*                                                                         *)
(*   "net"   the selector loop of runBlocking: _accept, _client_ready      *)
(*   "proc"  process_forever: the handlers of received packets             *)
(*   Apps    threads of the application calling send_message,              *)
(*           close_connection, shutdown, stop and interrupt                *)
(*                                                                         *)
(* One action is one step between two points where another thread can get  *)
(* in: a shared read, a shared write, or a block under _selector_lock.  A  *)
(* method used by several threads (send_message, ClientOnServer.close) is  *)
(* a chain of labels; job[t] holds its arguments and what comes after it.  *)
(* An exception ends the chain: the net loop, process() and shutdown() all *)
(* swallow it and go on (lines 301, 711, 359).                             *)
(*                                                                         *)
(* A packet is its kind; a read delivers whole packets (the split into     *)
(* packets is module Framing).  The peers at the other end are the         *)
(* environment.                                                            *)
(***************************************************************************)
EXTENDS Naturals, FiniteSets, SequencesExt

CONSTANTS
    Conns,          \* the connections that may ever be made; also their cids
    Apps,           \* application threads
    AppOps,         \* what they may call
    HandlerOps,     \* what the application's packet handler may do
    PeerOps,        \* what the peers may do once they are connected
    MaxCalls,       \* bound: calls made by all application threads together
    MaxUser,        \* bound: application packets sent by one peer
    IrqCap,         \* wake-ups that fit in the interrupt socket pair
    SendMayBlock,   \* can sendall() fail half way on the non-blocking socket?
    LiveSelector,   \* TRUE: epoll, a waiting select() sees modify() at once
    JoinTimesOut,   \* can the waits of shutdown() end by their timeout?
    NoConn          \* no connection

Threads == {"net", "proc"} \cup Apps

InMsgs  == {"settype", "othertype", "accept", "user", "closeconn"}
OutMsgs == {"hello", "handshake", "user", "closeconn"}

PeerPhases == {"away", "connected", "typed", "mistyped", "accepted", "leaving",
               "gone"}

ASSUME AppsAssumption == Apps \cap {"net", "proc", "none"} = {}
ASSUME NoConnAssumption == NoConn \notin Conns
ASSUME OpsAssumption ==
    /\ AppOps \subseteq {"send", "close", "shutdown", "stop", "interrupt"}
    /\ HandlerOps \subseteq {"reply", "close"}
    /\ PeerOps \subseteq InMsgs \cup {"leave"}
ASSUME BoundsAssumption ==
    /\ MaxCalls \in Nat /\ MaxUser \in Nat /\ IrqCap \in Nat \ {0}
    /\ SendMayBlock \in BOOLEAN /\ LiveSelector \in BOOLEAN
    /\ JoinTimesOut \in BOOLEAN

VARIABLES
    clients,    \* Server.clients, the cids in it
    sock,       \* the connection's socket: none (not accepted), open, closed
    interest,   \* its entry in the selector: none, r or rw
    writeQ,     \* ClientOnServer.write_queue
    markClose,  \* the cids whose ClientOnServer._mark_close is set
    state,      \* ClientOnServer.state
    conntype,   \* ClientOnServer.conntype
    procQ,      \* Server._process_queue
    lock,       \* who blocks inside _selector_lock, or "none"
    irq,        \* wake-ups written to _irqsend and not read yet
    run,        \* Server.run
    watched,    \* connections a select()-style selector waits to write to
    readySys,   \* events of the current round: "irq", "listen"
    ready,      \* events of the current round per connection: "in", "out"
    pc, job,    \* where each thread is, and with which arguments
    todo,       \* per application thread: cids shutdown() has still to close
    shutting,   \* application threads inside the loop of shutdown()
    calls,      \* calls made by the application so far
    peer,       \* how far the other end has come
    inbound,    \* packets on their way from it
    userSent,   \* how many application packets it has sent
    queued,     \* history: packets ever appended to writeQ
    wire,       \* history: packets handed to the kernel with the peer there
    closes      \* history: calls of ClientOnServer.on_close

tableVars == <<clients, sock, interest>>
queueVars == <<writeQ, queued, wire, procQ>>
connVars  == <<state, conntype, closes, markClose>>
selVars   == <<watched, readySys, ready>>
loopVars  == <<lock, irq, run, selVars>>
appVars   == <<todo, shutting, calls>>
peerVars  == <<peer, inbound, userSent>>
envVars   == <<appVars, peerVars>>
dataVars  == <<tableVars, queueVars, connVars, loopVars, envVars>>
vars      == <<dataVars, pc, job>>

-----------------------------------------------------------------------------
(* Program counters and calls *)

States == {"none", "init", "hellowait", "waittype", "handshake_wait1",
           "active", "closed"}
SendLabels  == {"append", "watch", "wake", "sent", "hellosent", "mark"}
CloseLabels == {"notify", "setclosed", "unregister", "shut", "forget"}
NetLabels   == {"loop", "select", "register", "eof", "write", "drained",
                "clear", "check", "retire", "done"}
ProcLabels  == {"top", "draining", "settype", "complete", "done"}
AppLabels   == {"idle", "shutdown", "await", "stop", "poke", "join",
                "joined"}
Labels == SendLabels \cup CloseLabels \cup NetLabels \cup ProcLabels \cup AppLabels

\* The labels at which a thread works on a connection.
JobLabels == SendLabels \cup CloseLabels \cup
    {"register", "eof", "write", "drained", "clear", "check", "retire",
     "settype", "complete"}

Jobs == [conn : Conns \cup {NoConn}, msg : OutMsgs \cup {"none"},
         then : {"home", "mark", "write", "join"}]
NoJob == [conn |-> NoConn, msg |-> "none", then |-> "home"]

\* Where a thread is when its current packet, event or call is done.
Home(t) == IF t = "net" THEN "loop" ELSE IF t = "proc" THEN "draining"
           ELSE IF t \in shutting THEN "shutdown" ELSE "idle"

Goto(t, label) == pc' = [pc EXCEPT ![t] = label] /\ UNCHANGED job
Call(t, label, c, msg, then) ==
    /\ pc' = [pc EXCEPT ![t] = label]
    /\ job' = [job EXCEPT ![t] = [conn |-> c, msg |-> msg, then |-> then]]
\* A return to the thread's own loop; so is every swallowed exception.
Leave(t) == /\ pc' = [pc EXCEPT ![t] = Home(t)]
            /\ job' = [job EXCEPT ![t] = NoJob]
\* The return of a method: on to the code after its call.
Return(t) == IF job[t].then = "home" THEN Leave(t) ELSE Goto(t, job[t].then)

\* close_connection sends first, and marks the connection when that is done.
CallClose(t, c) == Call(t, "append", c, "closeconn", "mark")

At(t, label, c) == pc[t] = label /\ job[t].conn = c

LockFree == lock = "none"

\* The other end of the connection is there.
PeerUp(c) == peer[c] \notin {"away", "gone"}

-----------------------------------------------------------------------------
Init ==
    /\ clients = {}
    /\ sock = [c \in Conns |-> "none"]
    /\ interest = [c \in Conns |-> "none"]
    /\ writeQ = [c \in Conns |-> <<>>]
    /\ markClose = {}
    /\ state = [c \in Conns |-> "none"]
    /\ conntype = [c \in Conns |-> "notset"]
    /\ procQ = <<>> /\ lock = "none" /\ irq = 0 /\ run = TRUE
    /\ watched = {} /\ readySys = {} /\ ready = [c \in Conns |-> {}]
    /\ pc = [t \in Threads |-> IF t = "net" THEN "loop"
                             ELSE IF t = "proc" THEN "top" ELSE "idle"]
    /\ job = [t \in Threads |-> NoJob]
    /\ todo = [a \in Apps |-> {}] /\ shutting = {} /\ calls = 0
    /\ peer = [c \in Conns |-> "away"]
    /\ inbound = [c \in Conns |-> <<>>]
    /\ userSent = [c \in Conns |-> 0]
    /\ queued = [c \in Conns |-> <<>>]
    /\ wire = [c \in Conns |-> <<>>]
    /\ closes = [c \in Conns |-> 0]

-----------------------------------------------------------------------------
(* Server.send_message: may be called by every thread *)

\* Mutant: the packet is queued on a ClientOnServer kept from an earlier lookup.
SendAppendKept(t, c) ==
    /\ At(t, "append", c)
    /\ IF state[c] # "none"
       THEN /\ writeQ' = [writeQ EXCEPT ![c] = Append(@, job[t].msg)]
            /\ queued' = [queued EXCEPT ![c] = Append(@, job[t].msg)]
            /\ Goto(t, "watch")
       ELSE Leave(t) /\ UNCHANGED <<writeQ, queued>>
    /\ UNCHANGED <<tableVars, envVars, connVars, loopVars, wire, procQ>>

\* self.clients[cid].write_queue.append(data): a KeyError if c is forgotten.
SendAppend(t, c) ==
    /\ At(t, "append", c)
    /\ IF c \in clients
       THEN /\ writeQ' = [writeQ EXCEPT ![c] = Append(@, job[t].msg)]
            /\ queued' = [queued EXCEPT ![c] = Append(@, job[t].msg)]
            /\ Goto(t, "watch")
       ELSE Leave(t) /\ UNCHANGED <<writeQ, queued>>
    /\ UNCHANGED <<tableVars, envVars, connVars, loopVars, wire, procQ>>

\* Mutant: EVENT_WRITE is asked for without interrupting the selector.
SendWatchSilent(t, c) ==
    /\ At(t, "watch", c) /\ LockFree
    /\ \/ /\ c \in clients /\ interest[c] = "r"
          /\ interest' = [interest EXCEPT ![c] = "rw"]
          /\ Goto(t, "sent")
          /\ UNCHANGED lock
       \/ /\ c \in clients /\ interest[c] = "rw"
          /\ Goto(t, "sent")
          /\ UNCHANGED <<interest, lock>>
       \/ /\ c \notin clients \/ interest[c] = "none"
          /\ Leave(t)
          /\ UNCHANGED <<interest, lock>>
    /\ UNCHANGED <<queueVars, envVars, connVars, selVars, clients, sock, irq, run>>

\* Under _selector_lock: ask for EVENT_WRITE unless it is asked for already.
\* get_key() raises KeyError when the socket has been unregistered.
SendWatch(t, c) ==
    /\ At(t, "watch", c) /\ LockFree
    /\ \/ /\ c \in clients /\ interest[c] = "r"
          /\ interest' = [interest EXCEPT ![c] = "rw"]
          /\ lock' = t
          /\ Goto(t, "wake")
       \/ /\ c \in clients /\ interest[c] = "rw"
          /\ Goto(t, "sent")
          /\ UNCHANGED <<interest, lock>>
       \/ /\ c \notin clients \/ interest[c] = "none"
          /\ Leave(t)
          /\ UNCHANGED <<interest, lock>>
    /\ UNCHANGED <<queueVars, envVars, connVars, selVars, clients, sock, irq, run>>

\* self.interrupt(), still under the lock: blocks while the pair is full.
SendWake(t, c) ==
    /\ At(t, "wake", c) /\ irq < IrqCap
    /\ irq' = irq + 1
    /\ lock' = "none"
    /\ Goto(t, "sent")
    /\ UNCHANGED <<tableVars, queueVars, envVars, connVars, selVars, run>>

\* The packet's own _send(): HelloPacket moves the state on if it still is
\* HELLOWAIT (SmartPacket._send); HandshakePacket closes the connection if the
\* state is no longer HANDSHAKE_WAIT1; the other packets do nothing.
SendSent(t, c) ==
    /\ At(t, "sent", c)
    /\ \/ c \notin clients /\ Leave(t)
       \/ /\ c \in clients /\ job[t].msg = "hello"
          /\ IF state[c] = "hellowait" /\ conntype[c] = "notset"
             THEN Goto(t, "hellosent") ELSE Return(t)
       \/ /\ c \in clients /\ job[t].msg = "handshake"
          /\ IF state[c] = "handshake_wait1"
             THEN Return(t) ELSE CallClose(t, c)
       \/ /\ c \in clients /\ job[t].msg \notin {"hello", "handshake"}
          /\ Return(t)
    /\ UNCHANGED dataVars

\* HelloPacket.send
HelloSent(t, c) ==
    /\ At(t, "hellosent", c)
    /\ IF c \in clients THEN state' = [state EXCEPT ![c] = "waittype"]
                        ELSE UNCHANGED state
    /\ Leave(t)
    /\ UNCHANGED <<tableVars, queueVars, envVars, loopVars, conntype, closes,
                   markClose>>

\* close_connection: self.clients[cid]._mark_close = True, after the sending.
CloseMark(t, c) ==
    /\ At(t, "mark", c)
    /\ markClose' = IF c \in clients THEN markClose \cup {c} ELSE markClose
    /\ Leave(t)
    /\ UNCHANGED <<tableVars, queueVars, envVars, loopVars, state, conntype, closes>>

-----------------------------------------------------------------------------
(* ClientOnServer.close: run by the net thread and by the proc thread *)

\* Mutant: on_close only for connections whose handshake is complete.
CloseNotifyActive(t, c) ==
    /\ At(t, "notify", c)
    /\ closes' = [closes EXCEPT ![c] = IF state[c] = "active" THEN @ + 1 ELSE @]
    /\ Goto(t, "setclosed")
    /\ UNCHANGED <<tableVars, queueVars, envVars, loopVars, state, conntype,
                   markClose>>

CloseNotify(t, c) ==
    /\ At(t, "notify", c)
    /\ closes' = [closes EXCEPT ![c] = IF state[c] = "closed" THEN @ ELSE @ + 1]
    /\ Goto(t, "setclosed")
    /\ UNCHANGED <<tableVars, queueVars, envVars, loopVars, state, conntype,
                   markClose>>

CloseSetState(t, c) ==
    /\ At(t, "setclosed", c)
    /\ state' = [state EXCEPT ![c] = "closed"]
    /\ Goto(t, "unregister")
    /\ UNCHANGED <<tableVars, queueVars, envVars, loopVars, conntype, closes,
                   markClose>>

\* Mutant: the socket stays in the selector.
CloseUnregisterSkipped(t, c) ==
    /\ At(t, "unregister", c)
    /\ UNCHANGED interest
    /\ Goto(t, "shut")
    /\ UNCHANGED <<queueVars, envVars, connVars, loopVars, clients, sock>>

\* selector.unregister without _selector_lock; its exception is dropped.
CloseUnregister(t, c) ==
    /\ At(t, "unregister", c)
    /\ interest' = [interest EXCEPT ![c] = "none"]
    /\ Goto(t, "shut")
    /\ UNCHANGED <<queueVars, envVars, connVars, loopVars, clients, sock>>

CloseSocket(t, c) ==
    /\ At(t, "shut", c)
    /\ sock' = [sock EXCEPT ![c] = "closed"]
    /\ Goto(t, "forget")
    /\ UNCHANGED <<queueVars, envVars, connVars, loopVars, clients, interest>>

\* del self.server.clients[self.cid]
CloseForget(t, c) ==
    /\ At(t, "forget", c)
    /\ clients' = clients \ {c}
    /\ Return(t)
    /\ UNCHANGED <<queueVars, envVars, connVars, loopVars, sock, interest>>

-----------------------------------------------------------------------------
(* The net thread: runBlocking *)

NoReady == readySys = {} /\ \A c \in Conns : ready[c] = {}

\* while self.run: a select()-style selector takes its sets when it is called.
LoopHead ==
    /\ pc["net"] = "loop" /\ NoReady
    /\ Goto("net", IF run THEN "select" ELSE "done")
    /\ watched' = IF run /\ ~LiveSelector
                  THEN {c \in Conns : interest[c] = "rw"} ELSE {}
    /\ UNCHANGED <<tableVars, queueVars, envVars, connVars, lock, irq, run, readySys,
                   ready>>

Backlog == {c \in Conns : sock[c] = "none" /\ peer[c] # "away"}

SysEvents == {e \in {"irq", "listen"} :
                 \/ e = "irq" /\ irq > 0
                 \/ e = "listen" /\ Backlog # {}}
ConnEvents(c) == {e \in {"in", "out"} :
    \/ e = "in" /\ interest[c] # "none" /\ (inbound[c] # <<>> \/ peer[c] = "gone")
    \/ e = "out" /\ interest[c] = "rw" /\ (LiveSelector \/ c \in watched)}

\* self.selector.select() returns: every event there is at that moment.
SelectReturn ==
    /\ pc["net"] = "select"
    /\ \/ SysEvents # {}
       \/ \E c \in Conns : ConnEvents(c) # {}
    /\ readySys' = SysEvents
    /\ ready' = [c \in Conns |-> ConnEvents(c)]
    /\ watched' = {}
    /\ Goto("net", "loop")
    /\ UNCHANGED <<tableVars, queueVars, envVars, connVars, lock, irq, run>>

\* Mutant: the event is handled, and the socket read, once more.
ReadIrqAgain ==
    /\ pc["net"] = "loop" /\ "irq" \in readySys
    /\ UNCHANGED readySys
    /\ irq' = irq - 1
    /\ UNCHANGED <<tableVars, queueVars, envVars, connVars, lock, run, watched,
                   ready, pc, job>>

\* _client_ready on _irqrecv: eight bytes, that is one wake-up, a round.
ReadIrq ==
    /\ pc["net"] = "loop" /\ "irq" \in readySys
    /\ readySys' = readySys \ {"irq"}
    /\ irq' = irq - 1
    /\ UNCHANGED <<tableVars, queueVars, envVars, connVars, lock, run, watched,
                   ready, pc, job>>

\* _accept: the connection is in clients before it is in the selector.
Accept(c) ==
    /\ pc["net"] = "loop" /\ "listen" \in readySys /\ c \in Backlog
    /\ readySys' = readySys \ {"listen"}
    /\ sock' = [sock EXCEPT ![c] = "open"]
    /\ state' = [state EXCEPT ![c] = "init"]
    /\ clients' = clients \cup {c}
    /\ Call("net", "register", c, "none", "home")
    /\ UNCHANGED <<queueVars, envVars, interest, conntype, closes, markClose, lock,
                   irq, run, watched, ready>>

\* ... its registration, state HELLOWAIT, and the call that sends hello.
Register(c) ==
    /\ At("net", "register", c) /\ LockFree
    /\ interest' = [interest EXCEPT ![c] = "r"]
    /\ state' = [state EXCEPT ![c] = "hellowait"]
    /\ Call("net", "append", c, "hello", "home")
    /\ UNCHANGED <<queueVars, envVars, loopVars, clients, sock, conntype, closes,
                   markClose>>

Taken(c) == ready' = [ready EXCEPT ![c] = {}]
AfterRead(c) == IF "out" \in ready[c] THEN "write" ELSE "home"

\* conn.recv returns data: receive_data queues its packets for the proc
\* thread; for a forgotten connection it raises, and the data is dropped.
Receive(c) ==
    /\ pc["net"] = "loop" /\ "in" \in ready[c]
    /\ sock[c] = "open" /\ inbound[c] # <<>>
    /\ \E n \in 1..Len(inbound[c]) :
          /\ inbound' = [inbound EXCEPT ![c] = SubSeq(@, n + 1, Len(@))]
          /\ procQ' = IF c \in clients
                      THEN procQ \o [i \in 1..n |-> <<c, inbound[c][i]>>]
                      ELSE procQ
    /\ Taken(c)
    /\ IF "out" \in ready[c] THEN Call("net", "write", c, "none", "home")
                             ELSE UNCHANGED <<pc, job>>
    /\ UNCHANGED <<tableVars, connVars, appVars, writeQ, queued, wire, lock, irq,
                   run, watched, readySys, peer, userSent>>

\* recv raises on a socket another thread has closed; the unregister() of the
\* handler (line 461) then raises KeyError, which ends the event.
ReceiveError(c) ==
    /\ pc["net"] = "loop" /\ "in" \in ready[c] /\ sock[c] = "closed"
    /\ Taken(c)
    /\ UNCHANGED <<tableVars, queueVars, envVars, connVars, lock, irq, run, watched,
                   readySys, pc, job>>

\* recv returns nothing: the peer has closed.
ReceiveEof(c) ==
    /\ pc["net"] = "loop" /\ "in" \in ready[c]
    /\ sock[c] = "open" /\ inbound[c] = <<>> /\ peer[c] = "gone"
    /\ Taken(c)
    /\ Call("net", "eof", c, "none", AfterRead(c))
    /\ UNCHANGED <<tableVars, queueVars, envVars, connVars, lock, irq, run, watched,
                   readySys>>

\* recv raises because the peer has reset the connection: what was not read is
\* lost, and the writing part of the round is skipped.
ReceiveReset(c) ==
    /\ pc["net"] = "loop" /\ "in" \in ready[c]
    /\ sock[c] = "open" /\ peer[c] = "gone"
    /\ inbound' = [inbound EXCEPT ![c] = <<>>]
    /\ Taken(c)
    /\ Call("net", "eof", c, "none", "home")
    /\ UNCHANGED <<tableVars, queueVars, connVars, appVars, lock, irq, run, watched,
                   readySys, peer, userSent>>

\* Mutant: the connection is unregistered but not closed.
UnregisterOnly(c) ==
    /\ At("net", "eof", c) \/ At("net", "retire", c)
    /\ LockFree
    /\ IF interest[c] = "none"
       THEN Leave("net") /\ UNCHANGED interest
       ELSE interest' = [interest EXCEPT ![c] = "none"] /\ Leave("net")
    /\ UNCHANGED <<queueVars, envVars, connVars, loopVars, clients, sock>>

\* Unregister under the lock, then data.close(); KeyError if the proc thread
\* was faster.  At "eof" after an empty or failed read, at "retire" when the
\* connection is marked and all is sent.
Unregister(c) ==
    /\ At("net", "eof", c) \/ At("net", "retire", c)
    /\ LockFree
    /\ IF interest[c] = "none"
       THEN Leave("net") /\ UNCHANGED interest
       ELSE interest' = [interest EXCEPT ![c] = "none"] /\ Goto("net", "notify")
    /\ UNCHANGED <<queueVars, envVars, connVars, loopVars, clients, sock>>

\* EVENT_WRITE alone: on to the writing part of _client_ready.
OnlyWrite(c) ==
    /\ pc["net"] = "loop" /\ ready[c] = {"out"}
    /\ Taken(c)
    /\ Call("net", "write", c, "none", "home")
    /\ UNCHANGED <<tableVars, queueVars, envVars, connVars, lock, irq, run, watched,
                   readySys>>

\* write_queue.popleft() raises IndexError: only the interest is to be dropped.
WriteNothing(c) ==
    /\ At("net", "write", c) /\ writeQ[c] = <<>>
    /\ Goto("net", "clear")
    /\ UNCHANGED dataVars

\* Mutant: the packet is put back in front, as the SSL branch does (line 499).
WriteReinserts(c) ==
    /\ At("net", "write", c) /\ writeQ[c] # <<>>
    /\ UNCHANGED writeQ
    /\ \/ /\ sock[c] = "open" /\ PeerUp(c)
          /\ wire' = [wire EXCEPT ![c] = Append(@, Head(writeQ[c]))]
          /\ Goto("net", "drained")
       \/ /\ sock[c] = "open" /\ peer[c] = "gone"
          /\ Goto("net", "drained")
          /\ UNCHANGED wire
       \/ /\ sock[c] = "closed" \/ peer[c] = "gone" \/ SendMayBlock
          /\ Leave("net")
          /\ UNCHANGED wire
    /\ UNCHANGED <<tableVars, envVars, connVars, loopVars, queued, procQ>>

\* popleft and sendall.  The packet reaches the peer; or the peer is gone, and
\* the kernel takes the data or not; or sendall raises and the packet is lost.
Write(c) ==
    /\ At("net", "write", c) /\ writeQ[c] # <<>>
    /\ writeQ' = [writeQ EXCEPT ![c] = Tail(@)]
    /\ \/ /\ sock[c] = "open" /\ PeerUp(c)
          /\ wire' = [wire EXCEPT ![c] = Append(@, Head(writeQ[c]))]
          /\ Goto("net", "drained")
       \/ /\ sock[c] = "open" /\ peer[c] = "gone"
          /\ Goto("net", "drained")
          /\ UNCHANGED wire
       \/ /\ sock[c] = "closed" \/ peer[c] = "gone" \/ SendMayBlock
          /\ Leave("net")
          /\ UNCHANGED wire
    /\ UNCHANGED <<tableVars, envVars, connVars, loopVars, queued, procQ>>

\* if len(data.write_queue)==0, looked at without the lock ...
Drained(c) ==
    /\ At("net", "drained", c)
    /\ Goto("net", IF writeQ[c] = <<>> THEN "clear" ELSE "check")
    /\ UNCHANGED dataVars

\* ... and EVENT_WRITE taken back under it, whatever was queued in between.
ClearInterest(c) ==
    /\ At("net", "clear", c) /\ LockFree
    /\ IF interest[c] = "none"
       THEN Leave("net") /\ UNCHANGED interest
       ELSE interest' = [interest EXCEPT ![c] = "r"] /\ Goto("net", "check")
    /\ UNCHANGED <<queueVars, envVars, connVars, loopVars, clients, sock>>

\* Mutant: the rest of the queue is not waited for.
CheckMarkEager(c) ==
    /\ At("net", "check", c)
    /\ IF c \in markClose THEN Goto("net", "retire")
                                           ELSE Leave("net")
    /\ UNCHANGED dataVars

\* data._mark_close and len(data.write_queue)==0
CheckMark(c) ==
    /\ At("net", "check", c)
    /\ IF c \in markClose /\ writeQ[c] = <<>> THEN Goto("net", "retire")
                                           ELSE Leave("net")
    /\ UNCHANGED dataVars

-----------------------------------------------------------------------------
(* The proc thread: process_forever, process and the packet handlers *)

\* while self.run / while not queue.empty(); the wait has a 10 ms timeout.  A
\* round that finds nothing changes nothing, and is left out of the runs in
\* which no thread can clear self.run.
ProcRound ==
    /\ \/ pc["proc"] = "top" /\ Goto("proc", IF run THEN "draining" ELSE "done")
       \/ /\ pc["proc"] = "draining" /\ procQ = <<>>
          /\ AppOps \cap {"stop", "shutdown"} # {}
          /\ Goto("proc", "top")
    /\ UNCHANGED dataVars

\* The next packet m of connection c is taken from the queue.
Taking(c, m) ==
    /\ pc["proc"] = "draining" /\ procQ # <<>> /\ Head(procQ) = <<c, m>>
    /\ procQ' = Tail(procQ)
    /\ UNCHANGED <<tableVars, envVars, connVars, loopVars, writeQ, queued, wire>>

\* SetTypePacket, state WAITTYPE only.  For an unknown type the arguments of
\* close_connection are swapped (internal.py:115): KeyError, nothing happens.
TakeSetType(c, m) ==
    /\ m \in {"settype", "othertype"} /\ Taking(c, m)
    /\ IF c \in clients /\ state[c] = "waittype" /\ m = "settype"
       THEN Call("proc", "settype", c, "none", "home")
       ELSE Leave("proc")

\* HandshakeAcceptPacket: in any other state than HANDSHAKE_WAIT1 it closes.
TakeAccept(c) ==
    /\ Taking(c, "accept")
    /\ IF c \notin clients THEN Leave("proc")
       ELSE IF state[c] = "handshake_wait1"
            THEN Call("proc", "complete", c, "none", "home")
            ELSE CallClose("proc", c)

\* CloseConnectionPacket
TakeCloseConn(c) ==
    /\ Taking(c, "closeconn")
    /\ IF c \in clients THEN Call("proc", "notify", c, "none", "home")
                        ELSE Leave("proc")

\* A SmartPacket of the application (state ACTIVE, invalid_action "ignore");
\* without a connection type the lookup in conntypes raises.
TakeUser(c) ==
    /\ Taking(c, "user")
    /\ IF c \in clients /\ conntype[c] = "classic" /\ state[c] = "active"
       THEN \/ "reply" \in HandlerOps /\ Call("proc", "append", c, "user", "home")
            \/ "close" \in HandlerOps /\ CallClose("proc", c)
            \/ Leave("proc")
       ELSE Leave("proc")

\* SetTypePacket.receive and ClassicConnectionType.init, up to its send.
SetType(c) ==
    /\ At("proc", "settype", c)
    /\ IF c \in clients
       THEN /\ conntype' = [conntype EXCEPT ![c] = "classic"]
            /\ state' = [state EXCEPT ![c] = "handshake_wait1"]
            /\ Call("proc", "append", c, "handshake", "home")
       ELSE Leave("proc") /\ UNCHANGED <<conntype, state>>
    /\ UNCHANGED <<tableVars, queueVars, envVars, loopVars, closes, markClose>>

\* ClientOnServer.on_handshake_complete
Complete(c) ==
    /\ At("proc", "complete", c)
    /\ IF c \in clients THEN state' = [state EXCEPT ![c] = "active"]
                        ELSE UNCHANGED state
    /\ Leave("proc")
    /\ UNCHANGED <<tableVars, queueVars, envVars, loopVars, conntype, closes,
                   markClose>>

-----------------------------------------------------------------------------
(* Application threads: any of them may call while the others do *)

Calling(a, op) == /\ pc[a] = "idle" /\ op \in AppOps /\ calls < MaxCalls
                  /\ calls' = calls + 1

AppCall(a) ==
    /\ \/ \E c \in clients :
             \/ /\ Calling(a, "send")
                /\ Call(a, "append", c, "user", "home")
             \/ /\ Calling(a, "close")
                /\ CallClose(a, c)
       \/ /\ Calling(a, "stop")
          /\ Call(a, "stop", NoConn, "none", "home")
       \/ /\ Calling(a, "interrupt")
          /\ Call(a, "poke", NoConn, "none", "home")
    /\ UNCHANGED <<tableVars, queueVars, connVars, loopVars, peerVars, todo,
                   shutting>>

\* shutdown: the cids are copied first ...
AppShutdown(a) ==
    /\ Calling(a, "shutdown")
    /\ todo' = [todo EXCEPT ![a] = clients]
    /\ shutting' = shutting \cup {a}
    /\ Goto(a, "shutdown")
    /\ UNCHANGED <<tableVars, queueVars, connVars, loopVars, peerVars>>

\* ... then close_connection is called for each, whatever it raises ...
ShutdownNext(a) ==
    /\ pc[a] = "shutdown"
    /\ \/ \E c \in todo[a] :
             /\ todo' = [todo EXCEPT ![a] = @ \ {c}]
             /\ CallClose(a, c)
             /\ UNCHANGED shutting
       \/ /\ todo[a] = {}
          /\ shutting' = shutting \ {a}
          /\ Goto(a, "await")
          /\ UNCHANGED todo
    /\ UNCHANGED <<tableVars, queueVars, connVars, loopVars, peerVars, calls>>

\* ... then the clients are waited for, up to the timeout.
ShutdownAwait(a) ==
    /\ pc[a] = "await" /\ (clients = {} \/ JoinTimesOut)
    /\ Call(a, "stop", NoConn, "none", "join")
    /\ UNCHANGED dataVars

Stop(a) ==
    /\ pc[a] = "stop"
    /\ run' = FALSE
    /\ Goto(a, "poke")
    /\ UNCHANGED <<tableVars, queueVars, envVars, connVars, selVars, lock, irq>>

\* Mutant: the wake-up is not written.
PokeSilent(a) ==
    /\ pc[a] = "poke" /\ irq < IrqCap
    /\ UNCHANGED irq
    /\ Return(a)
    /\ UNCHANGED <<tableVars, queueVars, envVars, connVars, selVars, lock, run>>

\* interrupt(): a blocking sendall on the interrupt pair.
Poke(a) ==
    /\ pc[a] = "poke" /\ irq < IrqCap
    /\ irq' = irq + 1
    /\ Return(a)
    /\ UNCHANGED <<tableVars, queueVars, envVars, connVars, selVars, lock, run>>

\* join(): stop() once more, then the two threads are waited for.
Join(a) ==
    /\ \/ pc[a] = "join" /\ irq < IrqCap /\ irq' = irq + 1 /\ Goto(a, "joined")
       \/ /\ pc[a] = "joined"
          /\ (pc["net"] = "done" /\ pc["proc"] = "done") \/ JoinTimesOut
          /\ Leave(a)
          /\ UNCHANGED irq
    /\ UNCHANGED <<tableVars, queueVars, envVars, connVars, selVars, lock, run>>

-----------------------------------------------------------------------------
(* The peers, which are outside of the server *)

PeerConnect(c) ==
    /\ peer[c] = "away"
    /\ peer' = [peer EXCEPT ![c] = "connected"]
    /\ UNCHANGED <<tableVars, queueVars, connVars, loopVars, appVars, pc, job,
                   inbound, userSent>>

\* A peer answers hello and handshake; its application may send packets and
\* close the connection whenever it likes, and a client that has sent closeconn
\* sends nothing more (Client.close_connection).
MaySend(c, m) ==
    \/ /\ m \in {"settype", "othertype"}
       /\ peer[c] = "connected" /\ Contains(wire[c], "hello")
    \/ m = "accept" /\ peer[c] = "typed" /\ Contains(wire[c], "handshake")
    \/ m = "user" /\ PeerUp(c) /\ peer[c] # "leaving" /\ userSent[c] < MaxUser
    \/ m = "closeconn" /\ PeerUp(c) /\ peer[c] # "leaving"
PhaseAfter(c, m) ==
    IF m = "user" THEN peer[c]
    ELSE [settype |-> "typed", othertype |-> "mistyped",
          accept |-> "accepted", closeconn |-> "leaving"][m]

PeerSend(c, m) ==
    /\ sock[c] # "closed" /\ MaySend(c, m)
    /\ inbound' = [inbound EXCEPT ![c] = Append(@, m)]
    /\ peer' = [peer EXCEPT ![c] = PhaseAfter(c, m)]
    /\ userSent' = [userSent EXCEPT ![c] = IF m = "user" THEN @ + 1 ELSE @]
    /\ UNCHANGED <<tableVars, queueVars, connVars, loopVars, appVars, pc, job>>

\* The peer closes its socket, or dies.
PeerLeave(c) ==
    /\ PeerUp(c) /\ "leave" \in PeerOps
    /\ peer' = [peer EXCEPT ![c] = "gone"]
    /\ UNCHANGED <<tableVars, queueVars, connVars, loopVars, appVars, pc, job,
                   inbound, userSent>>

-----------------------------------------------------------------------------
SendStep(t, c) ==
    \/ SendAppend(t, c) \/ SendWatch(t, c) \/ SendWake(t, c) \/ SendSent(t, c)
    \/ HelloSent(t, c) \/ CloseMark(t, c)
CloseStep(t, c) ==
    \/ CloseNotify(t, c) \/ CloseSetState(t, c) \/ CloseUnregister(t, c)
    \/ CloseSocket(t, c) \/ CloseForget(t, c)

NetEvent(c) ==
    \/ Accept(c) \/ Register(c) \/ Receive(c) \/ ReceiveError(c)
    \/ ReceiveEof(c) \/ ReceiveReset(c) \/ Unregister(c) \/ OnlyWrite(c)
    \/ WriteNothing(c) \/ Write(c) \/ Drained(c) \/ ClearInterest(c) \/ CheckMark(c)
NetStep ==
    \/ LoopHead \/ SelectReturn \/ ReadIrq
    \/ \E c \in Conns : NetEvent(c) \/ SendStep("net", c) \/ CloseStep("net", c)

Handle(c) ==
    \/ \E m \in {"settype", "othertype"} : TakeSetType(c, m)
    \/ TakeAccept(c) \/ TakeCloseConn(c) \/ TakeUser(c)
    \/ SetType(c) \/ Complete(c)
ProcStep ==
    \/ ProcRound
    \/ \E c \in Conns : Handle(c) \/ SendStep("proc", c) \/ CloseStep("proc", c)

\* What an application thread does inside a call it has made.
AppStep(a) ==
    \/ ShutdownNext(a) \/ ShutdownAwait(a) \/ Stop(a) \/ Poke(a) \/ Join(a)
    \/ \E c \in Conns : SendStep(a, c)

PeerStep(c) == PeerConnect(c) \/ PeerLeave(c)
               \/ \E m \in PeerOps \cap InMsgs : PeerSend(c, m)

Next ==
    \/ NetStep \/ ProcStep
    \/ \E a \in Apps : AppStep(a) \/ AppCall(a) \/ AppShutdown(a)
    \/ \E c \in Conns : PeerStep(c)

Spec == Init /\ [][Next]_vars

\* The threads run; no call and no peer has to come.
Fairness == /\ WF_vars(NetStep) /\ WF_vars(ProcStep)
            /\ \A a \in Apps : WF_vars(AppStep(a))
FairSpec == Spec /\ Fairness

-----------------------------------------------------------------------------
ConnectionTypes ==
    /\ clients \subseteq Conns
    /\ sock \in [Conns -> {"none", "open", "closed"}]
    /\ interest \in [Conns -> {"none", "r", "rw"}]
    /\ markClose \subseteq Conns
    /\ state \in [Conns -> States]
    /\ conntype \in [Conns -> {"notset", "classic"}]
    /\ closes \in [Conns -> Nat]
QueueTypes ==
    /\ writeQ \in [Conns -> Seq(OutMsgs)]
    /\ queued \in [Conns -> Seq(OutMsgs)]
    /\ wire \in [Conns -> Seq(OutMsgs)]
    /\ procQ \in Seq(Conns \X InMsgs)
LoopTypes ==
    /\ lock \in Threads \cup {"none"}
    /\ irq \in 0..IrqCap
    /\ run \in BOOLEAN
    /\ watched \subseteq Conns
    /\ readySys \subseteq {"irq", "listen"}
    /\ ready \in [Conns -> SUBSET {"in", "out"}]
ThreadTypes ==
    /\ pc \in [Threads -> Labels]
    /\ job \in [Threads -> Jobs]
    /\ todo \in [Apps -> SUBSET Conns]
    /\ shutting \subseteq Apps
    /\ calls \in 0..MaxCalls
PeerTypes ==
    /\ peer \in [Conns -> PeerPhases]
    /\ inbound \in [Conns -> Seq(InMsgs)]
    /\ userSent \in [Conns -> 0..MaxUser]

\* Every variable has the type its comment says.
TypeOK == /\ ConnectionTypes /\ QueueTypes /\ LoopTypes /\ ThreadTypes
          /\ PeerTypes
=============================================================================
