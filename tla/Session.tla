------------------------------ MODULE Session ------------------------------
(***************************************************************************)
(* One connection from its server to its client: net.py, packet/,          *)
(* conntypes.py and ext/ping.py at both ends, and TCP between them.        *)
(*                                                                         *)
(* Server and Client model what the threads of one end do to each other.   *)
(* Here a handler is one step, unless the other end or the net thread can  *)
(* come between its parts and make a difference.  A packet is its ID; the  *)
(* registry gives names to those from 64 on, at each end its own until the *)
(* handshake.  A ping connection uses 64 and 65 without the registry.      *)
(***************************************************************************)
EXTENDS Naturals, FiniteSets, Sequences

CONSTANTS
    ServerIds,      \* the server's registry: IDs of names
    ClientMaps,     \* registries a client may start with
    Targets,        \* connection types a client may ask for
    TypeSets,       \* sets of them that a server may know
    OnMissing,      \* values of net.registry.missingpacketaction
    MaxCalls        \* bound: calls of the application at each end

Sides == {"client", "server"}
Other(s) == IF s = "client" THEN "server" ELSE "client"

Hello == 1    SetType == 2    Handshake == 3    Accepted == 4    CloseConn == 16
Ping == 64    Pong == 65

OneToOne(f) == \A n, m \in DOMAIN f : f[n] = f[m] => n = m

\* Names have IDs from 64 on (registry.py:63), each its own; the handshake does
\* not move a name to an ID another packet has at the client (see Registry).
ASSUME IdsAssumption == \A f \in ClientMaps \cup {ServerIds} :
    /\ OneToOne(f) /\ \A n \in DOMAIN f : f[n] \in Nat /\ f[n] >= 64
    /\ \A n \in DOMAIN f \cap DOMAIN ServerIds, m \in DOMAIN f :
           f[m] = ServerIds[n] => m = n
ASSUME SessionAssumption ==
    /\ Targets \subseteq {"classic", "ping", "custom"}
    /\ TypeSets \subseteq SUBSET {"classic", "ping"}
    /\ "ignore" \in OnMissing /\ OnMissing \subseteq {"closeconnection", "ignore"}
    /\ UNION TypeSets \in TypeSets /\ MaxCalls \in [Sides -> Nat]

VARIABLES
    target,     \* target_conntype of the client
    types,      \* Server.conntypes
    match,      \* have both ends the same PROTOVERSION?
    missing,    \* the client's net.registry.missingpacketaction
    ids,        \* the client's registry
    sock,       \* the socket of each end: none (the server's backlog), open, closed
    wire,       \* packets on their way to each end
    reset,      \* has TCP told an end that its packets were refused?
    alive,      \* is the process of each end there?
    writeq,     \* ClientOnServer.write_queue
    armed,      \* does the server's selector look for EVENT_WRITE?
    mark,       \* ClientOnServer._mark_close, Client._mark_close
    interest,   \* is the client's socket in its selector?
    inq,        \* _process_queue of each end
    state,      \* ClientOnServer.state, Client.remote_state
    stype,      \* ClientOnServer.conntype
    pc,         \* threads: snet and sproc, sapp of the server; cproc, capp
    data,       \* d["data"] of pingServer: has on_pong been called?
    pong,       \* is _pongdata set?
    established, sent, got,     \* history: see Link
    bye,        \* history: the server closed because of its mark
    heard,      \* history: the client has handled a closeconn
    calls       \* bound: calls of the application at each end

setup  == <<target, types, match, missing>>
net    == <<wire, reset, alive>>
server == <<writeq, armed, bye, stype>>
client == <<ids, interest, data, pong, heard>>
ends   == <<sock, mark, inq, state>>
hist   == <<established, sent, got, calls>>
vars   == <<setup, net, server, client, ends, hist, pc>>

NoCalls == [s \in Sides |-> 0]

Init ==
    /\ target \in Targets /\ types \in TypeSets /\ match \in BOOLEAN
    /\ ids \in ClientMaps \cup {ServerIds} /\ missing \in OnMissing
    \* What no step looks at has one value: only a classic connection makes use of
    \* the registry, and of missing if a name is missing.
    /\ target = "ping" \/ types = UNION TypeSets
    /\ IF target = "classic" THEN ids \in ClientMaps ELSE ids = ServerIds
    /\ DOMAIN ids = DOMAIN ServerIds => missing = "ignore"
    /\ sock = [client |-> "open", server |-> "none"]
    /\ wire = [s \in Sides |-> <<>>] /\ reset = [s \in Sides |-> FALSE]
    /\ alive = [s \in Sides |-> TRUE]
    /\ writeq = <<>> /\ armed = FALSE /\ mark = [s \in Sides |-> FALSE]
    /\ interest = TRUE /\ inq = [s \in Sides |-> <<>>]
    /\ state = [client |-> "hellowait", server |-> "init"] /\ stype = "notset"
    /\ pc = [snet |-> "ready", sproc |-> "ready", sapp |-> "ready",
             cproc |-> "ready", capp |-> "waiting"]
    /\ data = FALSE /\ pong = FALSE
    /\ established = {} /\ sent = [s \in Sides |-> <<>>] /\ got = [s \in Sides |-> <<>>]
    /\ bye = FALSE /\ heard = FALSE /\ calls = NoCalls

-----------------------------------------------------------------------------
(* Sending, and the end of a connection *)

At(t, label) == pc[t] = label
Goto(t, label) == pc' = [pc EXCEPT ![t] = label]

\* Server.send_message: queued, and EVENT_WRITE asked for, while the connection
\* is known; otherwise a KeyError that its caller prints and forgets.
ServerSends(p) ==
    IF sock["server"] = "open"
    THEN writeq' = Append(writeq, p) /\ armed' = TRUE
    ELSE UNCHANGED <<writeq, armed>>

\* Client.send_message: into the socket while there is one.  A client that has
\* its mark leaves the selector when all is sent, unless send() raises, as it may
\* when the connection has been reset; the exception is printed and forgotten.
ClientSends(p) ==
    IF sock["client"] = "open"
    THEN /\ IF sock["server"] = "closed"
            THEN reset' = [reset EXCEPT !["client"] = TRUE] /\ UNCHANGED wire
            ELSE wire' = [wire EXCEPT !["server"] = Append(@, p)] /\ UNCHANGED reset
         /\ \/ interest' = (interest /\ ~mark["client"])
            \/ reset["client"] /\ UNCHANGED interest
    ELSE UNCHANGED <<wire, reset, interest>>

\* Client.close_connection: its two steps are not told apart (nobody else sends).
ClientCloses ==
    /\ ClientSends(CloseConn)
    /\ mark' = [mark EXCEPT !["client"] = TRUE]

\* A socket is closed; TCP refuses what is unread or comes later.
Shut(s) ==
    /\ sock' = [sock EXCEPT ![s] = "closed"]
    /\ wire' = [wire EXCEPT ![s] = <<>>]
    /\ reset' = [reset EXCEPT ![Other(s)] = @ \/ wire[s] # <<>>]

\* ClientOnServer.close and Client.close.
Close(s) == Shut(s) /\ state' = [state EXCEPT ![s] = "closed"]

\* A refusal takes with it what the other end has not read yet.
ResetArrives(s) ==
    /\ reset[s] /\ sock[s] = "open" /\ wire[s] # <<>>
    /\ wire' = [wire EXCEPT ![s] = <<>>]
    /\ UNCHANGED <<setup, server, client, ends, hist, pc, reset, alive>>

\* The process of one end is gone; its socket is closed for it.
Crash(s) ==
    /\ alive[s]
    /\ alive' = [alive EXCEPT ![s] = FALSE]
    /\ inq' = [inq EXCEPT ![s] = <<>>]
    /\ Shut(s)
    /\ UNCHANGED <<setup, server, client, hist, pc, mark, state>>

-----------------------------------------------------------------------------
(* The net thread of the server *)

\* Mutant: send() of the hello packet does not move the state on.
AcceptHello ==
    /\ alive["server"] /\ At("snet", "ready") /\ sock["server"] = "none"
    /\ sock' = [sock EXCEPT !["server"] = "open"]
    /\ state' = [state EXCEPT !["server"] = "hellowait"]
    /\ writeq' = <<Hello>> /\ armed' = TRUE
    /\ UNCHANGED <<setup, net, client, hist, pc, mark, inq, bye, stype>>

\* _accept; the hello packet moves the state on when it is queued (_send).
Accept ==
    /\ alive["server"] /\ At("snet", "ready") /\ sock["server"] = "none"
    /\ sock' = [sock EXCEPT !["server"] = "open"]
    /\ state' = [state EXCEPT !["server"] = "waittype"]
    /\ writeq' = <<Hello>> /\ armed' = TRUE
    /\ UNCHANGED <<setup, net, client, hist, pc, mark, inq, bye, stype>>

NetRead(s) ==
    /\ alive[s] /\ sock[s] = "open" /\ wire[s] # <<>>
    /\ IF s = "server" THEN At("snet", "ready") ELSE interest
    /\ wire' = [wire EXCEPT ![s] = Tail(@)]
    /\ inq' = [inq EXCEPT ![s] = Append(@, Head(wire[s]))]
    /\ UNCHANGED <<setup, server, client, hist, pc, reset, alive, sock, mark, state>>

\* Mutant: the server takes the connection out of its selector, no more.
NetEofIgnored(s) ==
    /\ alive[s] /\ sock[s] = "open" /\ wire[s] = <<>> /\ sock[Other(s)] = "closed"
    /\ s = "client" /\ interest
    /\ Close(s)
    /\ UNCHANGED <<setup, server, client, hist, pc, alive, mark, inq>>

\* End of file or a reset, at either end.
NetEof(s) ==
    /\ alive[s] /\ sock[s] = "open" /\ wire[s] = <<>> /\ sock[Other(s)] = "closed"
    /\ IF s = "server" THEN At("snet", "ready") ELSE interest
    /\ Close(s)
    /\ UNCHANGED <<setup, server, client, hist, pc, alive, mark, inq>>

\* A packet is popped and sent, into the void if the client has gone; sendall
\* may raise then, which ends the event.
NetWrite ==
    /\ alive["server"] /\ At("snet", "ready") /\ sock["server"] = "open" /\ armed
    /\ IF writeq = <<>> THEN UNCHANGED <<writeq, wire, reset>>
       ELSE /\ writeq' = Tail(writeq)
            /\ IF sock["client"] = "closed"
               THEN reset' = [reset EXCEPT !["server"] = TRUE] /\ UNCHANGED wire
               ELSE wire' = [wire EXCEPT !["client"] = Append(@, Head(writeq))]
                    /\ UNCHANGED reset
    /\ \/ Goto("snet", IF writeq' = <<>> THEN "drained" ELSE "ready")
       \/ sock["client"] = "closed" /\ UNCHANGED pc
    /\ UNCHANGED <<setup, client, ends, hist, alive, armed, bye, stype>>

\* The queue was found empty: EVENT_WRITE is taken back, and with it what another
\* thread has asked for in between.  modify() raises if the connection is closed.
NetDrained ==
    /\ alive["server"] /\ At("snet", "drained")
    /\ armed' = FALSE
    /\ Goto("snet", IF sock["server"] = "open" THEN "retire" ELSE "ready")
    /\ UNCHANGED <<setup, net, client, ends, hist, writeq, bye, stype>>

\* Mutant: the queue is not looked at again.
NetRetireUnchecked ==
    /\ alive["server"] /\ At("snet", "retire")
    /\ Goto("snet", "ready")
    /\ IF mark["server"] /\ sock["server"] = "open"
       THEN Close("server") /\ bye' = TRUE
       ELSE UNCHANGED <<sock, wire, reset, state, bye>>
    /\ UNCHANGED <<setup, client, hist, alive, writeq, armed, stype, mark, inq>>

NetRetire ==
    /\ alive["server"] /\ At("snet", "retire")
    /\ Goto("snet", "ready")
    /\ IF mark["server"] /\ writeq = <<>> /\ sock["server"] = "open"
       THEN Close("server") /\ bye' = TRUE
       ELSE UNCHANGED <<sock, wire, reset, state, bye>>
    /\ UNCHANGED <<setup, client, hist, alive, writeq, armed, stype, mark, inq>>

-----------------------------------------------------------------------------
(* The proc thread of the server *)

NameOf(f, p) == CHOOSE n \in DOMAIN f : f[n] = p
Known(f, p) == \E n \in DOMAIN f : f[n] = p
Gets(s, n) == got' = [got EXCEPT ![s] = Append(@, n)]
Logs(s, n) == sent' = [sent EXCEPT ![s] = Append(@, n)]

UserIds == {p \in Nat : p >= 64}
First(s) == Head(inq[s])

\* The proc thread takes the next packet, which is one of ps.
ServerTakes(ps) ==
    /\ alive["server"] /\ At("sproc", "ready")
    /\ inq["server"] # <<>> /\ First("server") \in ps
    /\ inq' = [inq EXCEPT !["server"] = Tail(@)]

\* clients[cid] raises for what is left of a connection that is closed.
TakeStale ==
    /\ ServerTakes(Nat)
    /\ sock["server"] = "closed"
    /\ UNCHANGED <<setup, net, server, client, hist, pc, sock, mark, state>>

\* Mutant: the connection is made active and no handshake sent.
TakeSetTypeSilent ==
    /\ ServerTakes({SetType}) /\ sock["server"] = "open"
    /\ stype' = target
    /\ state' = [state EXCEPT !["server"] = "wait1"]
    /\ established' = IF target = "ping" THEN established \cup {"server"} ELSE established
    /\ UNCHANGED <<setup, net, client, sent, got, calls, pc, sock, mark, writeq, armed, bye>>

\* The type is stored and its init() called.  For an unknown type close_connection
\* is called with its arguments swapped, and raises.
TakeSetType ==
    /\ ServerTakes({SetType}) /\ sock["server"] = "open"
    /\ IF state["server"] = "waittype" /\ target \in types
       THEN /\ stype' = target
            /\ IF target = "classic"
               THEN /\ state' = [state EXCEPT !["server"] = "wait1"]
                    /\ ServerSends(Handshake)
                    /\ UNCHANGED established
               ELSE /\ state' = [state EXCEPT !["server"] = "active"]
                    /\ established' = established \cup {"server"}
                    /\ UNCHANGED <<writeq, armed>>
       ELSE UNCHANGED <<stype, state, established, writeq, armed>>
    /\ UNCHANGED <<setup, net, client, sent, got, calls, pc, sock, mark, bye>>

\* A handshake.accept at the wrong time ends the connection.
TakeAccepted ==
    /\ ServerTakes({Accepted}) /\ sock["server"] = "open"
    /\ IF state["server"] = "wait1"
       THEN /\ state' = [state EXCEPT !["server"] = "active"]
            /\ established' = established \cup {"server"}
            /\ UNCHANGED <<writeq, armed, pc>>
       ELSE /\ ServerSends(CloseConn) /\ Goto("sproc", "mark")
            /\ UNCHANGED <<state, established>>
    /\ UNCHANGED <<setup, net, client, sent, got, calls, sock, mark, bye, stype>>

ServerTakeCloseConn ==
    /\ ServerTakes({CloseConn}) /\ sock["server"] = "open"
    /\ Close("server")
    /\ UNCHANGED <<setup, server, client, hist, pc, alive, mark>>

\* An application's packet; conntypes has no entry before settype.
ServerTakeUser ==
    /\ ServerTakes(UserIds) /\ sock["server"] = "open" /\ stype # "ping"
    /\ IF stype = "classic" /\ Known(ServerIds, First("server"))
       THEN Gets("server", NameOf(ServerIds, First("server")))
       ELSE UNCHANGED got
    /\ UNCHANGED <<setup, net, server, client, established, sent, calls, pc, sock, mark, state>>

TakePing ==
    /\ ServerTakes({Ping}) /\ sock["server"] = "open" /\ stype = "ping"
    /\ Gets("server", "ping")
    /\ Goto("sproc", "answer")
    /\ UNCHANGED <<setup, net, server, client, established, sent, calls, sock, mark, state>>

AnswerPing ==
    /\ alive["server"] /\ At("sproc", "answer")
    /\ ServerSends(Pong)
    /\ IF sock["server"] = "open" THEN Logs("server", "pong") ELSE UNCHANGED sent
    /\ Goto("sproc", "ready")
    /\ UNCHANGED <<setup, net, client, ends, established, got, calls, bye, stype>>

\* The last line of Server.close_connection, by the proc or an application thread.
ServerMark(t) ==
    /\ alive["server"] /\ At(t, "mark")
    /\ mark' = [mark EXCEPT !["server"] = @ \/ sock["server"] = "open"]
    /\ Goto(t, "ready")
    /\ UNCHANGED <<setup, net, server, client, hist, sock, inq, state>>

-----------------------------------------------------------------------------
(* The proc thread of the client *)

ClientTakes(ps) ==
    /\ alive["client"] /\ At("cproc", "ready")
    /\ inq["client"] # <<>> /\ First("client") \in ps
    /\ inq' = [inq EXCEPT !["client"] = Tail(@)]

\* Hello with another protocol version ends the connection.  A ping connection
\* is as good as established when the server knows its type.
TakeHello ==
    /\ ClientTakes({Hello})
    /\ IF state["client"] # "hellowait"
       THEN UNCHANGED <<wire, reset, interest, mark, state, established, pc>>
       ELSE IF ~match THEN ClientCloses /\ UNCHANGED <<state, established, pc>>
       ELSE /\ ClientSends(SetType)
            /\ state' = [state EXCEPT !["client"] = "waittype"]
            /\ established' = IF target = "ping" THEN established \cup {"client"}
                              ELSE established
            /\ Goto("cproc", "init")
            /\ UNCHANGED mark
    /\ UNCHANGED <<setup, server, ids, data, pong, heard, sent, got, calls, alive, sock>>

\* init() of the connection type.
InitClassic ==
    /\ alive["client"] /\ At("cproc", "init") /\ target = "classic"
    /\ state' = [state EXCEPT !["client"] = "wait1"]
    /\ Goto("cproc", "ready")
    /\ UNCHANGED <<setup, net, server, client, hist, sock, mark, inq>>

InitPing ==
    /\ alive["client"] /\ At("cproc", "init") /\ target = "ping"
    /\ ClientSends(Ping)
    /\ IF sock["client"] = "open" THEN Logs("client", "ping") ELSE UNCHANGED sent
    /\ state' = [state EXCEPT !["client"] = "active"]
    /\ Goto("cproc", "ready")
    /\ UNCHANGED <<setup, server, ids, data, pong, heard, established, got, calls, alive,
                   sock, mark, inq>>

InitCustom ==
    /\ alive["client"] /\ At("cproc", "init") /\ target = "custom"
    /\ Goto("cproc", "ready")
    /\ UNCHANGED <<setup, net, server, client, hist, ends>>

\* Mutant: packets are numbered as they come, not by their names.
SyncedByOrder == [n \in DOMAIN ids |-> 64 + Cardinality({m \in DOMAIN ids : ids[m] < ids[n]})]

Synced == [n \in DOMAIN ids |-> IF n \in DOMAIN ServerIds THEN ServerIds[n] ELSE ids[n]]

\* The handshake at the wrong time, or with other names than the client's, ends
\* the connection; otherwise the registry takes over the IDs.
TakeHandshake ==
    /\ ClientTakes({Handshake})
    /\ IF state["client"] # "wait1"
          \/ (DOMAIN ids # DOMAIN ServerIds /\ missing = "closeconnection")
       THEN ClientCloses /\ UNCHANGED <<ids, state, established>>
       ELSE /\ ids' = Synced
            /\ ClientSends(Accepted)
            /\ state' = [state EXCEPT !["client"] = "active"]
            /\ established' = established \cup {"client"}
            /\ UNCHANGED mark
    /\ UNCHANGED <<setup, server, data, pong, heard, sent, got, calls, alive, sock, pc>>

\* Mutant: the application is told, and the socket kept.
TakeCloseConnKept ==
    /\ ClientTakes({CloseConn})
    /\ state' = [state EXCEPT !["client"] = "closed"]
    /\ heard' = TRUE
    /\ UNCHANGED <<setup, net, server, hist, pc, sock, mark, ids, interest, data, pong>>

ClientTakeCloseConn ==
    /\ ClientTakes({CloseConn})
    /\ Close("client")
    /\ heard' = TRUE
    /\ UNCHANGED <<setup, server, hist, pc, alive, mark, ids, interest, data, pong>>

\* An unknown ID raises, and ends the thread.
ClientTakeUser ==
    /\ target = "classic" /\ ClientTakes(UserIds)
    /\ IF Known(ids, First("client"))
       THEN Gets("client", NameOf(ids, First("client"))) /\ UNCHANGED pc
       ELSE Goto("cproc", "dead") /\ UNCHANGED got
    /\ UNCHANGED <<setup, net, server, client, established, sent, calls, sock, mark, state>>

\* The answer to a ping: on_pong, which closes the connection ...
TakePong ==
    /\ target = "ping" /\ ClientTakes({Pong})
    /\ Gets("client", "pong")
    /\ data' = TRUE
    /\ ClientCloses
    /\ Goto("cproc", "pong")
    /\ UNCHANGED <<setup, server, ids, pong, heard, established, sent, calls, alive, sock, state>>

\* Mutant: the waiting thread is told while the connection is open.
NotifyPongOpen ==
    /\ alive["client"] /\ At("cproc", "pong")
    /\ pong' = (sock["client"] = "open")
    /\ Goto("cproc", "finish")
    /\ UNCHANGED <<setup, net, server, ends, hist, ids, interest, data, heard>>

\* ... then _pong, which wakes wait_for_pong ...
NotifyPong ==
    /\ alive["client"] /\ At("cproc", "pong")
    /\ pong' = TRUE
    /\ Goto("cproc", "finish")
    /\ UNCHANGED <<setup, net, server, ends, hist, ids, interest, data, heard>>

\* ... and close_connection once more.
FinishPong ==
    /\ alive["client"] /\ At("cproc", "finish")
    /\ ClientCloses
    /\ Goto("cproc", "ready")
    /\ UNCHANGED <<setup, server, hist, ids, data, pong, heard, alive, sock, inq, state>>

-----------------------------------------------------------------------------
(* The applications *)

\* The applications send what both ends know.
Common == DOMAIN ids \cap DOMAIN ServerIds

MayCall(s) == alive[s] /\ calls[s] < MaxCalls[s]
Called(s) == calls' = [calls EXCEPT ![s] = @ + 1]

\* wait_for_connection, and wait_for_pong in a ping client.
WaitReturns ==
    /\ alive["client"] /\ At("capp", "waiting")
    /\ \/ target = "ping" /\ pong /\ Goto("capp", "answered")
       \/ target # "ping" /\ state["client"] \in {"active", "closed"} /\ Goto("capp", "ready")
    /\ UNCHANGED <<setup, net, server, client, ends, hist>>

PingTimesOut ==
    /\ alive["client"] /\ At("capp", "waiting") /\ target = "ping"
    /\ Goto("capp", "timedout")
    /\ UNCHANGED <<setup, net, server, client, ends, hist>>

ClientAppSends ==
    /\ MayCall("client") /\ At("capp", "ready") /\ sock["client"] = "open"
    /\ \E n \in Common : ClientSends(ids[n]) /\ Logs("client", n)
    /\ Called("client")
    /\ UNCHANGED <<setup, server, ids, data, pong, heard, established, got, alive, ends, pc>>

ClientAppCloses ==
    /\ MayCall("client") /\ target # "ping" /\ sock["client"] = "open"
    /\ ClientCloses
    /\ Called("client")
    /\ UNCHANGED <<setup, server, ids, data, pong, heard, established, sent, got, alive,
                   sock, inq, state, pc>>

\* The application answers clients that are active, not those that ping.
ServerAppSends ==
    /\ MayCall("server") /\ At("sapp", "ready") /\ sock["server"] = "open"
    /\ stype = "classic" /\ state["server"] = "active"
    /\ \E n \in Common : ServerSends(ServerIds[n]) /\ Logs("server", n)
    /\ Called("server")
    /\ UNCHANGED <<setup, net, client, ends, pc, established, got, bye, stype>>

ServerAppCloses ==
    /\ MayCall("server") /\ At("sapp", "ready") /\ sock["server"] = "open"
    /\ ServerSends(CloseConn)
    /\ Goto("sapp", "mark")
    /\ Called("server")
    /\ UNCHANGED <<setup, net, client, ends, established, sent, got, bye, stype>>

-----------------------------------------------------------------------------
ServerNet == Accept \/ NetRead("server") \/ NetEof("server")
             \/ NetWrite \/ NetDrained \/ NetRetire
ServerProc == TakeStale \/ TakeSetType \/ TakeAccepted \/ ServerTakeCloseConn
              \/ ServerTakeUser \/ TakePing \/ AnswerPing \/ ServerMark("sproc")
ClientNet == NetRead("client") \/ NetEof("client")
ClientProc == TakeHello \/ InitClassic \/ InitPing \/ InitCustom \/ TakeHandshake
              \/ ClientTakeCloseConn \/ ClientTakeUser
              \/ TakePong \/ NotifyPong \/ FinishPong
Applications == PingTimesOut \/ ClientAppSends \/ ClientAppCloses
                \/ ServerAppSends \/ ServerAppCloses

Next == \/ ServerNet \/ ServerProc \/ ServerMark("sapp")
        \/ ClientNet \/ ClientProc \/ WaitReturns
        \/ Applications
        \/ \E s \in Sides : Crash(s) \/ ResetArrives(s)

Spec == Init /\ [][Next]_vars

\* Threads run; applications, timeouts, crashes and refusals are not owed.
Fairness == /\ WF_vars(ServerNet) /\ WF_vars(ServerProc) /\ WF_vars(ServerMark("sapp"))
            /\ WF_vars(ClientNet) /\ WF_vars(ClientProc) /\ WF_vars(WaitReturns)
FairSpec == Spec /\ Fairness

Packets == {Hello, SetType, Handshake, Accepted, CloseConn} \cup UserIds

\* Every variable has the type its comment says.
TypeOK ==
    /\ target \in Targets /\ types \in TypeSets /\ match \in BOOLEAN
    /\ missing \in {"closeconnection", "ignore"} /\ OneToOne(ids)
    /\ sock \in [Sides -> {"none", "open", "closed"}]
    /\ wire \in [Sides -> Seq(Packets)] /\ inq \in [Sides -> Seq(Packets)]
    /\ writeq \in Seq(Packets)
    /\ reset \in [Sides -> BOOLEAN] /\ alive \in [Sides -> BOOLEAN]
    /\ mark \in [Sides -> BOOLEAN]
    /\ armed \in BOOLEAN /\ interest \in BOOLEAN
    /\ data \in BOOLEAN /\ pong \in BOOLEAN /\ bye \in BOOLEAN /\ heard \in BOOLEAN
    /\ state["server"] \in {"init", "waittype", "wait1", "active", "closed"}
    /\ state["client"] \in {"hellowait", "waittype", "wait1", "active", "closed"}
    /\ stype \in {"notset"} \cup Targets
    /\ pc.snet \in {"ready", "drained", "retire"} /\ pc.sapp \in {"ready", "mark"}
    /\ pc.sproc \in {"ready", "answer", "mark"}
    /\ pc.cproc \in {"ready", "init", "pong", "finish", "dead"}
    /\ pc.capp \in {"waiting", "ready", "answered", "timedout"}
    /\ established \subseteq Sides
    /\ \A s \in Sides : calls[s] \in 0..MaxCalls[s]
=============================================================================
