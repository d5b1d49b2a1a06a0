-------------------------- MODULE ServerCloseProofs --------------------------
(* How a connection ends: on_close, the selector, the reason sent before; and *)
(* that the server implements Outbox, until and beyond that end.              *)
EXTENDS ServerOrderProofs

-----------------------------------------------------------------------------
(* ForgottenWasNotified *)

\* Where a thread is inside ClientOnServer.close once on_close has been called.
Told == {"setclosed", "unregister", "shut", "forget"}

\* ForgottenWasNotified, and what makes it inductive: whoever finds the state
\* CLOSED skips on_close because it has been called; so has any thread that has
\* come further in close().
NotifiedInv ==
    /\ \A c \in Conns : state[c] = "closed" => closes[c] > 0
    /\ ForgottenWasNotified
    /\ \A t \in Threads, c \in Conns : pc[t] \in Told /\ job[t].conn = c => closes[c] > 0

\* No thread gets any further in close().
NoneTold == \A t \in Threads :
    pc'[t] \in Told => pc[t] \in Told /\ job'[t].conn = job[t].conn

LEMMA NoneToldSteps ==
    ASSUME TypeInv, NEW t \in Threads
    PROVE  /\ \A l : l \notin Told /\ Goto(t, l) => NoneTold
           /\ \A l, c, m, then : l \notin Told /\ Call(t, l, c, m, then) => NoneTold
           /\ Leave(t) => NoneTold
           /\ Return(t) => NoneTold
           /\ UNCHANGED <<pc, job>> => NoneTold
  <1>1. pc \in [Threads -> Labels] /\ job \in [Threads -> Jobs]
    BY DEF TypeInv, Control
  <1>2. Home(t) \notin Told /\ job[t].then \notin Told
    BY <1>1 DEF Home, Told, Jobs
  <1>3. ASSUME NEW l, l \notin Told, Goto(t, l) PROVE NoneTold
    BY <1>1, <1>3 DEF Goto, NoneTold
  <1>4. ASSUME NEW l, NEW c, NEW m, NEW then, l \notin Told, Call(t, l, c, m, then)
        PROVE  NoneTold
    BY <1>1, <1>4 DEF Call, NoneTold
  <1>5. Leave(t) => NoneTold
    BY <1>1, <1>2 DEF Leave, NoneTold
  <1> QED
    BY <1>2, <1>3, <1>4, <1>5 DEF Return, NoneTold

LEMMA NotifiedFrame ==
    ASSUME NotifiedInv, NoneTold, UNCHANGED <<clients, sock, closes>>,
           \A c \in Conns : state'[c] = state[c] \/ state'[c] # "closed"
    PROVE  NotifiedInv'
  BY DEF NotifiedInv, NoneTold, ForgottenWasNotified

notifyVars == <<clients, sock, closes, state>>

LEMMA NotifiedSend ==
    ASSUME TypeInv, NotifiedInv, NEW t \in Threads, NEW c \in Conns, SendStep(t, c)
    PROVE  NotifiedInv'
  <1>1. NoneTold
    BY NoneToldSteps DEF SendStep, SendAppend, SendWatch, SendWake, SendSent, HelloSent,
       CloseMark, CallClose, Told
  <1>2. UNCHANGED <<clients, sock, closes>>
    BY DEF SendStep, SendAppend, SendWatch, SendWake, SendSent, HelloSent, CloseMark,
       dataVars, tableVars, connVars
  <1>3. \A d \in Conns : state'[d] = state[d] \/ state'[d] # "closed"
    <2>1. state \in [Conns -> States]
      BY DEF TypeInv, TypeOK, ConnectionTypes
    <2> QED
      BY <2>1 DEF SendStep, SendAppend, SendWatch, SendWake, SendSent, HelloSent, CloseMark,
         dataVars, connVars
  <1> QED
    BY <1>1, <1>2, <1>3, NotifiedFrame

LEMMA NotifiedClose ==
    ASSUME TypeInv, NotifiedInv, NEW t \in Threads, NEW c \in Conns, CloseStep(t, c)
    PROVE  NotifiedInv'
  <1>0. /\ ConnectionTypes /\ pc \in [Threads -> Labels] /\ job \in [Threads -> Jobs]
    BY DEF TypeInv, TypeOK, Control
  <1>1. CASE CloseNotify(t, c)
    <2>1. UNCHANGED <<clients, sock, state>>
      BY <1>1 DEF CloseNotify, tableVars
    <2>2. closes'[c] > 0 /\ \A d \in Conns : closes[d] > 0 => closes'[d] > 0
      BY <1>0, <1>1 DEF CloseNotify, ConnectionTypes, NotifiedInv
    <2>3. \A u \in Threads : \/ pc'[u] = pc[u] /\ job'[u] = job[u]
                             \/ u = t /\ job'[u] = job[u] /\ job[u].conn = c
      BY <1>0, <1>1 DEF CloseNotify, Goto, At
    <2> QED
      BY <2>1, <2>2, <2>3 DEF NotifiedInv, ForgottenWasNotified
  <1>2. CASE ~CloseNotify(t, c)
    <2>1. At(t, pc[t], c) /\ pc[t] \in Told /\ closes[c] > 0
      BY <1>2 DEF CloseStep, CloseSetState, CloseUnregister, CloseSocket, CloseForget, At,
                  Told, NotifiedInv
    <2>2. \A u \in Threads, d \in Conns :
             pc'[u] \in Told /\ job'[u].conn = d => closes[d] > 0
      <3>1. CASE CloseForget(t, c)
        BY <3>1, NoneToldSteps DEF CloseForget, NoneTold, NotifiedInv
      <3>2. CASE ~CloseForget(t, c)
        <4>1. \A u \in Threads : pc'[u] = pc[u] \/ u = t
          BY <1>0, <1>2, <3>2 DEF CloseStep, CloseSetState, CloseUnregister, CloseSocket, Goto
        <4>2. job' = job
          BY <1>2, <3>2 DEF CloseStep, CloseSetState, CloseUnregister, CloseSocket, Goto
        <4> QED
          BY <2>1, <4>1, <4>2 DEF NotifiedInv, At
      <3> QED
        BY <3>1, <3>2
    <2>3. closes' = closes /\ \A d \in Conns \ {c} :
             state'[d] = state[d] /\ sock'[d] = sock[d] /\ (d \in clients' <=> d \in clients)
      BY <1>0, <1>2 DEF CloseStep, CloseSetState, CloseUnregister, CloseSocket, CloseForget,
                        connVars, tableVars, ConnectionTypes
    <2> QED
      BY <2>1, <2>2, <2>3 DEF NotifiedInv, ForgottenWasNotified
  <1> QED
    BY <1>1, <1>2

LEMMA NotifiedNet ==
    ASSUME TypeInv, NotifiedInv,
           LoopHead \/ SelectReturn \/ ReadIrq \/ \E c \in Conns : NetEvent(c)
    PROVE  NotifiedInv'
  <1>0. "net" \in Threads /\ ConnectionTypes
    BY DEF Threads, TypeInv, TypeOK
  <1> USE DEF dataVars, tableVars, connVars
  <1>1. CASE LoopHead \/ SelectReturn \/ ReadIrq
    <2>1. NoneTold
      BY <1>0, <1>1, NoneToldSteps DEF LoopHead, SelectReturn, ReadIrq, Told
    <2> QED
      BY <1>1, <2>1, NotifiedFrame DEF LoopHead, SelectReturn, ReadIrq
  <1>2. ASSUME NEW c \in Conns, NetEvent(c) PROVE NotifiedInv'
    <2>1. NoneTold
      <3> USE <1>0, NoneToldSteps DEF Told
      <3>1. CASE Accept(c) \/ Register(c) \/ ReceiveError(c) \/ ReceiveEof(c) \/ ReceiveReset(c)
        BY <3>1 DEF Accept, Register, ReceiveError, ReceiveEof, ReceiveReset
      <3>2. CASE Receive(c) \/ OnlyWrite(c) \/ WriteNothing(c)
        BY <3>2 DEF Receive, OnlyWrite, WriteNothing
      <3>3. CASE Unregister(c) \/ Write(c) \/ Drained(c) \/ ClearInterest(c) \/ CheckMark(c)
        BY <3>3 DEF Unregister, Write, Drained, ClearInterest, CheckMark
      <3> QED
        BY <1>2, <3>1, <3>2, <3>3 DEF NetEvent
    <2>2. CASE Accept(c)
      <3>1. /\ closes' = closes /\ clients' = clients \cup {c} /\ state'[c] = "init"
            /\ \A d \in Conns \ {c} : state'[d] = state[d] /\ sock'[d] = sock[d]
        BY <1>0, <2>2 DEF Accept, ConnectionTypes
      <3> QED
        BY <2>1, <3>1 DEF NotifiedInv, NoneTold, ForgottenWasNotified
    <2>3. CASE ~Accept(c)
      <3>1. UNCHANGED <<clients, sock, closes>>
        BY <1>2, <2>3 DEF NetEvent, Register, Receive, ReceiveError, ReceiveEof, ReceiveReset,
           Unregister, OnlyWrite, WriteNothing, Write, Drained, ClearInterest, CheckMark
      <3>2. \A d \in Conns : state'[d] = state[d] \/ state'[d] # "closed"
        BY <1>0, <1>2, <2>3 DEF NetEvent, Register, Receive, ReceiveError, ReceiveEof,
           ReceiveReset, Unregister, OnlyWrite, WriteNothing, Write, Drained, ClearInterest,
           CheckMark, ConnectionTypes
      <3> QED
        BY <2>1, <3>1, <3>2, NotifiedFrame
    <2> QED
      BY <2>2, <2>3
  <1> QED
    BY <1>1, <1>2

LEMMA NotifiedProc ==
    ASSUME TypeInv, NotifiedInv, ProcRound \/ \E c \in Conns : Handle(c)
    PROVE  NotifiedInv'
  <1>0. "proc" \in Threads /\ ConnectionTypes
    BY DEF Threads, TypeInv, TypeOK
  <1> USE DEF dataVars, tableVars, connVars
  <1>1. NoneTold
    BY <1>0, NoneToldSteps DEF ProcRound, Handle, TakeSetType, TakeAccept, TakeCloseConn,
       TakeUser, SetType, Complete, CallClose, Told
  <1>2. UNCHANGED <<clients, sock, closes>>
    BY DEF ProcRound, Handle, TakeSetType, TakeAccept, TakeCloseConn, TakeUser, Taking,
       SetType, Complete
  <1>3. \A d \in Conns : state'[d] = state[d] \/ state'[d] # "closed"
    BY <1>0 DEF ProcRound, Handle, TakeSetType, TakeAccept, TakeCloseConn, TakeUser, Taking,
       SetType, Complete, ConnectionTypes
  <1> QED
    BY <1>1, <1>2, <1>3, NotifiedFrame

LEMMA NotifiedApp ==
    ASSUME TypeInv, NotifiedInv, NEW a \in Apps,
           AppCall(a) \/ AppShutdown(a) \/ ShutdownNext(a) \/ ShutdownAwait(a)
           \/ Stop(a) \/ Poke(a) \/ Join(a)
    PROVE  NotifiedInv'
  <1>0. a \in Threads
    BY DEF Threads
  <1> USE DEF dataVars, tableVars, connVars
  <1>1. NoneTold
    BY <1>0, NoneToldSteps DEF AppCall, AppShutdown, ShutdownNext, ShutdownAwait, Stop, Poke,
       Join, CallClose, Told
  <1>2. UNCHANGED notifyVars
    BY DEF AppCall, AppShutdown, ShutdownNext, ShutdownAwait, Stop, Poke, Join, notifyVars
  <1> QED
    BY <1>1, <1>2, NotifiedFrame DEF notifyVars

LEMMA NotifiedStep == TypeInv /\ NotifiedInv /\ [Next]_vars => NotifiedInv'
  <1> SUFFICES ASSUME TypeInv, NotifiedInv, [Next]_vars PROVE NotifiedInv'
    OBVIOUS
  <1>0. "net" \in Threads /\ "proc" \in Threads /\ Apps \subseteq Threads
    BY DEF Threads
  <1>1. CASE NetStep
    BY <1>0, <1>1, NotifiedNet, NotifiedSend, NotifiedClose DEF NetStep
  <1>2. CASE ProcStep
    BY <1>0, <1>2, NotifiedProc, NotifiedSend, NotifiedClose DEF ProcStep
  <1>3. CASE \E a \in Apps : AppStep(a) \/ AppCall(a) \/ AppShutdown(a)
    BY <1>0, <1>3, NotifiedApp, NotifiedSend DEF AppStep
  <1>4. CASE (\E c \in Conns : PeerStep(c)) \/ UNCHANGED vars
    BY <1>4 DEF PeerStep, PeerConnect, PeerLeave, PeerSend, vars, dataVars, tableVars,
       connVars, NotifiedInv, ForgottenWasNotified
  <1> QED
    BY <1>1, <1>2, <1>3, <1>4 DEF Next

\* No connection leaves the table of clients before its on_close was called,
\* although two threads may be closing it and the one that finds the state
\* CLOSED does not call it: for any number of connections and threads.
THEOREM ForgottenNotified == Spec => []ForgottenWasNotified
  <1>1. Init => NotifiedInv
    BY DEF Init, NotifiedInv, ForgottenWasNotified, NoJob, Told, Threads
  <1>2. NotifiedInv => ForgottenWasNotified
    BY DEF NotifiedInv
  <1> QED
    BY <1>1, <1>2, TypeInit, TypeStep, NotifiedStep, PTL DEF Spec

-----------------------------------------------------------------------------
(* WatchedIsLive *)

\* A connection that is not in the selector yet: not accepted, or the net thread
\* is about to register it.
Fresh(c) == sock[c] = "none" \/ At("net", "register", c)

\* Nothing the proc thread could close it for has been received from it.
Unheard(c) ==
    /\ interest[c] = "none" /\ ready[c] = {}
    /\ \A i \in 1..Len(procQ) : procQ[i][1] # c
    /\ job["proc"].conn # c

\* WatchedIsLive, and why no thread can take the socket or the table's entry away
\* from a registration: close() has unregistered before it does so, and nobody
\* closes a connection that is about to be registered.
WatchedInv ==
    /\ WatchedIsLive
    /\ \A t \in {"net", "proc"}, c \in Conns :
          At(t, "shut", c) \/ At(t, "forget", c) => interest[c] = "none"
    /\ \A c \in Conns : Fresh(c) => Unheard(c)
    /\ \A c \in Conns : At("net", "register", c) => sock[c] = "open" /\ c \in clients

\* Only the close() of the net and of the proc thread ends a connection, and only
\* a registration makes it fresh no longer.
watchVars == <<clients, sock, interest, ready, procQ>>

\* The threads that can be in close() get no further in it, the net thread comes
\* to no registration, and the proc thread to no connection that is fresh.
NoneShut ==
    /\ \A t \in {"net", "proc"} : pc'[t] \in {"shut", "forget"} =>
          pc'[t] = pc[t] /\ job'[t] = job[t]
    /\ pc'["net"] = "register" => pc["net"] = "register" /\ job'["net"] = job["net"]
    /\ \A c \in Conns : Fresh(c) /\ job'["proc"].conn = c => job["proc"].conn = c

LEMMA NoneShutSteps ==
    ASSUME TypeInv, NEW t \in Threads
    PROVE  /\ \A l : l \notin {"shut", "forget", "register"} /\ Goto(t, l) => NoneShut
           /\ \A l, c, m, then :
                 /\ l \notin {"shut", "forget", "register"} /\ (t = "proc" /\ Fresh(c) => c = job[t].conn)
                 /\ Call(t, l, c, m, then)
                 => NoneShut
           /\ Leave(t) => NoneShut
           /\ Return(t) => NoneShut
           /\ UNCHANGED <<pc, job>> => NoneShut
  <1>1. pc \in [Threads -> Labels] /\ job \in [Threads -> Jobs]
        /\ {"net", "proc"} \subseteq Threads
    BY DEF TypeInv, Control, Threads
  <1>2. Home(t) \notin {"shut", "forget", "register"}
        /\ job[t].then \notin {"shut", "forget", "register"}
    BY <1>1 DEF Home, Jobs
  <1>3. ASSUME NEW l, l \notin {"shut", "forget", "register"}, Goto(t, l) PROVE NoneShut
    BY <1>1, <1>3 DEF Goto, NoneShut
  <1>4. ASSUME NEW l, NEW c, NEW m, NEW then, l \notin {"shut", "forget", "register"},
               t = "proc" /\ Fresh(c) => c = job[t].conn, Call(t, l, c, m, then)
        PROVE  NoneShut
    BY <1>1, <1>4 DEF Call, NoneShut
  <1>5. Leave(t) => NoneShut
    BY <1>1, <1>2, NoConnAssumption DEF Leave, NoneShut, NoJob
  <1> QED
    BY <1>2, <1>3, <1>4, <1>5 DEF Return, NoneShut

\* What a step may do to the selector, the table and the received packets.
LEMMA WatchedFrame ==
    ASSUME WatchedInv, NoneShut, UNCHANGED <<clients, sock>>,
           \A c \in Conns : interest[c] = "none" => interest'[c] = "none",
           \A c \in Conns : Fresh(c) => ready'[c] = {} /\
              \A i \in 1..Len(procQ') : procQ'[i][1] # c
    PROVE  WatchedInv'
  <1>1. \A c \in Conns : Fresh(c)' => Fresh(c)
    BY DEF NoneShut, Fresh, At
  <1>2. \A c \in Conns : Fresh(c)' => Unheard(c)'
    BY <1>1, NoConnAssumption DEF WatchedInv, Unheard, NoneShut
  <1> QED
    BY <1>2 DEF WatchedInv, NoneShut, WatchedIsLive, At

LEMMA WatchedSend ==
    ASSUME TypeInv, WatchedInv, NEW t \in Threads, NEW c \in Conns, SendStep(t, c)
    PROVE  WatchedInv'
  <1>1. NoneShut
    BY NoneShutSteps DEF SendStep, SendAppend, SendWatch, SendWake, SendSent, HelloSent,
       CloseMark, CallClose, At
  <1>2. UNCHANGED <<clients, sock, ready, procQ>>
    BY DEF SendStep, SendAppend, SendWatch, SendWake, SendSent, HelloSent, CloseMark,
       dataVars, tableVars, queueVars, loopVars, selVars
  <1>3. \A d \in Conns : interest[d] = "none" => interest'[d] = "none"
    BY DEF SendStep, SendAppend, SendWatch, SendWake, SendSent, HelloSent, CloseMark,
       dataVars, tableVars, TypeInv, TypeOK, ConnectionTypes
  <1> QED
    BY <1>1, <1>2, <1>3, WatchedFrame DEF WatchedInv, Unheard

LEMMA WatchedClose ==
    ASSUME TypeInv, WatchedInv, NEW t \in {"net", "proc"}, NEW c \in Conns, CloseStep(t, c)
    PROVE  WatchedInv'
  <1>0. /\ ConnectionTypes /\ pc \in [Threads -> Labels] /\ job \in [Threads -> Jobs]
        /\ {"net", "proc"} \subseteq Threads
    BY DEF TypeInv, TypeOK, Control, Threads
  <1> USE DEF tableVars, queueVars, loopVars, selVars
  <1>1. CASE CloseNotify(t, c) \/ CloseSetState(t, c)
    <2>1. NoneShut
      BY <1>0, <1>1, NoneShutSteps DEF CloseNotify, CloseSetState
    <2>2. UNCHANGED watchVars
      BY <1>1 DEF CloseNotify, CloseSetState, watchVars
    <2> QED
      BY <2>1, <2>2, WatchedFrame DEF watchVars, WatchedInv, Unheard
  <1>2. CASE ~(CloseNotify(t, c) \/ CloseSetState(t, c))
    <2>1. /\ pc[t] \in {"unregister", "shut", "forget"} /\ job[t].conn = c
          /\ pc[t] # "unregister" => interest[c] = "none"
      BY <1>2 DEF CloseStep, CloseUnregister, CloseSocket, CloseForget, At, WatchedInv
    <2>2. ~Fresh(c) \/ sock[c] = "none"
      BY <2>1 DEF WatchedInv, Unheard, Fresh, At
    <2>3. UNCHANGED <<ready, procQ>> /\ interest'[c] = "none"
      <3>1. CASE CloseUnregister(t, c)
        BY <1>0, <3>1 DEF CloseUnregister, ConnectionTypes
      <3>2. CASE CloseSocket(t, c) \/ CloseForget(t, c)
        BY <2>1, <3>2 DEF CloseSocket, CloseForget, At
      <3> QED
        BY <1>2, <3>1, <3>2 DEF CloseStep
    <2>4. \A d \in Conns \ {c} : /\ interest'[d] = interest[d] /\ sock'[d] = sock[d]
                                 /\ d \in clients' <=> d \in clients
      BY <1>0, <1>2 DEF CloseStep, CloseUnregister, CloseSocket, CloseForget, ConnectionTypes
    <2>5. /\ \A u \in {"net", "proc"} \ {t} : pc'[u] = pc[u] /\ job'[u] = job[u]
          /\ pc'[t] # "register" /\ job'[t].conn \in {c, NoConn}
      BY <1>0, <1>2, <2>1 DEF CloseStep, CloseUnregister, CloseSocket, CloseForget, Goto,
         Leave, Return, Home, NoJob, Jobs
    <2>6. \A d \in Conns : At("net", "register", d)' => At("net", "register", d) /\ d # c
      BY <2>1, <2>2, <2>5 DEF At, WatchedInv, Fresh
    <2>7. sock'[c] = "none" => sock[c] = "none"
      BY <1>0, <1>2 DEF CloseStep, CloseUnregister, CloseSocket, CloseForget, ConnectionTypes
    <2>8. \A d \in Conns : Fresh(d)' => Fresh(d)
      BY <2>4, <2>6, <2>7 DEF Fresh
    <2>9. \A d \in Conns : Fresh(d)' => Unheard(d)'
      <3>1. job'["proc"].conn \in {job["proc"].conn, NoConn}
        BY <2>1, <2>5
      <3>2. \A d \in Conns : interest[d] = "none" => interest'[d] = "none"
        BY <2>3, <2>4
      <3> QED
        BY <2>3, <2>8, <3>1, <3>2, NoConnAssumption DEF WatchedInv, Unheard
    <2>10. WatchedIsLive'
      BY <2>3, <2>4 DEF WatchedInv, WatchedIsLive
    <2>11. \A u \in {"net", "proc"}, d \in Conns :
              At(u, "shut", d)' \/ At(u, "forget", d)' => interest'[d] = "none"
      <3>1. \A d \in Conns : interest[d] = "none" => interest'[d] = "none"
        BY <2>3, <2>4
      <3> QED
        BY <2>3, <2>5, <3>1, NoConnAssumption DEF WatchedInv, At
    <2>12. \A d \in Conns : At("net", "register", d)' => sock'[d] = "open" /\ d \in clients'
      BY <2>4, <2>6 DEF WatchedInv
    <2> QED
      BY <2>9, <2>10, <2>11, <2>12 DEF WatchedInv
  <1> QED
    BY <1>1, <1>2

LEMMA WatchedAccept ==
    ASSUME TypeInv, WatchedInv, NEW c \in Conns, Accept(c)
    PROVE  WatchedInv'
  <1>0. /\ ConnectionTypes /\ pc \in [Threads -> Labels] /\ job \in [Threads -> Jobs]
        /\ "net" \in Threads /\ "proc" \in Threads
    BY DEF TypeInv, TypeOK, Control, Threads
  <1>1. /\ sock[c] = "none" /\ sock'[c] = "open" /\ clients' = clients \cup {c}
        /\ UNCHANGED <<interest, ready, procQ>>
        /\ \A d \in Conns \ {c} : sock'[d] = sock[d]
    BY <1>0 DEF Accept, Backlog, ConnectionTypes, queueVars
  <1>2. /\ pc'["net"] = "register" /\ job'["net"].conn = c
        /\ pc'["proc"] = pc["proc"] /\ job'["proc"] = job["proc"]
    BY <1>0 DEF Accept, Call
  <1>3. \A d \in Conns : Fresh(d)' => Fresh(d)
    BY <1>1, <1>2 DEF Fresh, At
  <1> QED
    BY <1>1, <1>2, <1>3 DEF WatchedInv, WatchedIsLive, Unheard, At

LEMMA WatchedRegister ==
    ASSUME TypeInv, WatchedInv, NEW c \in Conns, Register(c)
    PROVE  WatchedInv'
  <1>0. /\ ConnectionTypes /\ pc \in [Threads -> Labels] /\ job \in [Threads -> Jobs]
        /\ "net" \in Threads /\ "proc" \in Threads
    BY DEF TypeInv, TypeOK, Control, Threads
  <1>1. /\ At("net", "register", c) /\ UNCHANGED <<clients, sock, ready, procQ>>
        /\ \A d \in Conns \ {c} : interest'[d] = interest[d]
    BY <1>0 DEF Register, ConnectionTypes, queueVars, loopVars, selVars
  <1>2. /\ pc'["net"] = "append" /\ pc'["proc"] = pc["proc"] /\ job'["proc"] = job["proc"]
    BY <1>0 DEF Register, Call
  <1>3. sock[c] = "open" /\ c \in clients /\ job["proc"].conn # c
    BY <1>1 DEF WatchedInv, Fresh, Unheard
  <1>4. \A d \in Conns : Fresh(d)' => Fresh(d) /\ d # c
    BY <1>1, <1>2, <1>3 DEF Fresh, At
  <1> QED
    BY <1>1, <1>2, <1>3, <1>4 DEF WatchedInv, WatchedIsLive, Unheard, At

\* The elements of a concatenation.
LEMMA ConcatParts ==
    ASSUME NEW S, NEW T, NEW u \in Seq(S), NEW v \in Seq(T), NEW i \in 1..Len(u \o v)
    PROVE  \/ i \in 1..Len(u) /\ (u \o v)[i] = u[i]
           \/ \E j \in 1..Len(v) : (u \o v)[i] = v[j]
  <1>1. u \in Seq(S \cup T) /\ v \in Seq(S \cup T)
    OBVIOUS
  <1>2. Len(u \o v) = Len(u) + Len(v) /\ Len(u) \in Nat /\ Len(v) \in Nat
    BY <1>1
  <1>3. CASE i <= Len(u)
    BY <1>1, <1>2, <1>3
  <1>4. CASE ~(i <= Len(u))
    <2>1. i - Len(u) \in 1..Len(v) /\ (u \o v)[i] = v[i - Len(u)]
      BY <1>1, <1>2, <1>4
    <2> QED
      BY <2>1
  <1> QED
    BY <1>3, <1>4

LEMMA WatchedNet ==
    ASSUME TypeInv, WatchedInv,
           LoopHead \/ SelectReturn \/ ReadIrq \/ \E c \in Conns : NetEvent(c)
    PROVE  WatchedInv'
  <1>0. "net" \in Threads /\ ConnectionTypes /\ LoopTypes /\ QueueTypes
    BY DEF Threads, TypeInv, TypeOK
  <1> USE DEF dataVars, tableVars, queueVars, loopVars, selVars
  <1>1. CASE LoopHead \/ SelectReturn \/ ReadIrq
    <2>1. NoneShut
      BY <1>0, <1>1, NoneShutSteps DEF LoopHead, SelectReturn, ReadIrq
    <2>2. UNCHANGED <<clients, sock, interest, procQ>>
      BY <1>1 DEF LoopHead, SelectReturn, ReadIrq
    <2>3. \A c \in Conns : Fresh(c) => ready'[c] = {}
      BY <1>1 DEF LoopHead, SelectReturn, ReadIrq, ConnEvents, WatchedInv, Unheard
    <2> QED
      BY <2>1, <2>2, <2>3, WatchedFrame DEF WatchedInv, Unheard
  <1>2. ASSUME NEW c \in Conns, NetEvent(c), ~Accept(c), ~Register(c) PROVE WatchedInv'
    <2>1. NoneShut
      <3> USE <1>0, NoneShutSteps
      <3>1. CASE ReceiveError(c) \/ ReceiveEof(c) \/ ReceiveReset(c)
        BY <3>1 DEF ReceiveError, ReceiveEof, ReceiveReset
      <3>2. CASE Receive(c) \/ OnlyWrite(c) \/ WriteNothing(c)
        BY <3>2 DEF Receive, OnlyWrite, WriteNothing
      <3>3. CASE Unregister(c) \/ Write(c) \/ Drained(c) \/ ClearInterest(c) \/ CheckMark(c)
        BY <3>3 DEF Unregister, Write, Drained, ClearInterest, CheckMark
      <3> QED
        BY <1>2, <3>1, <3>2, <3>3 DEF NetEvent
    <2>2. UNCHANGED <<clients, sock>>
      BY <1>2 DEF NetEvent, Receive, ReceiveError, ReceiveEof, ReceiveReset, Unregister,
         OnlyWrite, WriteNothing, Write, Drained, ClearInterest, CheckMark
    <2>3. \A d \in Conns : interest[d] = "none" => interest'[d] = "none"
      BY <1>0, <1>2 DEF NetEvent, Receive, ReceiveError, ReceiveEof, ReceiveReset, Unregister,
         OnlyWrite, WriteNothing, Write, Drained, ClearInterest, CheckMark, ConnectionTypes
    <2>4. \A d \in Conns : ready[d] = {} => ready'[d] = {}
      BY <1>0, <1>2 DEF NetEvent, Receive, ReceiveError, ReceiveEof, ReceiveReset, Unregister,
         OnlyWrite, WriteNothing, Write, Drained, ClearInterest, CheckMark, Taken, LoopTypes
    <2>5. CASE ~Receive(c)
      <3>1. procQ' = procQ
        BY <1>2, <2>5 DEF NetEvent, ReceiveError, ReceiveEof, ReceiveReset, Unregister,
           OnlyWrite, WriteNothing, Write, Drained, ClearInterest, CheckMark
      <3> QED
        BY <2>1, <2>2, <2>3, <2>4, <3>1, WatchedFrame DEF WatchedInv, Unheard
    <2>6. CASE Receive(c)
      <3>1. ~Fresh(c)
        BY <2>6 DEF Receive, WatchedInv, Unheard
      <3>2. PICK n \in Nat : \/ procQ' = procQ
                            \/ procQ' = procQ \o [i \in 1..n |-> <<c, inbound[c][i]>>]
        <4>1. inbound[c] \in Seq(InMsgs)
          BY DEF TypeInv, TypeOK, PeerTypes
        <4>2. Len(inbound[c]) \in Nat
          BY <4>1
        <4>3. 1..Len(inbound[c]) \subseteq Nat
          BY <4>2
        <4> QED
          BY <2>6, <4>3 DEF Receive
      <3>3. \A d \in Conns \ {c} : (\A i \in 1..Len(procQ) : procQ[i][1] # d)
                               => \A i \in 1..Len(procQ') : procQ'[i][1] # d
        <4> DEFINE new == [i \in 1..n |-> <<c, inbound[c][i]>>]
        <4>1. CASE procQ' = procQ
          BY <4>1
        <4>2. CASE procQ' = procQ \o new
          <5>1. \A i \in 1..n : new[i][1] = c
            OBVIOUS
          <5>2. new \in Seq({new[i] : i \in 1..n}) /\ Len(new) = n
            OBVIOUS
          <5> HIDE DEF new
          <5>3. \A i \in 1..Len(procQ') : \/ i \in 1..Len(procQ) /\ procQ'[i] = procQ[i]
                                         \/ \E j \in 1..n : procQ'[i] = new[j]
            BY <1>0, <4>2, <5>2, ConcatParts DEF QueueTypes
          <5> QED
            BY <5>1, <5>3
        <4> QED
          BY <3>2, <4>1, <4>2
      <3> QED
        BY <2>1, <2>2, <2>3, <2>4, <3>1, <3>3, WatchedFrame DEF WatchedInv, Unheard
    <2> QED
      BY <2>5, <2>6
  <1> QED
    BY <1>1, <1>2, WatchedAccept, WatchedRegister

LEMMA WatchedProc ==
    ASSUME TypeInv, WatchedInv, ProcRound \/ \E c \in Conns : Handle(c)
    PROVE  WatchedInv'
  <1>0. "proc" \in Threads /\ ConnectionTypes /\ QueueTypes
    BY DEF Threads, TypeInv, TypeOK
  <1> USE DEF dataVars, tableVars, queueVars, loopVars, selVars
  <1>1. \A c \in Conns : \A m : Taking(c, m) => ~Fresh(c)
    <2>1. procQ # <<>> => 1 \in 1..Len(procQ) /\ procQ[1] = Head(procQ)
      BY <1>0 DEF QueueTypes
    <2> QED
      BY <2>1 DEF Taking, WatchedInv, Unheard
  <1>2. NoneShut
    BY <1>0, <1>1, NoneShutSteps DEF ProcRound, Handle, TakeSetType, TakeAccept, TakeCloseConn,
       TakeUser, SetType, Complete, CallClose, At
  <1>3. UNCHANGED <<clients, sock, interest, ready>>
    BY DEF ProcRound, Handle, TakeSetType, TakeAccept, TakeCloseConn, TakeUser, Taking,
       SetType, Complete
  <1>4. procQ' = procQ \/ (procQ # <<>> /\ procQ' = Tail(procQ))
    BY DEF ProcRound, Handle, TakeSetType, TakeAccept, TakeCloseConn, TakeUser, Taking,
       SetType, Complete
  <1>5. \A i \in 1..Len(procQ') : \E j \in 1..Len(procQ) : procQ'[i] = procQ[j]
    <2>1. procQ \in Seq(Conns \X InMsgs)
      BY <1>0 DEF QueueTypes
    <2>2. ASSUME procQ # <<>>, NEW i \in 1..Len(Tail(procQ))
          PROVE  i + 1 \in 1..Len(procQ) /\ Tail(procQ)[i] = procQ[i + 1]
      BY <2>1, <2>2
    <2> QED
      BY <1>4, <2>1, <2>2
  <1> QED
    BY <1>2, <1>3, <1>5, WatchedFrame DEF WatchedInv, Unheard

LEMMA WatchedApp ==
    ASSUME TypeInv, WatchedInv, NEW a \in Apps,
           AppCall(a) \/ AppShutdown(a) \/ ShutdownNext(a) \/ ShutdownAwait(a)
           \/ Stop(a) \/ Poke(a) \/ Join(a)
    PROVE  WatchedInv'
  <1>0. a \in Threads /\ a # "proc"
    BY AppsAssumption DEF Threads
  <1> USE DEF dataVars, tableVars, queueVars, loopVars, selVars
  <1>1. NoneShut
    BY <1>0, NoneShutSteps DEF AppCall, AppShutdown, ShutdownNext, ShutdownAwait, Stop, Poke,
       Join, CallClose
  <1>2. UNCHANGED watchVars
    BY DEF AppCall, AppShutdown, ShutdownNext, ShutdownAwait, Stop, Poke, Join, watchVars
  <1> QED
    BY <1>1, <1>2, WatchedFrame DEF watchVars, WatchedInv, Unheard

LEMMA WatchedStep == TypeInv /\ WatchedInv /\ [Next]_vars => WatchedInv'
  <1> SUFFICES ASSUME TypeInv, WatchedInv, [Next]_vars PROVE WatchedInv'
    OBVIOUS
  <1>0. "net" \in Threads /\ "proc" \in Threads /\ Apps \subseteq Threads
    BY DEF Threads
  <1>1. CASE NetStep
    BY <1>0, <1>1, WatchedNet, WatchedSend, WatchedClose DEF NetStep
  <1>2. CASE ProcStep
    BY <1>0, <1>2, WatchedProc, WatchedSend, WatchedClose DEF ProcStep
  <1>3. CASE \E a \in Apps : AppStep(a) \/ AppCall(a) \/ AppShutdown(a)
    BY <1>0, <1>3, WatchedApp, WatchedSend DEF AppStep
  <1>4. CASE (\E c \in Conns : PeerStep(c)) \/ UNCHANGED vars
    <2>1. UNCHANGED <<watchVars, pc, job>>
      BY <1>4 DEF PeerStep, PeerConnect, PeerLeave, PeerSend, vars, dataVars, tableVars,
         queueVars, loopVars, selVars, watchVars
    <2> QED
      BY <2>1 DEF watchVars, WatchedInv, WatchedIsLive, Fresh, Unheard, At
  <1> QED
    BY <1>1, <1>2, <1>3, <1>4 DEF Next

\* Whatever threads close a connection, and however the net thread is late with
\* its events, the selector never holds a socket that is closed or unknown, for
\* any number of connections and threads: no select() of the main loop raises.
THEOREM SelectorIsLive == Spec => []WatchedIsLive
  <1>1. Init => WatchedInv
    BY NoConnAssumption DEF Init, WatchedInv, WatchedIsLive, Unheard, Fresh, At, NoJob, Threads
  <1>2. WatchedInv => WatchedIsLive
    BY DEF WatchedInv
  <1> QED
    BY <1>1, <1>2, TypeInit, TypeStep, WatchedStep, PTL DEF Spec

-----------------------------------------------------------------------------
(* ReasonBeforeClose *)

Reason == "closeconn"

\* ReasonBeforeClose, and where the reason is on its way: the message of
\* close_connection that is to be queued, then queued; and the mark is set only
\* after that.
ReasonInv ==
    /\ \A t \in Threads, c \in Conns : job[t].then = "mark" /\ job[t].conn = c =>
          \/ pc[t] = "append" /\ job[t].msg = Reason
          \/ Contains(queued[c], Reason)
    /\ \A t \in Threads : pc[t] = "mark" => job[t].then = "mark"
    /\ \A c \in markClose : Contains(queued[c], Reason)
    /\ ReasonBeforeClose

\* A thread begins with close_connection, or comes to the mark when its message
\* is queued; and the net thread finds nothing to retire.
Orderly ==
    /\ \A t \in Threads : job'[t].then = "mark" =>
          \/ pc'[t] = pc[t] /\ job'[t] = job[t]
          \/ pc'[t] = "append" /\ job'[t].msg = Reason
          \/ pc[t] # "append" /\ job'[t] = job[t]
    /\ \A t \in Threads : pc'[t] = "mark" => job'[t].then = "mark"
    /\ pc'["net"] = "retire" => pc["net"] = "retire" /\ job'["net"] = job["net"]

LEMMA OrderlySteps ==
    ASSUME TypeInv, ReasonInv, NEW t \in Threads
    PROVE  /\ pc[t] # "append" =>
                 \A l : l \notin {"mark", "retire"} /\ Goto(t, l) => Orderly
           /\ \A l, c, m : \A then \in {"home", "write", "join"} :
                 l \notin {"mark", "retire"} /\ Call(t, l, c, m, then) => Orderly
           /\ \A c : CallClose(t, c) => Orderly
           /\ Leave(t) => Orderly
           /\ pc[t] # "append" => (Return(t) => Orderly)
           /\ UNCHANGED <<pc, job>> => Orderly
  <1>1. pc \in [Threads -> Labels] /\ job \in [Threads -> Jobs] /\ "net" \in Threads
    BY DEF TypeInv, Control, Threads
  <1>2. Home(t) \notin {"mark", "retire"} /\ job[t].then # "retire"
    BY <1>1 DEF Home, Jobs
  <1>3. \A u \in Threads : pc[u] = "mark" => job[u].then = "mark"
    BY DEF ReasonInv
  <1>4. ASSUME NEW l, l \notin {"mark", "retire"}, pc[t] # "append", Goto(t, l)
        PROVE  Orderly
    BY <1>1, <1>3, <1>4 DEF Goto, Orderly
  <1>5. ASSUME NEW l, NEW c, NEW m, NEW then \in {"home", "write", "join"},
               l \notin {"mark", "retire"}, Call(t, l, c, m, then)
        PROVE  Orderly
    BY <1>1, <1>3, <1>5 DEF Call, Orderly
  <1>6. ASSUME NEW c, CallClose(t, c) PROVE Orderly
    BY <1>1, <1>3, <1>6 DEF CallClose, Call, Orderly, Reason
  <1>7. Leave(t) => Orderly
    BY <1>1, <1>2, <1>3 DEF Leave, Orderly, NoJob
  <1>8. ASSUME pc[t] # "append", Return(t) PROVE Orderly
    <2>1. CASE job[t].then = "home"
      BY <1>7, <1>8, <2>1 DEF Return
    <2>2. CASE job[t].then # "home"
      BY <1>1, <1>2, <1>3, <1>8, <2>2 DEF Return, Goto, Orderly
    <2> QED
      BY <2>1, <2>2
  <1>9. UNCHANGED <<pc, job>> => Orderly
    BY <1>3 DEF Orderly
  <1> QED
    BY <1>4, <1>5, <1>6, <1>7, <1>8, <1>9

\* What a step may do to the marks and the packets.
LEMMA ReasonFrame ==
    ASSUME ReasonInv, Orderly, UNCHANGED markClose,
           \A c \in Conns : Contains(queued[c], Reason) => Contains(queued[c], Reason)',
           \A c \in Conns : Contains(wire[c], Reason) => Contains(wire[c], Reason)',
           \A c \in Conns : At("net", "retire", c) /\ sock'[c] = "open" /\ PeerUp(c)'
                              => sock[c] = "open" /\ PeerUp(c),
           markClose \subseteq Conns
    PROVE  ReasonInv'
  <1>1. \A t \in Threads, c \in Conns : job'[t].then = "mark" /\ job'[t].conn = c =>
          \/ pc'[t] = "append" /\ job'[t].msg = Reason
          \/ Contains(queued[c], Reason)'
    BY DEF ReasonInv, Orderly
  <1>2. ReasonBeforeClose'
    BY DEF ReasonInv, Orderly, ReasonBeforeClose, At, Reason
  <1> QED
    BY <1>1, <1>2 DEF ReasonInv, Orderly

reasonVars == <<markClose, queued, wire, sock, peer>>

LEMMA ReasonQuiet ==
    ASSUME TypeInv, ReasonInv, Orderly, UNCHANGED reasonVars
    PROVE  ReasonInv'
  BY ReasonFrame DEF reasonVars, PeerUp, TypeInv, TypeOK, ConnectionTypes

LEMMA ContainsAppend ==
    ASSUME NEW S, NEW q \in Seq(S), NEW m \in S
    PROVE  /\ \A e : Contains(q, e) => Contains(Append(q, m), e)
           /\ Contains(Append(q, m), m)
  <1>1. /\ Len(q) \in Nat /\ Len(Append(q, m)) = Len(q) + 1
        /\ Append(q, m)[Len(q) + 1] = m
        /\ \A i \in 1..Len(q) : Append(q, m)[i] = q[i]
    OBVIOUS
  <1>2. Len(q) + 1 \in 1..(Len(q) + 1) /\ 1..Len(q) \subseteq 1..(Len(q) + 1)
    BY <1>1
  <1> QED
    BY <1>1, <1>2 DEF Contains

LEMMA ReasonSendAppend ==
    ASSUME TypeInv, ReasonInv, NEW t \in Threads, NEW c \in Conns, SendAppend(t, c)
    PROVE  ReasonInv'
  <1>0. /\ QueueTypes /\ pc \in [Threads -> Labels] /\ job \in [Threads -> Jobs]
        /\ At(t, "append", c) /\ job[t].msg \in OutMsgs
    BY DEF TypeInv, TypeOK, Control, SendAppend, At
  <1>1. UNCHANGED <<markClose, wire, sock, peer>>
    BY DEF SendAppend, tableVars, envVars, peerVars, connVars
  <1>2. CASE c \notin clients
    BY <1>1, <1>2, OrderlySteps, ReasonQuiet DEF SendAppend, reasonVars
  <1>3. CASE c \in clients
    <2>1. queued' = [queued EXCEPT ![c] = Append(queued[c], job[t].msg)] /\ Goto(t, "watch")
      BY <1>3 DEF SendAppend
    <2>2. queued'[c] = Append(queued[c], job[t].msg) /\ queued[c] \in Seq(OutMsgs)
          /\ \A d \in Conns \ {c} : queued'[d] = queued[d]
      BY <1>0, <2>1 DEF QueueTypes
    <2>3. \A d \in Conns : Contains(queued[d], Reason) => Contains(queued[d], Reason)'
      <3>1. Contains(queued[c], Reason) => Contains(queued'[c], Reason)
        BY <1>0, <2>2, ContainsAppend
      <3> QED
        BY <2>2, <3>1
    <2>4. job[t].msg = Reason => Contains(queued[c], Reason)'
      BY <1>0, <2>2, ContainsAppend
    <2>5. /\ job' = job /\ pc'[t] = "watch"
          /\ \A u \in Threads \ {t} : pc'[u] = pc[u]
      BY <1>0, <2>1 DEF Goto
    <2>6. \A u \in Threads, d \in Conns : job'[u].then = "mark" /\ job'[u].conn = d =>
             (pc'[u] = "append" /\ job'[u].msg = Reason) \/ Contains(queued[d], Reason)'
      BY <1>0, <2>3, <2>4, <2>5 DEF ReasonInv, At
    <2>7. \A d \in markClose' : Contains(queued[d], Reason)'
      <3>1. markClose \subseteq Conns
        BY DEF TypeInv, TypeOK, ConnectionTypes
      <3> QED
        BY <1>1, <2>3, <3>1 DEF ReasonInv
    <2>8. ReasonBeforeClose'
      BY <1>1, <2>5 DEF ReasonInv, ReasonBeforeClose, At, PeerUp, Threads
    <2> QED
      BY <2>5, <2>6, <2>7, <2>8 DEF ReasonInv
  <1> QED
    BY <1>2, <1>3

LEMMA ReasonMark ==
    ASSUME TypeInv, ReasonInv, NEW t \in Threads, NEW c \in Conns, CloseMark(t, c)
    PROVE  ReasonInv'
  <1>1. Contains(queued[c], Reason)
    BY DEF CloseMark, At, ReasonInv
  <1>2. Orderly
    BY OrderlySteps DEF CloseMark
  <1>3. markClose' \subseteq markClose \cup {c} /\ UNCHANGED <<queued, wire, sock, peer>>
    BY DEF CloseMark, tableVars, queueVars, envVars, peerVars
  <1>4. \A u \in Threads, d \in Conns : job'[u].then = "mark" /\ job'[u].conn = d =>
          (pc'[u] = "append" /\ job'[u].msg = Reason) \/ Contains(queued[d], Reason)'
    BY <1>2, <1>3 DEF ReasonInv, Orderly
  <1>5. ReasonBeforeClose'
    BY <1>2, <1>3 DEF ReasonInv, ReasonBeforeClose, Orderly, At, PeerUp
  <1> QED
    BY <1>1, <1>2, <1>3, <1>4, <1>5 DEF ReasonInv, Orderly

LEMMA ReasonSend ==
    ASSUME TypeInv, ReasonInv, NEW t \in Threads, NEW c \in Conns, SendStep(t, c)
    PROVE  ReasonInv'
  <1>1. CASE SendWatch(t, c) \/ SendWake(t, c) \/ SendSent(t, c) \/ HelloSent(t, c)
    <2>1. Orderly
      BY <1>1, OrderlySteps DEF SendWatch, SendWake, SendSent, HelloSent, At
    <2>2. UNCHANGED reasonVars
      BY <1>1 DEF SendWatch, SendWake, SendSent, HelloSent, reasonVars, dataVars, tableVars,
         queueVars, envVars, peerVars, connVars
    <2> QED
      BY <2>1, <2>2, ReasonQuiet
  <1> QED
    BY <1>1, ReasonSendAppend, ReasonMark DEF SendStep

LEMMA ReasonClose ==
    ASSUME TypeInv, ReasonInv, NEW t \in Threads, NEW c \in Conns, CloseStep(t, c)
    PROVE  ReasonInv'
  <1>1. Orderly
    BY OrderlySteps DEF CloseStep, CloseNotify, CloseSetState, CloseUnregister, CloseSocket,
       CloseForget, At
  <1>2. UNCHANGED <<markClose, queued, wire, peer>>
    BY DEF CloseStep, CloseNotify, CloseSetState, CloseUnregister, CloseSocket, CloseForget,
       tableVars, queueVars, envVars, peerVars, connVars
  <1>3. \A d \in Conns : sock'[d] = "open" => sock[d] = "open"
    BY DEF CloseStep, CloseNotify, CloseSetState, CloseUnregister, CloseSocket, CloseForget,
       tableVars, TypeInv, TypeOK, ConnectionTypes
  <1> QED
    BY <1>1, <1>2, <1>3, ReasonFrame DEF PeerUp, TypeInv, TypeOK, ConnectionTypes

\* With an empty queue all that was queued has gone out, the reason as well.
LEMMA ReasonCheckMark ==
    ASSUME TypeInv, OrderInv, ReasonInv, NEW c \in Conns, CheckMark(c)
    PROVE  ReasonInv'
  <1>0. "net" \in Threads /\ QueueTypes /\ pc \in [Threads -> Labels]
    BY DEF Threads, TypeInv, TypeOK, Control
  <1>1. CASE c \in markClose /\ writeQ[c] = <<>>
    <2>1. Goto("net", "retire") /\ UNCHANGED dataVars /\ At("net", "check", c)
      BY <1>1 DEF CheckMark
    <2>2. sock[c] = "open" /\ PeerUp(c) => Contains(wire[c], Reason)
      <3>1. wire[c] \o <<>> = wire[c]
        BY <1>0 DEF QueueTypes
      <3> QED
        BY <1>1, <3>1 DEF OrderInv, OrderAt, ReasonInv
    <2>3. UNCHANGED reasonVars
      BY <2>1 DEF reasonVars, dataVars, tableVars, queueVars, envVars, peerVars, connVars
    <2>4. pc'["net"] = "retire" /\ job' = job
          /\ \A u \in Threads \ {"net"} : pc'[u] = pc[u]
      BY <1>0, <2>1 DEF Goto
    <2>5. ReasonBeforeClose'
      BY <2>1, <2>2, <2>3, <2>4 DEF ReasonBeforeClose, At, reasonVars, PeerUp, Reason
    <2>6. \A u \in Threads, d \in Conns : job[u].then = "mark" /\ job[u].conn = d =>
             (pc'[u] = "append" /\ job[u].msg = Reason) \/ Contains(queued[d], Reason)
      BY <2>1, <2>4 DEF ReasonInv, At
    <2> QED
      BY <2>3, <2>4, <2>5, <2>6 DEF ReasonInv, reasonVars
  <1>2. CASE ~(c \in markClose /\ writeQ[c] = <<>>)
    <2>1. Leave("net") /\ UNCHANGED dataVars
      BY <1>2, Zenon DEF CheckMark
    <2>2. UNCHANGED reasonVars
      BY <2>1 DEF reasonVars, dataVars, tableVars, queueVars, envVars, peerVars, connVars
    <2> QED
      BY <1>0, <2>1, <2>2, OrderlySteps, ReasonQuiet
  <1> QED
    BY <1>1, <1>2

LEMMA ReasonWrite ==
    ASSUME TypeInv, ReasonInv, NEW c \in Conns, Write(c)
    PROVE  ReasonInv'
  <1>0. "net" \in Threads /\ QueueTypes
    BY DEF Threads, TypeInv, TypeOK
  <1>1. Orderly
    BY <1>0, OrderlySteps DEF Write, At
  <1>2. UNCHANGED <<markClose, queued, sock, peer>>
    BY DEF Write, tableVars, envVars, peerVars, connVars
  <1>3. \A d \in Conns : Contains(wire[d], Reason) => Contains(wire[d], Reason)'
    <2>1. CASE wire' = [wire EXCEPT ![c] = Append(wire[c], Head(writeQ[c]))]
      <3>1. /\ wire'[c] = Append(wire[c], Head(writeQ[c])) /\ wire[c] \in Seq(OutMsgs)
            /\ \A d \in Conns \ {c} : wire'[d] = wire[d]
        BY <1>0, <2>1 DEF QueueTypes
      <3>2. writeQ[c] \in Seq(OutMsgs) /\ writeQ[c] # <<>>
        BY <1>0 DEF QueueTypes, Write
      <3>3. Head(writeQ[c]) \in OutMsgs
        BY <3>2
      <3>4. Contains(wire[c], Reason) => Contains(wire'[c], Reason)
        BY <3>1, <3>3, ContainsAppend
      <3> QED
        BY <3>1, <3>4
    <2>2. CASE wire' = wire
      BY <2>2
    <2> QED
      BY <2>1, <2>2 DEF Write
  <1> QED
    BY <1>1, <1>2, <1>3, ReasonFrame DEF PeerUp, TypeInv, TypeOK, ConnectionTypes

LEMMA ReasonNet ==
    ASSUME TypeInv, OrderInv, ReasonInv,
           LoopHead \/ SelectReturn \/ ReadIrq \/ \E c \in Conns : NetEvent(c)
    PROVE  ReasonInv'
  <1>0. "net" \in Threads /\ ConnectionTypes /\ pc \in [Threads -> Labels]
    BY DEF Threads, TypeInv, TypeOK, Control
  <1> USE DEF dataVars, tableVars, connVars, queueVars, envVars, peerVars, reasonVars
  <1>1. CASE LoopHead \/ SelectReturn \/ ReadIrq
    <2>1. Orderly
      BY <1>0, <1>1, OrderlySteps DEF LoopHead, SelectReturn, ReadIrq
    <2> QED
      BY <1>1, <2>1, ReasonQuiet DEF LoopHead, SelectReturn, ReadIrq
  <1>2. ASSUME NEW c \in Conns, Accept(c) PROVE ReasonInv'
    <2>1. Orderly
      BY <1>0, <1>2, OrderlySteps DEF Accept
    <2>2. UNCHANGED <<markClose, queued, wire, peer>> /\ pc["net"] = "loop"
      BY <1>2 DEF Accept
    <2> QED
      BY <1>0, <2>1, <2>2, ReasonFrame DEF At, ConnectionTypes
  <1>3. ASSUME NEW c \in Conns, NetEvent(c), ~Accept(c), ~Write(c), ~CheckMark(c)
        PROVE  ReasonInv'
    <2>1. Orderly
      <3> USE <1>0, OrderlySteps DEF At, AfterRead
      <3>1. CASE Register(c) \/ ReceiveError(c) \/ ReceiveEof(c) \/ ReceiveReset(c)
        BY <3>1 DEF Register, ReceiveError, ReceiveEof, ReceiveReset
      <3>2. CASE Receive(c) \/ OnlyWrite(c) \/ WriteNothing(c)
        BY <3>2 DEF Receive, OnlyWrite, WriteNothing
      <3>3. CASE Unregister(c) \/ Drained(c) \/ ClearInterest(c)
        BY <3>3 DEF Unregister, Drained, ClearInterest
      <3> QED
        BY <1>3, <3>1, <3>2, <3>3 DEF NetEvent
    <2>2. UNCHANGED reasonVars
      BY <1>3 DEF NetEvent, Register, Receive, ReceiveError, ReceiveEof, ReceiveReset,
         Unregister, OnlyWrite, WriteNothing, Drained, ClearInterest
    <2> QED
      BY <2>1, <2>2, ReasonQuiet
  <1> QED
    BY <1>1, <1>2, <1>3, ReasonWrite, ReasonCheckMark

LEMMA ReasonProc ==
    ASSUME TypeInv, ReasonInv, ProcRound \/ \E c \in Conns : Handle(c)
    PROVE  ReasonInv'
  <1>0. "proc" \in Threads
    BY DEF Threads
  <1>1. Orderly
    BY <1>0, OrderlySteps DEF ProcRound, Handle, TakeSetType, TakeAccept, TakeCloseConn,
       TakeUser, Taking, SetType, Complete, At
  <1>2. UNCHANGED reasonVars
    BY DEF ProcRound, Handle, TakeSetType, TakeAccept, TakeCloseConn, TakeUser, Taking, SetType,
       Complete, dataVars, tableVars, connVars, queueVars, envVars, peerVars, reasonVars
  <1> QED
    BY <1>1, <1>2, ReasonQuiet

LEMMA ReasonApp ==
    ASSUME TypeInv, ReasonInv, NEW a \in Apps,
           AppCall(a) \/ AppShutdown(a) \/ ShutdownNext(a) \/ ShutdownAwait(a)
           \/ Stop(a) \/ Poke(a) \/ Join(a)
    PROVE  ReasonInv'
  <1>0. a \in Threads
    BY DEF Threads
  <1>1. Orderly
    BY <1>0, OrderlySteps DEF AppCall, AppShutdown, Calling, ShutdownNext, ShutdownAwait, Stop,
       Poke, Join
  <1>2. UNCHANGED reasonVars
    BY DEF AppCall, AppShutdown, ShutdownNext, ShutdownAwait, Stop, Poke, Join, dataVars,
       tableVars, connVars, queueVars, peerVars, envVars, reasonVars
  <1> QED
    BY <1>1, <1>2, ReasonQuiet

LEMMA ReasonPeer ==
    ASSUME TypeInv, OrderInv, ReasonInv, NEW c \in Conns, PeerStep(c)
    PROVE  ReasonInv'
  <1>0. "net" \in Threads /\ PeerTypes
    BY DEF Threads, TypeInv, TypeOK
  <1>1. Orderly /\ UNCHANGED <<markClose, queued, wire, sock>>
    BY <1>0, OrderlySteps DEF PeerStep, PeerConnect, PeerLeave, PeerSend, tableVars, queueVars,
       connVars
  <1>2. \A d \in Conns : sock[d] = "open" /\ PeerUp(d)' => PeerUp(d)
    BY <1>0 DEF PeerStep, PeerConnect, PeerLeave, PeerSend, MaySend, PeerUp, PeerTypes, OrderInv,
       OrderAt
  <1> QED
    BY <1>1, <1>2, ReasonFrame DEF TypeInv, TypeOK, ConnectionTypes

LEMMA ReasonStep == TypeInv /\ OrderInv /\ ReasonInv /\ [Next]_vars => ReasonInv'
  <1> SUFFICES ASSUME TypeInv, OrderInv, ReasonInv, [Next]_vars PROVE ReasonInv'
    OBVIOUS
  <1>0. "net" \in Threads /\ "proc" \in Threads /\ Apps \subseteq Threads
    BY DEF Threads
  <1>1. CASE NetStep
    BY <1>0, <1>1, ReasonNet, ReasonSend, ReasonClose DEF NetStep
  <1>2. CASE ProcStep
    BY <1>0, <1>2, ReasonProc, ReasonSend, ReasonClose DEF ProcStep
  <1>3. CASE \E a \in Apps : AppStep(a) \/ AppCall(a) \/ AppShutdown(a)
    BY <1>0, <1>3, ReasonApp, ReasonSend DEF AppStep
  <1>4. CASE UNCHANGED vars
    <2>1. UNCHANGED <<reasonVars, pc, job>>
      BY <1>4 DEF vars, dataVars, tableVars, connVars, queueVars, envVars, peerVars, reasonVars
    <2> QED
      BY <1>0, <2>1, OrderlySteps, ReasonQuiet
  <1> QED
    BY <1>1, <1>2, <1>3, <1>4, ReasonPeer DEF Next

\* As long as sendall() does not fail half way, the net thread closes a marked
\* connection only when the reason has gone out to its peer, however many packets
\* other threads queue before, after and between: close_connection marks when its
\* message is in the queue, and the queue is in order.
THEOREM ReasonIsSent == ~SendMayBlock => (Spec => []ReasonBeforeClose)
  <1> SUFFICES ASSUME ~SendMayBlock PROVE Spec => []ReasonBeforeClose
    OBVIOUS
  <1>1. Init => ReasonInv
    BY DEF Init, ReasonInv, ReasonBeforeClose, At, NoJob, Threads
  <1>2. ReasonInv => ReasonBeforeClose
    BY DEF ReasonInv
  <1>3. TypeInv /\ OrderInv /\ [Next]_vars => OrderInv'
    BY OrderStep
  <1> QED
    BY <1>1, <1>2, <1>3, TypeInit, TypeStep, OrderInit, ReasonStep, PTL DEF Spec

-----------------------------------------------------------------------------
(* The socket and the table of clients *)

\* The two threads that close connections work on accepted ones only; the table
\* loses a connection after its socket is closed.
TableInv ==
    /\ \A t \in {"net", "proc"}, c \in Conns : job[t].conn = c => sock[c] # "none"
    /\ \A t \in {"net", "proc"}, c \in Conns : At(t, "forget", c) => sock[c] = "closed"
    /\ \A c \in Conns : sock[c] = "open" => c \in clients

\* The net and the proc thread begin with no connection but accepted ones, and
\* come to the last step of close() in none.
Accepted ==
    /\ \A t \in {"net", "proc"}, c \in Conns : job'[t].conn = c =>
          job[t].conn = c \/ sock'[c] # "none"
    /\ \A t \in {"net", "proc"} : pc'[t] = "forget" => pc[t] = "forget" /\ job'[t] = job[t]

LEMMA AcceptedSteps ==
    ASSUME TypeInv, NEW t \in Threads
    PROVE  /\ \A l : l # "forget" /\ Goto(t, l) => Accepted
           /\ \A c \in Conns : \A l, m, then :
                 /\ l # "forget" /\ (job[t].conn = c \/ sock'[c] # "none" \/ t \in Apps)
                 /\ Call(t, l, c, m, then)
                 => Accepted
           /\ \A l, m, then : l # "forget" /\ Call(t, l, NoConn, m, then) => Accepted
           /\ Leave(t) => Accepted
           /\ Return(t) => Accepted
           /\ UNCHANGED <<pc, job>> => Accepted
  <1>1. pc \in [Threads -> Labels] /\ job \in [Threads -> Jobs]
        /\ {"net", "proc"} \subseteq Threads
    BY DEF TypeInv, Control, Threads
  <1>2. Home(t) # "forget" /\ job[t].then # "forget"
    BY <1>1 DEF Home, Jobs
  <1>3. ASSUME NEW l, l # "forget", Goto(t, l) PROVE Accepted
    BY <1>1, <1>3 DEF Goto, Accepted
  <1>4. ASSUME NEW l, NEW c \in Conns, NEW m, NEW then, l # "forget",
               job[t].conn = c \/ sock'[c] # "none" \/ t \in Apps, Call(t, l, c, m, then)
        PROVE  Accepted
    BY <1>1, <1>4, AppsAssumption DEF Call, Accepted
  <1>5. ASSUME NEW l, NEW m, NEW then, l # "forget", Call(t, l, NoConn, m, then)
        PROVE  Accepted
    BY <1>1, <1>5, NoConnAssumption DEF Call, Accepted
  <1>6. Leave(t) => Accepted
    BY <1>1, <1>2, NoConnAssumption DEF Leave, Accepted, NoJob
  <1>7. Return(t) => Accepted
    BY <1>2, <1>3, <1>6 DEF Return
  <1> QED
    BY <1>3, <1>4, <1>5, <1>6, <1>7 DEF Accepted

LEMMA TableFrame ==
    ASSUME TableInv, Accepted, UNCHANGED <<clients, sock>>
    PROVE  TableInv'
  BY DEF TableInv, Accepted, At

LEMMA TableSend ==
    ASSUME TypeInv, TableInv, NEW t \in Threads, NEW c \in Conns, SendStep(t, c)
    PROVE  TableInv'
  <1>1. Accepted
    BY AcceptedSteps DEF SendStep, SendAppend, SendWatch, SendWake, SendSent, HelloSent,
       CloseMark, CallClose, At
  <1>2. UNCHANGED <<clients, sock>>
    BY DEF SendStep, SendAppend, SendWatch, SendWake, SendSent, HelloSent, CloseMark,
       dataVars, tableVars
  <1> QED
    BY <1>1, <1>2, TableFrame

LEMMA TableClose ==
    ASSUME TypeInv, TableInv, NEW t \in {"net", "proc"}, NEW c \in Conns, CloseStep(t, c)
    PROVE  TableInv'
  <1>0. /\ ConnectionTypes /\ pc \in [Threads -> Labels] /\ job \in [Threads -> Jobs]
        /\ {"net", "proc"} \subseteq Threads
    BY DEF TypeInv, TypeOK, Control, Threads
  <1> USE DEF tableVars
  <1>1. CASE CloseNotify(t, c) \/ CloseSetState(t, c) \/ CloseUnregister(t, c)
    <2>1. Accepted
      BY <1>0, <1>1, AcceptedSteps DEF CloseNotify, CloseSetState, CloseUnregister
    <2>2. UNCHANGED <<clients, sock>>
      BY <1>1 DEF CloseNotify, CloseSetState, CloseUnregister
    <2> QED
      BY <2>1, <2>2, TableFrame
  <1>2. CASE CloseSocket(t, c)
    <2>1. /\ clients' = clients /\ sock'[c] = "closed" /\ job' = job /\ job[t].conn = c
          /\ \A d \in Conns \ {c} : sock'[d] = sock[d]
          /\ \A u \in {"net", "proc"} \ {t} : pc'[u] = pc[u]
      BY <1>0, <1>2 DEF CloseSocket, ConnectionTypes, Goto, At
    <2> QED
      BY <2>1 DEF TableInv, At
  <1>3. CASE CloseForget(t, c)
    <2>1. sock' = sock /\ clients' = clients \ {c} /\ sock[c] = "closed"
      BY <1>3 DEF CloseForget, TableInv
    <2>2. Accepted
      BY <1>0, <1>3, AcceptedSteps DEF CloseForget
    <2> QED
      BY <2>1, <2>2 DEF TableInv, Accepted, At
  <1> QED
    BY <1>1, <1>2, <1>3 DEF CloseStep

LEMMA TableNet ==
    ASSUME TypeInv, WatchedInv, TableInv,
           LoopHead \/ SelectReturn \/ ReadIrq \/ \E c \in Conns : NetEvent(c)
    PROVE  TableInv'
  <1>0. "net" \in Threads /\ ConnectionTypes /\ pc \in [Threads -> Labels]
        /\ job \in [Threads -> Jobs]
    BY DEF Threads, TypeInv, TypeOK, Control
  <1> USE DEF dataVars, tableVars
  <1>1. CASE LoopHead \/ SelectReturn \/ ReadIrq
    <2>1. Accepted
      BY <1>0, <1>1, AcceptedSteps DEF LoopHead, SelectReturn, ReadIrq
    <2> QED
      BY <1>1, <2>1, TableFrame DEF LoopHead, SelectReturn, ReadIrq
  <1>2. ASSUME NEW c \in Conns, Accept(c) PROVE TableInv'
    <2>1. /\ clients' = clients \cup {c} /\ sock[c] = "none" /\ sock'[c] = "open"
          /\ \A d \in Conns \ {c} : sock'[d] = sock[d]
      BY <1>0, <1>2 DEF Accept, Backlog, ConnectionTypes
    <2>2. Accepted
      BY <1>0, <1>2, <2>1, AcceptedSteps DEF Accept
    <2> QED
      BY <2>1, <2>2 DEF TableInv, Accepted, At
  <1>3. ASSUME NEW c \in Conns, NetEvent(c), ~Accept(c) PROVE TableInv'
    <2>1. UNCHANGED <<clients, sock>>
      BY <1>3 DEF NetEvent, Register, Receive, ReceiveError, ReceiveEof, ReceiveReset,
         Unregister, OnlyWrite, WriteNothing, Write, Drained, ClearInterest, CheckMark
    <2>2. ready[c] # {} => sock'[c] # "none"
      BY <2>1 DEF WatchedInv, Fresh, Unheard
    <2>3. Accepted
      <3> USE <1>0, <2>2, AcceptedSteps DEF At
      <3>1. CASE Register(c) \/ ReceiveError(c) \/ ReceiveEof(c) \/ ReceiveReset(c)
        BY <3>1 DEF Register, ReceiveError, ReceiveEof, ReceiveReset
      <3>2. CASE Receive(c) \/ OnlyWrite(c) \/ WriteNothing(c)
        BY <3>2 DEF Receive, OnlyWrite, WriteNothing
      <3>3. CASE Unregister(c) \/ Write(c) \/ Drained(c) \/ ClearInterest(c) \/ CheckMark(c)
        BY <3>3 DEF Unregister, Write, Drained, ClearInterest, CheckMark
      <3> QED
        BY <1>3, <3>1, <3>2, <3>3 DEF NetEvent
    <2> QED
      BY <2>1, <2>3, TableFrame
  <1> QED
    BY <1>1, <1>2, <1>3

LEMMA TableProc ==
    ASSUME TypeInv, WatchedInv, TableInv, ProcRound \/ \E c \in Conns : Handle(c)
    PROVE  TableInv'
  <1>0. "proc" \in Threads /\ QueueTypes
    BY DEF Threads, TypeInv, TypeOK
  <1> USE DEF dataVars, tableVars
  <1>1. UNCHANGED <<clients, sock>>
    BY DEF ProcRound, Handle, TakeSetType, TakeAccept, TakeCloseConn, TakeUser, Taking,
       SetType, Complete
  <1>2. \A c \in Conns : \A m : Taking(c, m) => sock'[c] # "none"
    <2>1. procQ # <<>> => 1 \in 1..Len(procQ) /\ procQ[1] = Head(procQ)
      BY <1>0 DEF QueueTypes
    <2> QED
      BY <1>1, <2>1 DEF Taking, WatchedInv, Unheard, Fresh
  <1>3. Accepted
    BY <1>0, <1>2, AcceptedSteps DEF ProcRound, Handle, TakeSetType, TakeAccept, TakeCloseConn,
       TakeUser, SetType, Complete, CallClose, At
  <1> QED
    BY <1>1, <1>3, TableFrame

LEMMA TableApp ==
    ASSUME TypeInv, TableInv, NEW a \in Apps,
           AppCall(a) \/ AppShutdown(a) \/ ShutdownNext(a) \/ ShutdownAwait(a)
           \/ Stop(a) \/ Poke(a) \/ Join(a)
    PROVE  TableInv'
  <1>0. a \in Threads /\ clients \subseteq Conns /\ todo[a] \subseteq Conns
    BY DEF Threads, TypeInv, TypeOK, ConnectionTypes, ThreadTypes
  <1> USE DEF dataVars, tableVars
  <1>1. Accepted
    BY <1>0, AcceptedSteps DEF AppCall, AppShutdown, ShutdownNext, ShutdownAwait, Stop, Poke,
       Join, CallClose
  <1>2. UNCHANGED <<clients, sock>>
    BY DEF AppCall, AppShutdown, ShutdownNext, ShutdownAwait, Stop, Poke, Join
  <1> QED
    BY <1>1, <1>2, TableFrame

LEMMA TableStep == TypeInv /\ WatchedInv /\ TableInv /\ [Next]_vars => TableInv'
  <1> SUFFICES ASSUME TypeInv, WatchedInv, TableInv, [Next]_vars PROVE TableInv'
    OBVIOUS
  <1>0. "net" \in Threads /\ "proc" \in Threads /\ Apps \subseteq Threads
    BY DEF Threads
  <1>1. CASE NetStep
    BY <1>0, <1>1, TableNet, TableSend, TableClose DEF NetStep
  <1>2. CASE ProcStep
    BY <1>0, <1>2, TableProc, TableSend, TableClose DEF ProcStep
  <1>3. CASE \E a \in Apps : AppStep(a) \/ AppCall(a) \/ AppShutdown(a)
    BY <1>0, <1>3, TableApp, TableSend DEF AppStep
  <1>4. CASE (\E c \in Conns : PeerStep(c)) \/ UNCHANGED vars
    <2>1. UNCHANGED <<clients, sock, pc, job>>
      BY <1>4 DEF PeerStep, PeerConnect, PeerLeave, PeerSend, vars, dataVars, tableVars
    <2> QED
      BY <1>0, <2>1, AcceptedSteps, TableFrame
  <1> QED
    BY <1>1, <1>2, <1>3, <1>4 DEF Next

-----------------------------------------------------------------------------
(* The refinement *)

\* A packet more of a sequence of which w is the beginning.
LEMMA NextOfPrefix ==
    ASSUME NEW S, NEW w \in Seq(S), NEW u \in Seq(S), u # <<>>
    PROVE  /\ Len(w) < Len(w \o u)
           /\ Append(w, Head(u)) = SubSeq(w \o u, 1, Len(w) + 1)
  OBVIOUS

phases == [c \in Conns |-> Phase(c)]

LEMMA AbstractAppend ==
    ASSUME TypeInv, OrderInv, NEW t \in Threads, NEW c \in Conns, SendAppend(t, c)
    PROVE  [Abstract!Next]_Abstract!vars
  <1>0. QueueTypes /\ job[t].msg \in OutMsgs
    BY DEF TypeInv, TypeOK, Control, SendAppend, At
  <1>1. UNCHANGED <<clients, sock, wire>>
    BY DEF SendAppend, tableVars
  <1>2. UNCHANGED phases
    BY <1>1 DEF phases, Phase
  <1>3. CASE c \in clients
    <2>1. queued' = [queued EXCEPT ![c] = Append(queued[c], job[t].msg)]
      BY <1>3 DEF SendAppend
    <2>2. phases[c] = "open"
      BY <1>3 DEF phases, Phase
    <2>3. Abstract!Accept(c, job[t].msg)
      BY <1>1, <1>2, <2>1, <2>2 DEF Abstract!Accept, phases
    <2> QED
      BY <1>0, <2>3 DEF Abstract!Next
  <1>4. CASE c \notin clients
    BY <1>1, <1>2, <1>4 DEF SendAppend, Abstract!vars, phases
  <1> QED
    BY <1>3, <1>4

LEMMA AbstractWrite ==
    ASSUME ~SendMayBlock, TypeInv, OrderInv, TableInv, NEW c \in Conns, Write(c)
    PROVE  [Abstract!Next]_Abstract!vars
  <1>0. QueueTypes
    BY DEF TypeInv, TypeOK
  <1>1. UNCHANGED <<clients, sock, queued>> /\ writeQ[c] # <<>>
    BY DEF Write, tableVars
  <1>2. UNCHANGED phases
    BY <1>1 DEF phases, Phase
  <1>3. CASE /\ sock[c] = "open" /\ PeerUp(c)
             /\ wire' = [wire EXCEPT ![c] = Append(wire[c], Head(writeQ[c]))]
    <2>1. queued[c] = wire[c] \o writeQ[c] /\ c \in clients
      BY <1>3 DEF OrderInv, OrderAt, TableInv
    <2>2. wire[c] \in Seq(OutMsgs) /\ writeQ[c] \in Seq(OutMsgs)
      BY <1>0 DEF QueueTypes
    <2>3. /\ Len(wire[c]) < Len(queued[c])
          /\ Append(wire[c], Head(writeQ[c])) = SubSeq(queued[c], 1, Len(wire[c]) + 1)
      BY <1>1, <2>1, <2>2, NextOfPrefix
    <2>4. phases[c] = "open"
      BY <2>1 DEF phases, Phase
    <2>5. Abstract!Deliver(c)
      BY <1>1, <1>2, <1>3, <2>3, <2>4 DEF Abstract!Deliver, phases
    <2> QED
      BY <2>5 DEF Abstract!Next
  <1>4. CASE wire' = wire
    BY <1>1, <1>2, <1>4 DEF Abstract!vars, phases
  <1> QED
    BY <1>3, <1>4 DEF Write

LEMMA AbstractAccept ==
    ASSUME TypeInv, OrderInv, NEW c \in Conns, Accept(c)
    PROVE  Abstract!Next
  <1>1. /\ sock[c] = "none" /\ sock' = [sock EXCEPT ![c] = "open"]
        /\ clients' = clients \cup {c} /\ UNCHANGED <<queued, wire>>
    BY DEF Accept, Backlog, queueVars
  <1>2. phases[c] = "absent"
    BY <1>1 DEF phases, Phase, OrderInv, OrderAt
  <1>3. \A d \in Conns \ {c} : Phase(d)' = Phase(d)
    BY <1>1 DEF Phase, TypeInv, TypeOK, ConnectionTypes
  <1>4. phases' = [phases EXCEPT ![c] = "open"]
    BY <1>1, <1>3 DEF phases, Phase
  <1>5. Abstract!Open(c)
    BY <1>1, <1>2, <1>4 DEF Abstract!Open, phases
  <1> QED
    BY <1>5 DEF Abstract!Next

LEMMA AbstractClose ==
    ASSUME TypeInv, OrderInv, TableInv, NEW t \in {"net", "proc"}, NEW c \in Conns,
           CloseSocket(t, c) \/ CloseForget(t, c)
    PROVE  [Abstract!Next]_Abstract!vars
  <1>0. UNCHANGED <<queued, wire>> /\ sock[c] # "none" /\ ConnectionTypes
    BY DEF CloseSocket, CloseForget, queueVars, At, TableInv, TypeInv, TypeOK
  <1>1. CASE CloseSocket(t, c)
    <2>1. sock' = [sock EXCEPT ![c] = "closed"] /\ UNCHANGED clients
      BY <1>1 DEF CloseSocket
    <2>2. \A d \in Conns : Phase(d)' = Phase(d)
      BY <1>0, <2>1 DEF Phase, ConnectionTypes
    <2>3. UNCHANGED phases
      BY <2>2 DEF phases
    <2> QED
      BY <1>0, <2>3 DEF Abstract!vars, phases
  <1>2. CASE CloseForget(t, c)
    <2>1. clients' = clients \ {c} /\ UNCHANGED sock
      BY <1>2 DEF CloseForget
    <2>2. \A d \in Conns \ {c} : Phase(d)' = Phase(d)
      BY <2>1 DEF Phase
    <2>3. Phase(c)' = "closed"
      BY <1>0, <2>1 DEF Phase
    <2>4. CASE c \in clients
      <3>1. phases[c] = "open"
        BY <2>4 DEF phases, Phase
      <3>2. phases' = [phases EXCEPT ![c] = "closed"]
        BY <2>2, <2>3 DEF phases
      <3>3. Abstract!Close(c)
        BY <1>0, <3>1, <3>2 DEF Abstract!Close, phases
      <3> QED
        BY <3>3 DEF Abstract!Next
    <2>5. CASE c \notin clients
      <3>1. UNCHANGED phases
        BY <2>1, <2>5 DEF phases, Phase
      <3> QED
        BY <1>0, <3>1 DEF Abstract!vars, phases
    <2> QED
      BY <2>4, <2>5
  <1> QED
    BY <1>1, <1>2

\* Every step of a thread is a step of Outbox, or none.
LEMMA AbstractStep ==
    ASSUME ~SendMayBlock, TypeInv, OrderInv, TableInv, [Next]_vars
    PROVE  [Abstract!Next]_Abstract!vars
  <1>1. CASE UNCHANGED orderVars
    <2>1. UNCHANGED phases
      BY <1>1 DEF orderVars, phases, Phase
    <2> QED
      BY <1>1, <2>1 DEF orderVars, Abstract!vars, phases
  <1>2. ASSUME NEW c \in Conns, PeerStep(c) PROVE [Abstract!Next]_Abstract!vars
    <2>1. UNCHANGED <<clients, sock, queued, wire>>
      BY <1>2 DEF PeerStep, PeerConnect, PeerLeave, PeerSend, tableVars, queueVars
    <2>2. UNCHANGED phases
      BY <2>1 DEF phases, Phase
    <2> QED
      BY <2>1, <2>2 DEF Abstract!vars, phases
  <1> QED
    BY <1>1, <1>2, NextFrame, AbstractAppend, AbstractWrite, AbstractAccept, AbstractClose

LEMMA AbstractInit == Init => Abstract!Init
  BY DEF Init, Abstract!Init, Phase

\* As long as sendall() does not fail half way, the server implements Outbox for any
\* number of connections, threads and packets: packets are accepted and go out only
\* between _accept and the moment the connection is forgotten, and what goes out
\* is the next packet of those accepted, although three threads and the peer take
\* part.
THEOREM OutboxImplemented == ~SendMayBlock => (Spec => ImplementsOutbox)
  <1> SUFFICES ASSUME ~SendMayBlock PROVE Spec => ImplementsOutbox
    OBVIOUS
  <1>1. Init => WatchedInv /\ TableInv
    BY NoConnAssumption DEF Init, WatchedInv, WatchedIsLive, Unheard, Fresh, At, NoJob,
       Threads, TableInv
  <1>2. TypeInv /\ OrderInv /\ [Next]_vars => OrderInv'
    BY OrderStep
  <1>3. TypeInv /\ OrderInv /\ TableInv /\ [Next]_vars => [Abstract!Next]_Abstract!vars
    BY AbstractStep
  <1> QED
    BY <1>1, <1>2, <1>3, TypeInit, TypeStep, OrderInit, WatchedStep, TableStep, AbstractInit,
       PTL DEF Spec, ImplementsOutbox, Abstract!Spec
=============================================================================
