-------------------------- MODULE ServerOrderProofs --------------------------
(* The packets of a connection go out in order; a sleeping selector is woken. *)
EXTENDS ServerProofs

-----------------------------------------------------------------------------
(* Which steps touch the packets of a connection *)

orderVars == <<clients, sock, writeQ, queued, wire, peer>>

LEMMA SendFrame ==
    ASSUME NEW t, NEW c, SendStep(t, c)
    PROVE  SendAppend(t, c) \/ UNCHANGED orderVars
  BY DEF SendStep, SendWatch, SendWake, SendSent, HelloSent, CloseMark, orderVars,
         dataVars, tableVars, queueVars, envVars, peerVars

LEMMA CloseFrame ==
    ASSUME NEW t, NEW c, CloseStep(t, c)
    PROVE  CloseSocket(t, c) \/ CloseForget(t, c) \/ UNCHANGED orderVars
  BY DEF CloseStep, CloseNotify, CloseSetState, CloseUnregister, orderVars,
         tableVars, queueVars, envVars, peerVars

LEMMA NetFrame ==
    ASSUME NetStep
    PROVE  \/ \E c \in Conns : Accept(c) \/ Write(c)
           \/ \E c \in Conns : SendStep("net", c) \/ CloseStep("net", c)
           \/ UNCHANGED orderVars
  <1> USE DEF orderVars, dataVars, tableVars, queueVars, envVars, peerVars
  <1>1. CASE LoopHead \/ SelectReturn \/ ReadIrq
    BY <1>1 DEF LoopHead, SelectReturn, ReadIrq
  <1>2. CASE \E c \in Conns : NetEvent(c)
    BY <1>2 DEF NetEvent, Register, Receive, ReceiveError, ReceiveEof, ReceiveReset,
                Unregister, OnlyWrite, WriteNothing, Drained, ClearInterest, CheckMark
  <1> QED
    BY <1>1, <1>2 DEF NetStep

LEMMA ProcFrame ==
    ASSUME ProcStep
    PROVE  \/ \E c \in Conns : SendStep("proc", c) \/ CloseStep("proc", c)
           \/ UNCHANGED orderVars
  <1> USE DEF orderVars, dataVars, tableVars, queueVars, envVars, peerVars
  <1>1. CASE ProcRound
    BY <1>1 DEF ProcRound
  <1>2. CASE \E c \in Conns : Handle(c)
    BY <1>2 DEF Handle, TakeSetType, TakeAccept, TakeCloseConn, TakeUser, Taking,
                SetType, Complete
  <1> QED
    BY <1>1, <1>2 DEF ProcStep

LEMMA AppFrame ==
    ASSUME NEW a \in Apps, AppStep(a) \/ AppCall(a) \/ AppShutdown(a)
    PROVE  (\E c \in Conns : SendStep(a, c)) \/ UNCHANGED orderVars
  BY DEF AppStep, AppCall, AppShutdown, ShutdownNext, ShutdownAwait, Stop, Poke, Join,
         orderVars, dataVars, tableVars, queueVars, envVars, peerVars

LEMMA NextFrame ==
    ASSUME [Next]_vars
    PROVE  \/ \E t \in Threads, c \in Conns : SendAppend(t, c)
           \/ \E t \in {"net", "proc"}, c \in Conns : CloseSocket(t, c) \/ CloseForget(t, c)
           \/ \E c \in Conns : Accept(c) \/ Write(c) \/ PeerStep(c)
           \/ UNCHANGED orderVars
  <1>1. "net" \in Threads /\ "proc" \in Threads /\ Apps \subseteq Threads
    BY DEF Threads
  <1>2. CASE NetStep
    BY <1>1, <1>2, NetFrame, SendFrame, CloseFrame
  <1>3. CASE ProcStep
    BY <1>1, <1>3, ProcFrame, SendFrame, CloseFrame
  <1>4. CASE \E a \in Apps : AppStep(a) \/ AppCall(a) \/ AppShutdown(a)
    BY <1>1, <1>4, AppFrame, SendFrame
  <1>5. CASE UNCHANGED vars
    BY <1>5 DEF vars, dataVars, tableVars, queueVars, envVars, peerVars, orderVars
  <1> QED
    BY <1>2, <1>3, <1>4, <1>5 DEF Next

-----------------------------------------------------------------------------
(* Sequences *)

LEMMA PrefixAppend ==
    ASSUME NEW S, NEW w \in Seq(S), NEW q \in Seq(S), NEW m \in S, IsPrefix(w, q)
    PROVE  IsPrefix(w, Append(q, m))
  BY DEF IsPrefix

LEMMA ConcatPrefix ==
    ASSUME NEW S, NEW w \in Seq(S), NEW u \in Seq(S)
    PROVE  IsPrefix(w, w \o u)
  BY DEF IsPrefix

LEMMA ConcatAppend ==
    \A w, u \in Seq(OutMsgs), m \in OutMsgs : w \o Append(u, m) = Append(w \o u, m)
  OBVIOUS

LEMMA ConcatMove ==
    ASSUME NEW S, NEW w \in Seq(S), NEW u \in Seq(S), u # <<>>
    PROVE  Append(w, Head(u)) \o Tail(u) = w \o u
  OBVIOUS

-----------------------------------------------------------------------------
(* InOrder *)

\* InOrder of one connection, and what makes it inductive: a connection that
\* is not accepted is unknown to send_message, and its queue is empty.
OrderAt(c) ==
    /\ IsPrefix(wire[c], queued[c])
    /\ sock[c] = "open" /\ PeerUp(c) => wire[c] \o writeQ[c] = queued[c]
    /\ sock[c] = "none" => /\ c \notin clients
                           /\ writeQ[c] = <<>> /\ queued[c] = <<>> /\ wire[c] = <<>>
    /\ peer[c] = "away" => sock[c] # "open"
OrderInv == \A c \in Conns : OrderAt(c)

LEMMA OrderInit == Init => OrderInv
  BY DEF Init, OrderInv, OrderAt, IsPrefix

\* A step on the packets of one connection leaves those of the others alone.
LEMMA OrderOthers ==
    ASSUME TypeInv, OrderInv, NEW c \in Conns, OrderAt(c)',
           \A d \in Conns \ {c} :
              /\ d \in clients' <=> d \in clients
              /\ sock'[d] = sock[d] /\ writeQ'[d] = writeQ[d]
              /\ queued'[d] = queued[d] /\ wire'[d] = wire[d] /\ peer'[d] = peer[d]
    PROVE  OrderInv'
  BY DEF OrderInv, OrderAt, PeerUp

LEMMA OrderSendAppend ==
    ASSUME TypeInv, OrderInv, NEW t \in Threads, NEW c \in Conns, SendAppend(t, c)
    PROVE  OrderInv'
  <1>1. CASE c \in clients
    <2> DEFINE m == job[t].msg
    <2>1. QueueTypes /\ m \in OutMsgs
      BY DEF TypeInv, TypeOK, Control, SendAppend, At
    <2>2. /\ writeQ' = [writeQ EXCEPT ![c] = Append(writeQ[c], m)]
          /\ queued' = [queued EXCEPT ![c] = Append(queued[c], m)]
          /\ UNCHANGED <<clients, sock, wire, peer>>
      BY <1>1 DEF SendAppend, tableVars, envVars, peerVars
    <2>3. /\ wire[c] \in Seq(OutMsgs) /\ writeQ[c] \in Seq(OutMsgs)
          /\ queued[c] \in Seq(OutMsgs)
          /\ writeQ'[c] = Append(writeQ[c], m) /\ queued'[c] = Append(queued[c], m)
      BY <2>1, <2>2 DEF QueueTypes
    <2> HIDE DEF m
    <2>4. OrderAt(c) /\ sock[c] # "none"
      BY <1>1 DEF OrderInv, OrderAt
    <2>5. IsPrefix(wire[c], Append(queued[c], m))
      BY <2>1, <2>3, <2>4, PrefixAppend DEF OrderAt
    <2>6. wire[c] \o Append(writeQ[c], m) = Append(wire[c] \o writeQ[c], m)
      <3>1. wire[c] \in Seq(OutMsgs) /\ writeQ[c] \in Seq(OutMsgs) /\ m \in OutMsgs
        BY <2>1, <2>3
      <3> QED
        BY <3>1, ConcatAppend, Zenon
    <2>7. OrderAt(c)'
      BY <2>2, <2>3, <2>4, <2>5, <2>6 DEF OrderAt, PeerUp
    <2>8. \A d \in Conns \ {c} : writeQ'[d] = writeQ[d] /\ queued'[d] = queued[d]
      BY <2>1, <2>2 DEF QueueTypes
    <2> QED
      BY <2>2, <2>7, <2>8, OrderOthers
  <1>2. CASE c \notin clients
    BY <1>2 DEF SendAppend, tableVars, envVars, peerVars, OrderInv, OrderAt, PeerUp
  <1> QED
    BY <1>1, <1>2

LEMMA OrderWrite ==
    ASSUME ~SendMayBlock, TypeInv, OrderInv, NEW c \in Conns, Write(c)
    PROVE  OrderInv'
  <1>1. QueueTypes
    BY DEF TypeInv, TypeOK
  <1>2. /\ writeQ[c] # <<>>
        /\ writeQ' = [writeQ EXCEPT ![c] = Tail(writeQ[c])]
        /\ UNCHANGED <<clients, sock, queued, peer>>
    BY DEF Write, tableVars, envVars, peerVars
  <1>3. wire[c] \in Seq(OutMsgs) /\ writeQ[c] \in Seq(OutMsgs) /\ OrderAt(c)
    BY <1>1 DEF QueueTypes, OrderInv
  <1>4. sock[c] # "none"
    BY <1>2, <1>3 DEF OrderAt
  <1>5. CASE /\ sock[c] = "open" /\ PeerUp(c)
             /\ wire' = [wire EXCEPT ![c] = Append(wire[c], Head(writeQ[c]))]
    <2>1. wire'[c] = Append(wire[c], Head(writeQ[c])) /\ writeQ'[c] = Tail(writeQ[c])
      BY <1>1, <1>2, <1>5 DEF QueueTypes
    <2>2. wire'[c] \o writeQ'[c] = queued[c]
      BY <1>2, <1>3, <1>5, <2>1, ConcatMove DEF OrderAt
    <2>3. wire'[c] \in Seq(OutMsgs) /\ writeQ'[c] \in Seq(OutMsgs)
      BY <1>2, <1>3, <2>1
    <2>4. IsPrefix(wire'[c], queued[c])
      BY <2>2, <2>3, ConcatPrefix
    <2>5. OrderAt(c)'
      BY <1>2, <1>3, <1>5, <2>2, <2>4 DEF OrderAt, PeerUp
    <2>6. \A d \in Conns \ {c} : writeQ'[d] = writeQ[d] /\ wire'[d] = wire[d]
      BY <1>1, <1>2, <1>5 DEF QueueTypes
    <2> QED
      BY <1>2, <2>5, <2>6, OrderOthers
  <1>6. CASE wire' = wire /\ ~(sock[c] = "open" /\ PeerUp(c))
    <2>1. OrderAt(c)'
      BY <1>2, <1>3, <1>4, <1>6 DEF OrderAt, PeerUp
    <2>2. \A d \in Conns \ {c} : writeQ'[d] = writeQ[d]
      BY <1>1, <1>2 DEF QueueTypes
    <2> QED
      BY <1>2, <1>6, <2>1, <2>2, OrderOthers
  <1> QED
    BY <1>4, <1>5, <1>6 DEF Write, PeerUp

LEMMA OrderAccept ==
    ASSUME TypeInv, OrderInv, NEW c \in Conns, Accept(c)
    PROVE  OrderInv'
  <1>1. ConnectionTypes /\ PeerTypes
    BY DEF TypeInv, TypeOK
  <1>2. /\ sock[c] = "none" /\ peer[c] # "away"
        /\ sock' = [sock EXCEPT ![c] = "open"] /\ clients' = clients \cup {c}
        /\ UNCHANGED <<writeQ, queued, wire, peer>>
    BY DEF Accept, Backlog, queueVars, envVars, peerVars
  <1>3. sock'[c] = "open" /\ \A d \in Conns \ {c} : sock'[d] = sock[d]
    BY <1>1, <1>2 DEF ConnectionTypes
  <1>4. writeQ[c] = <<>> /\ queued[c] = <<>> /\ wire[c] = <<>> /\ OrderAt(c)
    BY <1>2 DEF OrderInv, OrderAt
  <1>5. wire[c] \o writeQ[c] = queued[c]
    BY <1>4
  <1>6. OrderAt(c)'
    BY <1>2, <1>3, <1>4, <1>5 DEF OrderAt
  <1> QED
    BY <1>2, <1>3, <1>6, OrderOthers

LEMMA OrderCloseSocket ==
    ASSUME TypeInv, OrderInv, NEW t \in Threads, NEW c \in Conns, CloseSocket(t, c)
    PROVE  OrderInv'
  <1>1. ConnectionTypes
    BY DEF TypeInv, TypeOK
  <1>2. sock' = [sock EXCEPT ![c] = "closed"]
        /\ UNCHANGED <<clients, writeQ, queued, wire, peer>>
    BY DEF CloseSocket, queueVars, envVars, peerVars
  <1>3. sock'[c] = "closed" /\ \A d \in Conns \ {c} : sock'[d] = sock[d]
    BY <1>1, <1>2 DEF ConnectionTypes
  <1>4. OrderAt(c)'
    BY <1>2, <1>3 DEF OrderInv, OrderAt
  <1> QED
    BY <1>2, <1>3, <1>4, OrderOthers

LEMMA OrderCloseForget ==
    ASSUME TypeInv, OrderInv, NEW t \in Threads, NEW c \in Conns, CloseForget(t, c)
    PROVE  OrderInv'
  <1>1. clients' = clients \ {c} /\ UNCHANGED <<sock, writeQ, queued, wire, peer>>
    BY DEF CloseForget, queueVars, envVars, peerVars
  <1> QED
    BY <1>1 DEF OrderInv, OrderAt, PeerUp

LEMMA OrderPeer ==
    ASSUME TypeInv, OrderInv, NEW c \in Conns, PeerStep(c)
    PROVE  OrderInv'
  <1>1. PeerTypes
    BY DEF TypeInv, TypeOK
  <1>2. UNCHANGED <<clients, sock, writeQ, queued, wire>>
    BY DEF PeerStep, PeerConnect, PeerLeave, PeerSend, dataVars, tableVars, queueVars
  <1>3. \A d \in Conns \ {c} : peer'[d] = peer[d]
    BY <1>1 DEF PeerTypes, PeerStep, PeerConnect, PeerLeave, PeerSend
  <1>4. peer'[c] # "away" /\ (peer[c] = "away" \/ ~PeerUp(c)' \/ PeerUp(c))
    <2>1. CASE PeerConnect(c) \/ PeerLeave(c)
      BY <1>1, <2>1 DEF PeerTypes, PeerConnect, PeerLeave, PeerUp
    <2>2. CASE \E m \in PeerOps \cap InMsgs : PeerSend(c, m)
      <3>1. PICK m \in InMsgs : PeerSend(c, m)
        BY <2>2
      <3>2. PeerUp(c)
        BY <3>1 DEF PeerSend, MaySend, PeerUp
      <3>3. PhaseAfter(c, m) # "away"
        BY <3>2 DEF PhaseAfter, PeerUp, InMsgs
      <3> QED
        BY <1>1, <3>1, <3>2, <3>3 DEF PeerTypes, PeerSend
    <2> QED
      BY <2>1, <2>2 DEF PeerStep
  <1>5. OrderAt(c)'
    BY <1>2, <1>4 DEF OrderInv, OrderAt
  <1> QED
    BY <1>2, <1>3, <1>5, OrderOthers

LEMMA OrderStep == ~SendMayBlock /\ TypeInv /\ OrderInv /\ [Next]_vars => OrderInv'
  <1> SUFFICES ASSUME ~SendMayBlock, TypeInv, OrderInv, [Next]_vars PROVE OrderInv'
    OBVIOUS
  <1>1. CASE UNCHANGED orderVars
    BY <1>1 DEF orderVars, OrderInv, OrderAt, PeerUp
  <1>2. {"net", "proc"} \subseteq Threads
    BY DEF Threads
  <1> QED
    BY <1>1, <1>2, NextFrame, OrderSendAppend, OrderCloseSocket, OrderCloseForget,
       OrderAccept, OrderWrite, OrderPeer

\* As long as sendall() does not fail half way, the packets of a connection
\* leave in the order in which the threads queued them, none twice and none
\* left out, for any number of connections and threads: the deque needs no
\* lock, although send_message and _client_ready use it at the same time.
THEOREM PacketsInOrder == ~SendMayBlock => (Spec => []InOrder)
  <1> SUFFICES ASSUME ~SendMayBlock PROVE Spec => []InOrder
    OBVIOUS
  <1>1. OrderInv => InOrder
    BY DEF OrderInv, OrderAt, InOrder
  <1>2. TypeInv /\ OrderInv /\ [Next]_vars => OrderInv'
    BY OrderStep
  <1> QED
    BY <1>1, <1>2, TypeInit, TypeStep, OrderInit, PTL DEF Spec

-----------------------------------------------------------------------------
(* WakeupPending *)

wakeVars == <<interest, watched, irq, lock, pc["net"]>>

\* The net thread enters select() from the head of its loop only.
LEMMA NetNotSelecting ==
    ASSUME TypeInv, NetStep, ~LoopHead
    PROVE  pc'["net"] # "select"
  <1>0. "net" \in Threads /\ Home("net") = "loop" /\ pc \in [Threads -> Labels]
        /\ job["net"].then # "select"
    BY DEF Threads, Home, TypeInv, Control, Jobs
  <1>1. CASE SelectReturn \/ ReadIrq
    BY <1>0, <1>1 DEF SelectReturn, ReadIrq, Goto
  <1>2. CASE \E c \in Conns : NetEvent(c)
    <2> USE <1>0 DEF Goto, Call, Leave, At
    <2>1. PICK c \in Conns : NetEvent(c)
      BY <1>2
    <2>2. CASE Accept(c) \/ Register(c) \/ ReceiveError(c) \/ ReceiveEof(c)
                \/ ReceiveReset(c)
      BY <2>2 DEF Accept, Register, ReceiveError, ReceiveEof, ReceiveReset
    <2>3. CASE Receive(c) \/ OnlyWrite(c) \/ WriteNothing(c)
      BY <2>3 DEF Receive, OnlyWrite, WriteNothing
    <2>4. CASE Unregister(c) \/ Write(c) \/ Drained(c)
      BY <2>4 DEF Unregister, Write, Drained
    <2>5. CASE ClearInterest(c) \/ CheckMark(c)
      BY <2>5 DEF ClearInterest, CheckMark
    <2> QED
      BY <2>1, <2>2, <2>3, <2>4, <2>5 DEF NetEvent
  <1>3. CASE \E c \in Conns : SendStep("net", c)
    <2> USE <1>0 DEF Goto, Call, CallClose, Leave, Return
    <2>1. PICK c \in Conns : SendStep("net", c)
      BY <1>3
    <2>2. CASE SendAppend("net", c) \/ SendWatch("net", c) \/ SendWake("net", c)
      BY <2>2 DEF SendAppend, SendWatch, SendWake
    <2>3. CASE SendSent("net", c) \/ HelloSent("net", c) \/ CloseMark("net", c)
      BY <2>3 DEF SendSent, HelloSent, CloseMark
    <2> QED
      BY <2>1, <2>2, <2>3 DEF SendStep
  <1>4. CASE \E c \in Conns : CloseStep("net", c)
    BY <1>0, <1>4 DEF CloseStep, CloseNotify, CloseSetState, CloseUnregister,
                      CloseSocket, CloseForget, Goto, Leave, Return
  <1> QED
    BY <1>1, <1>2, <1>3, <1>4 DEF NetStep

LEMMA NetStays ==
    ASSUME TypeInv, NEW t \in Threads \ {"net"}
    PROVE  /\ \A l : Goto(t, l) => pc'["net"] = pc["net"]
           /\ \A l, c, m, then : Call(t, l, c, m, then) => pc'["net"] = pc["net"]
           /\ Leave(t) => pc'["net"] = pc["net"]
           /\ Return(t) => pc'["net"] = pc["net"]
  <1>1. pc \in [Threads -> Labels] /\ "net" \in Threads /\ t \in Threads
    BY DEF TypeInv, Control, Threads
  <1> QED
    BY <1>1 DEF Goto, Call, Leave, Return

\* What the other threads do to a sleeping net thread.
LEMMA WakeSend ==
    ASSUME TypeInv, WakeupPending, NEW t \in Threads \ {"net"}, NEW c \in Conns,
           SendStep(t, c)
    PROVE  WakeupPending'
  <1>0. ConnectionTypes /\ LoopTypes /\ t # "none"
    BY AppsAssumption DEF TypeInv, TypeOK, Threads
  <1> USE DEF dataVars, tableVars, loopVars, selVars
  <1>1. CASE SendWatch(t, c)
    <2>1. CASE lock' = t
      BY <1>0, <2>1 DEF WakeupPending, LockFree
    <2>2. CASE interest' = interest
      BY <1>1, <2>2, NetStays DEF SendWatch, WakeupPending, LockFree
    <2> QED
      BY <1>1, <2>1, <2>2 DEF SendWatch
  <1>2. CASE SendWake(t, c)
    BY <1>0, <1>2 DEF SendWake, LoopTypes, WakeupPending
  <1>3. CASE SendAppend(t, c) \/ SendSent(t, c) \/ HelloSent(t, c) \/ CloseMark(t, c)
    <2>1. UNCHANGED wakeVars
      BY <1>3, NetStays DEF SendAppend, SendSent, HelloSent, CloseMark, CallClose,
                            wakeVars
    <2> QED
      BY <2>1 DEF wakeVars, WakeupPending, LockFree
  <1> QED
    BY <1>1, <1>2, <1>3 DEF SendStep

LEMMA WakeClose ==
    ASSUME TypeInv, WakeupPending, NEW t \in Threads \ {"net"}, NEW c \in Conns,
           CloseStep(t, c)
    PROVE  WakeupPending'
  <1>0. ConnectionTypes
    BY DEF TypeInv, TypeOK
  <1>1. UNCHANGED <<watched, irq, lock, pc["net"]>>
    BY NetStays DEF CloseStep, CloseNotify, CloseSetState, CloseUnregister,
                    CloseSocket, CloseForget, loopVars, selVars
  <1>2. \A d \in Conns : interest'[d] = interest[d] \/ interest'[d] = "none"
    BY <1>0 DEF CloseStep, CloseNotify, CloseSetState, CloseUnregister, CloseSocket,
                CloseForget, ConnectionTypes, tableVars
  <1> QED
    BY <1>1, <1>2 DEF WakeupPending, LockFree

LEMMA WakeStep == TypeInv /\ WakeupPending /\ [Next]_vars => WakeupPending'
  <1> SUFFICES ASSUME TypeInv, WakeupPending, [Next]_vars PROVE WakeupPending'
    OBVIOUS
  <1>0. pc \in [Threads -> Labels] /\ LoopTypes
        /\ "proc" \in Threads \ {"net"} /\ Apps \subseteq Threads \ {"net"}
    BY AppsAssumption DEF TypeInv, TypeOK, Control, Threads
  <1> USE DEF dataVars, tableVars, loopVars, selVars
  <1>1. CASE NetStep
    <2>1. CASE LoopHead
      BY <1>0, <2>1 DEF LoopHead, WakeupPending, Goto
    <2> QED
      BY <1>1, <2>1, NetNotSelecting DEF WakeupPending
  <1>2. CASE ProcRound \/ \E c \in Conns : Handle(c)
    <2>1. UNCHANGED wakeVars
      BY <1>0, <1>2, NetStays DEF ProcRound, Handle, TakeSetType, TakeAccept,
         TakeCloseConn, TakeUser, Taking, SetType, Complete, CallClose, wakeVars
    <2> QED
      BY <2>1 DEF wakeVars, WakeupPending, LockFree
  <1>3. CASE \E c \in Conns : SendStep("proc", c) \/ CloseStep("proc", c)
    BY <1>0, <1>3, WakeSend, WakeClose
  <1>4. CASE \E a \in Apps, c \in Conns : SendStep(a, c)
    BY <1>0, <1>4, WakeSend
  <1>5. CASE \E a \in Apps : Poke(a) \/ Join(a)
    <2>1. PICK a \in Apps : Poke(a) \/ Join(a)
      BY <1>5
    <2>2. UNCHANGED <<interest, watched, lock, pc["net"]>>
      BY <1>0, <2>1, NetStays DEF Poke, Join
    <2>3. irq' = irq + 1 \/ irq' = irq
      BY <2>1 DEF Poke, Join
    <2>4. irq > 0 => irq' > 0
      BY <1>0, <2>3 DEF LoopTypes
    <2> QED
      BY <2>2, <2>4 DEF WakeupPending, LockFree
  <1>6. CASE \E a \in Apps : \/ AppCall(a) \/ AppShutdown(a) \/ ShutdownNext(a)
                           \/ ShutdownAwait(a) \/ Stop(a)
    <2>1. UNCHANGED wakeVars
      BY <1>0, <1>6, NetStays DEF AppCall, AppShutdown, ShutdownNext,
         ShutdownAwait, Stop, CallClose, wakeVars
    <2> QED
      BY <2>1 DEF wakeVars, WakeupPending, LockFree
  <1>7. CASE (\E c \in Conns : PeerStep(c)) \/ UNCHANGED vars
    BY <1>7 DEF PeerStep, PeerConnect, PeerSend, PeerLeave, vars, WakeupPending,
                LockFree
  <1> QED
    BY <1>1, <1>2, <1>3, <1>4, <1>5, <1>6, <1>7 DEF Next, ProcStep, AppStep

\* With a select()- or poll()-style selector the net thread never sleeps on a
\* connection that wants to write: whoever asked for EVENT_WRITE behind its
\* back has written a wake-up, or holds _selector_lock and is about to.
THEOREM SleeperIsWoken == Spec => []WakeupPending
  <1>1. Init => WakeupPending
    BY DEF Init, WakeupPending, Threads
  <1> QED
    BY <1>1, TypeInit, TypeStep, WakeStep, PTL DEF Spec
=============================================================================
