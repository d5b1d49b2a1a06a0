----------------------------- MODULE ServerProofs -----------------------------
(* Theorems about Server, for any connections, threads and bounds. *)
EXTENDS ServerProps, TLAPS

USE AppsAssumption, NoConnAssumption, OpsAssumption, BoundsAssumption

-----------------------------------------------------------------------------
(* Type correctness *)

\* The control state is well typed; at "append" there is a packet to append.
Control == /\ pc \in [Threads -> Labels]
           /\ job \in [Threads -> Jobs]
           /\ \A t \in Threads : pc[t] = "append" => job[t].msg \in OutMsgs

\* An irq event of the round is backed by a byte in the interrupt pair.
LoopInv == LoopTypes /\ ("irq" \in readySys => irq > 0)

TypeInv == TypeOK /\ Control /\ LoopInv

LEMMA HomeLabel == \A t \in Threads : Home(t) \in Labels \ {"append"}
  BY SMT DEF Home, Labels, SendLabels, CloseLabels, NetLabels, ProcLabels, AppLabels

LEMMA GotoControl ==
    ASSUME Control, NEW t \in Threads, NEW l \in Labels \ {"append"}, Goto(t, l)
    PROVE  Control'
  BY SMT DEF Control, Goto

LEMMA CallControl ==
    ASSUME Control, NEW t \in Threads, NEW l \in Labels,
           NEW c \in Conns \cup {NoConn}, NEW m \in OutMsgs \cup {"none"},
           NEW then \in {"home", "mark", "write", "join"},
           l = "append" => m \in OutMsgs, Call(t, l, c, m, then)
    PROVE  Control'
  BY SMT DEF Control, Call, Jobs

LEMMA LeaveControl ==
    ASSUME Control, NEW t \in Threads, Leave(t)
    PROVE  Control'
  <1>1. Home(t) \in Labels \ {"append"}
    BY HomeLabel
  <1> QED
    BY <1>1, SMT DEF Control, Leave, NoJob, Jobs

LEMMA ReturnControl ==
    ASSUME Control, NEW t \in Threads, Return(t)
    PROVE  Control'
  <1>1. CASE job[t].then = "home"
    BY <1>1, LeaveControl, SMT DEF Return
  <1>2. CASE job[t].then # "home"
    <2>1. job[t].then \in Labels \ {"append"}
      BY <1>2, SMT DEF Control, Jobs, Labels, SendLabels, NetLabels, AppLabels
    <2> QED
      BY <1>2, <2>1, GotoControl, SMT DEF Return
  <1> QED
    BY <1>1, <1>2

\* A packet appended to one of the queues of packets.
LEMMA AppendType ==
    ASSUME NEW q \in [Conns -> Seq(OutMsgs)], NEW c \in Conns, NEW m \in OutMsgs
    PROVE  [q EXCEPT ![c] = Append(q[c], m)] \in [Conns -> Seq(OutMsgs)]
  <1>1. Append(q[c], m) \in Seq(OutMsgs)
    OBVIOUS
  <1> QED
    BY <1>1

LEMMA AppendQueues ==
    ASSUME QueueTypes, NEW t \in Threads, NEW c \in Conns, SendAppend(t, c),
           job[t].msg \in OutMsgs
    PROVE  QueueTypes'
  <1>1. CASE c \in clients
    <2>1. /\ writeQ' = [writeQ EXCEPT ![c] = Append(writeQ[c], job[t].msg)]
          /\ queued' = [queued EXCEPT ![c] = Append(queued[c], job[t].msg)]
          /\ UNCHANGED <<wire, procQ>>
      BY <1>1 DEF SendAppend
    <2>2. writeQ' \in [Conns -> Seq(OutMsgs)]
      BY <2>1, AppendType DEF QueueTypes
    <2>3. queued' \in [Conns -> Seq(OutMsgs)]
      BY <2>1, AppendType DEF QueueTypes
    <2> QED
      BY <2>1, <2>2, <2>3 DEF QueueTypes
  <1>2. CASE c \notin clients
    BY <1>2 DEF SendAppend, QueueTypes
  <1> QED
    BY <1>1, <1>2

LEMMA ControlSteps ==
    ASSUME Control, NEW t \in Threads
    PROVE  /\ \A l \in Labels \ {"append"} : Goto(t, l) => Control'
           /\ \A c \in Conns \cup {NoConn}, l \in Labels \ {"append"},
                then \in {"home", "mark", "write", "join"} :
                Call(t, l, c, "none", then) => Control'
           /\ \A c \in Conns, m \in OutMsgs, then \in {"home", "mark"} :
                Call(t, "append", c, m, then) => Control'
           /\ Leave(t) => Control'
           /\ Return(t) => Control'
           /\ UNCHANGED <<pc, job>> => Control'
  <1>1. "append" \in Labels
    BY SMT DEF Labels, SendLabels
  <1> QED
    BY <1>1, GotoControl, CallControl, LeaveControl, ReturnControl, SMT DEF Control

LEMMA SendType ==
    ASSUME TypeInv, NEW t \in Threads, NEW c \in Conns, SendStep(t, c)
    PROVE  TypeInv'
  <1> USE DEF At, dataVars, tableVars, queueVars, connVars, loopVars, selVars,
             envVars, appVars, peerVars
  <1>0. /\ ConnectionTypes /\ QueueTypes /\ LoopTypes /\ ThreadTypes
        /\ PeerTypes /\ Control /\ LoopInv
    BY DEF TypeInv, TypeOK
  <1>1. CASE SendAppend(t, c)
    <2>1. Control'
      BY <1>0, <1>1, ControlSteps, SMT
         DEF SendAppend, CallClose, OutMsgs, Labels, SendLabels, CloseLabels,
             NetLabels, ProcLabels, AppLabels
    <2>2. job[t].msg \in OutMsgs
      BY <1>0, <1>1 DEF SendAppend, Control
    <2>3. QueueTypes'
      BY <1>0, <1>1, <2>2, AppendQueues DEF QueueTypes, OutMsgs
    <2>4. UNCHANGED <<tableVars, connVars, loopVars, appVars, peerVars>>
      BY <1>1 DEF SendAppend
    <2> QED
      BY <1>0, <2>1, <2>2, <2>3, <2>4
         DEF TypeInv, TypeOK, Control, ConnectionTypes, LoopTypes, ThreadTypes,
             PeerTypes, LoopInv
  <1>2. CASE SendWatch(t, c)
    <2>1. Control'
      BY <1>0, <1>2, ControlSteps, SMT
         DEF SendWatch, CallClose, OutMsgs, Labels, SendLabels, CloseLabels,
             NetLabels, ProcLabels, AppLabels
    <2>2. ConnectionTypes'
      BY <1>0, <1>2 DEF ConnectionTypes, SendWatch, LockFree, States
    <2>3. LoopInv'
      BY <1>0, <1>2 DEF LoopInv, SendWatch, LockFree, LoopTypes
    <2>4. UNCHANGED <<queueVars, appVars, peerVars>>
      BY <1>2 DEF SendWatch
    <2> QED
      BY <1>0, <2>1, <2>2, <2>3, <2>4
         DEF TypeInv, TypeOK, Control, QueueTypes, ThreadTypes, PeerTypes, LoopInv
  <1>3. CASE SendWake(t, c)
    <2>1. Control'
      BY <1>0, <1>3, ControlSteps, SMT
         DEF SendWake, CallClose, OutMsgs, Labels, SendLabels, CloseLabels,
             NetLabels, ProcLabels, AppLabels
    <2>2. LoopInv'
      BY <1>0, <1>3 DEF LoopInv, SendWake, LoopTypes
    <2>3. UNCHANGED <<tableVars, connVars, queueVars, appVars, peerVars>>
      BY <1>3 DEF SendWake
    <2> QED
      BY <1>0, <2>1, <2>2, <2>3
         DEF TypeInv, TypeOK, Control, ConnectionTypes, QueueTypes, ThreadTypes,
             PeerTypes, LoopInv
  <1>4. CASE SendSent(t, c)
    <2>1. Control'
      BY <1>0, <1>4, ControlSteps, SMT
         DEF SendSent, CallClose, OutMsgs, Labels, SendLabels, CloseLabels,
             NetLabels, ProcLabels, AppLabels
    <2>2. UNCHANGED <<tableVars, connVars, queueVars, loopVars, appVars, peerVars>>
      BY <1>4 DEF SendSent
    <2> QED
      BY <1>0, <2>1, <2>2
         DEF TypeInv, TypeOK, Control, ConnectionTypes, QueueTypes, LoopTypes,
             ThreadTypes, PeerTypes, LoopInv
  <1>5. CASE HelloSent(t, c)
    <2>1. Control'
      BY <1>0, <1>5, ControlSteps, SMT
         DEF HelloSent, CallClose, OutMsgs, Labels, SendLabels, CloseLabels,
             NetLabels, ProcLabels, AppLabels
    <2>2. ConnectionTypes'
      BY <1>0, <1>5 DEF ConnectionTypes, HelloSent, States
    <2>3. UNCHANGED <<queueVars, loopVars, appVars, peerVars>>
      BY <1>5 DEF HelloSent
    <2> QED
      BY <1>0, <2>1, <2>2, <2>3
         DEF TypeInv, TypeOK, Control, QueueTypes, LoopTypes, ThreadTypes, PeerTypes,
             LoopInv
  <1>6. CASE CloseMark(t, c)
    <2>1. Control'
      BY <1>0, <1>6, ControlSteps, SMT
         DEF CloseMark, CallClose, OutMsgs, Labels, SendLabels, CloseLabels,
             NetLabels, ProcLabels, AppLabels
    <2>2. ConnectionTypes'
      BY <1>0, <1>6 DEF ConnectionTypes, CloseMark, States
    <2>3. UNCHANGED <<queueVars, loopVars, appVars, peerVars>>
      BY <1>6 DEF CloseMark
    <2> QED
      BY <1>0, <2>1, <2>2, <2>3
         DEF TypeInv, TypeOK, Control, QueueTypes, LoopTypes, ThreadTypes, PeerTypes,
             LoopInv
  <1> QED
    BY <1>1, <1>2, <1>3, <1>4, <1>5, <1>6 DEF SendStep

LEMMA CloseType ==
    ASSUME TypeInv, NEW t \in Threads, NEW c \in Conns, CloseStep(t, c)
    PROVE  TypeInv'
  <1> USE DEF At, dataVars, tableVars, queueVars, connVars, loopVars, selVars,
             envVars, appVars, peerVars
  <1>0. /\ ConnectionTypes /\ QueueTypes /\ LoopTypes /\ ThreadTypes
        /\ PeerTypes /\ Control /\ LoopInv
    BY DEF TypeInv, TypeOK
  <1>1. CASE CloseNotify(t, c)
    <2>1. Control'
      BY <1>0, <1>1, ControlSteps, SMT
         DEF CloseNotify, CallClose, OutMsgs, Labels, SendLabels, CloseLabels,
             NetLabels, ProcLabels, AppLabels
    <2>2. ConnectionTypes'
      BY <1>0, <1>1 DEF ConnectionTypes, CloseNotify, States
    <2>3. UNCHANGED <<queueVars, loopVars, appVars, peerVars>>
      BY <1>1 DEF CloseNotify
    <2> QED
      BY <1>0, <2>1, <2>2, <2>3
         DEF TypeInv, TypeOK, Control, QueueTypes, LoopTypes, ThreadTypes, PeerTypes,
             LoopInv
  <1>2. CASE CloseSetState(t, c)
    <2>1. Control'
      BY <1>0, <1>2, ControlSteps, SMT
         DEF CloseSetState, CallClose, OutMsgs, Labels, SendLabels, CloseLabels,
             NetLabels, ProcLabels, AppLabels
    <2>2. ConnectionTypes'
      BY <1>0, <1>2 DEF ConnectionTypes, CloseSetState, States
    <2>3. UNCHANGED <<queueVars, loopVars, appVars, peerVars>>
      BY <1>2 DEF CloseSetState
    <2> QED
      BY <1>0, <2>1, <2>2, <2>3
         DEF TypeInv, TypeOK, Control, QueueTypes, LoopTypes, ThreadTypes, PeerTypes,
             LoopInv
  <1>3. CASE CloseUnregister(t, c)
    <2>1. Control'
      BY <1>0, <1>3, ControlSteps, SMT
         DEF CloseUnregister, CallClose, OutMsgs, Labels, SendLabels, CloseLabels,
             NetLabels, ProcLabels, AppLabels
    <2>2. ConnectionTypes'
      BY <1>0, <1>3 DEF ConnectionTypes, CloseUnregister, States
    <2>3. UNCHANGED <<queueVars, loopVars, appVars, peerVars>>
      BY <1>3 DEF CloseUnregister
    <2> QED
      BY <1>0, <2>1, <2>2, <2>3
         DEF TypeInv, TypeOK, Control, QueueTypes, LoopTypes, ThreadTypes, PeerTypes,
             LoopInv
  <1>4. CASE CloseSocket(t, c)
    <2>1. Control'
      BY <1>0, <1>4, ControlSteps, SMT
         DEF CloseSocket, CallClose, OutMsgs, Labels, SendLabels, CloseLabels,
             NetLabels, ProcLabels, AppLabels
    <2>2. ConnectionTypes'
      BY <1>0, <1>4 DEF ConnectionTypes, CloseSocket, States
    <2>3. UNCHANGED <<queueVars, loopVars, appVars, peerVars>>
      BY <1>4 DEF CloseSocket
    <2> QED
      BY <1>0, <2>1, <2>2, <2>3
         DEF TypeInv, TypeOK, Control, QueueTypes, LoopTypes, ThreadTypes, PeerTypes,
             LoopInv
  <1>5. CASE CloseForget(t, c)
    <2>1. Control'
      BY <1>0, <1>5, ControlSteps, SMT
         DEF CloseForget, CallClose, OutMsgs, Labels, SendLabels, CloseLabels,
             NetLabels, ProcLabels, AppLabels
    <2>2. ConnectionTypes'
      BY <1>0, <1>5 DEF ConnectionTypes, CloseForget, States
    <2>3. UNCHANGED <<queueVars, loopVars, appVars, peerVars>>
      BY <1>5 DEF CloseForget
    <2> QED
      BY <1>0, <2>1, <2>2, <2>3
         DEF TypeInv, TypeOK, Control, QueueTypes, LoopTypes, ThreadTypes, PeerTypes,
             LoopInv
  <1> QED
    BY <1>1, <1>2, <1>3, <1>4, <1>5 DEF CloseStep

LEMMA LoopType ==
    ASSUME TypeInv, LoopHead \/ SelectReturn \/ ReadIrq
    PROVE  TypeInv'
  <1> USE DEF At, dataVars, tableVars, queueVars, connVars, loopVars, selVars,
             envVars, appVars, peerVars
  <1>0. /\ ConnectionTypes /\ QueueTypes /\ LoopTypes /\ ThreadTypes
        /\ PeerTypes /\ Control /\ LoopInv
    BY DEF TypeInv, TypeOK
  <1>t. "net" \in Threads
    BY DEF Threads
  <1>1. CASE LoopHead
    <2>1. Control'
      BY <1>0, <1>t, <1>1, ControlSteps, SMT
         DEF LoopHead, CallClose, OutMsgs, Labels, SendLabels, CloseLabels,
             NetLabels, ProcLabels, AppLabels
    <2>2. LoopInv'
      BY <1>0, <1>t, <1>1 DEF LoopInv, LoopHead, LoopTypes
    <2>3. UNCHANGED <<tableVars, connVars, queueVars, appVars, peerVars>>
      BY <1>1 DEF LoopHead
    <2> QED
      BY <1>0, <1>t, <2>1, <2>2, <2>3
         DEF TypeInv, TypeOK, Control, ConnectionTypes, QueueTypes, ThreadTypes,
             PeerTypes, LoopInv
  <1>2. CASE SelectReturn
    <2>1. Control'
      BY <1>0, <1>t, <1>2, ControlSteps, SMT
         DEF SelectReturn, CallClose, OutMsgs, Labels, SendLabels, CloseLabels,
             NetLabels, ProcLabels, AppLabels
    <2>2. LoopInv'
      BY <1>0, <1>t, <1>2 DEF LoopInv, SelectReturn, SysEvents, ConnEvents, LoopTypes
    <2>3. UNCHANGED <<tableVars, connVars, queueVars, appVars, peerVars>>
      BY <1>2 DEF SelectReturn, SysEvents, ConnEvents
    <2> QED
      BY <1>0, <1>t, <2>1, <2>2, <2>3
         DEF TypeInv, TypeOK, Control, ConnectionTypes, QueueTypes, ThreadTypes,
             PeerTypes, LoopInv
  <1>3. CASE ReadIrq
    <2>1. Control'
      BY <1>0, <1>t, <1>3, ControlSteps, SMT
         DEF ReadIrq, CallClose, OutMsgs, Labels, SendLabels, CloseLabels,
             NetLabels, ProcLabels, AppLabels
    <2>2. LoopInv'
      BY <1>0, <1>t, <1>3 DEF LoopInv, ReadIrq, LoopTypes
    <2>3. UNCHANGED <<tableVars, connVars, queueVars, appVars, peerVars>>
      BY <1>3 DEF ReadIrq
    <2> QED
      BY <1>0, <1>t, <2>1, <2>2, <2>3
         DEF TypeInv, TypeOK, Control, ConnectionTypes, QueueTypes, ThreadTypes,
             PeerTypes, LoopInv
  <1> QED
    BY <1>1, <1>2, <1>3

LEMMA NetEventType ==
    ASSUME TypeInv, NEW c \in Conns, NetEvent(c)
    PROVE  TypeInv'
  <1> USE DEF At, dataVars, tableVars, queueVars, connVars, loopVars, selVars,
             envVars, appVars, peerVars
  <1>0. /\ ConnectionTypes /\ QueueTypes /\ LoopTypes /\ ThreadTypes
        /\ PeerTypes /\ Control /\ LoopInv
    BY DEF TypeInv, TypeOK
  <1>t. "net" \in Threads
    BY DEF Threads
  <1>1. CASE Accept(c)
    <2>1. Control'
      BY <1>0, <1>t, <1>1, ControlSteps, SMT
         DEF Accept, CallClose, OutMsgs, Labels, SendLabels, CloseLabels,
             NetLabels, ProcLabels, AppLabels
    <2>2. ConnectionTypes'
      BY <1>0, <1>t, <1>1 DEF ConnectionTypes, Accept, States
    <2>3. LoopInv'
      BY <1>0, <1>t, <1>1 DEF LoopInv, Accept, LoopTypes
    <2>4. UNCHANGED <<queueVars, appVars, peerVars>>
      BY <1>1 DEF Accept
    <2> QED
      BY <1>0, <1>t, <2>1, <2>2, <2>3, <2>4
         DEF TypeInv, TypeOK, Control, QueueTypes, ThreadTypes, PeerTypes, LoopInv
  <1>2. CASE Register(c)
    <2>1. Control'
      BY <1>0, <1>t, <1>2, ControlSteps, SMT
         DEF Register, CallClose, OutMsgs, Labels, SendLabels, CloseLabels,
             NetLabels, ProcLabels, AppLabels
    <2>2. ConnectionTypes'
      BY <1>0, <1>t, <1>2 DEF ConnectionTypes, Register, States
    <2>3. UNCHANGED <<queueVars, loopVars, appVars, peerVars>>
      BY <1>2 DEF Register
    <2> QED
      BY <1>0, <1>t, <2>1, <2>2, <2>3
         DEF TypeInv, TypeOK, Control, QueueTypes, LoopTypes, ThreadTypes, PeerTypes,
             LoopInv
  <1>3. CASE Receive(c)
    <2>1. Control'
      BY <1>0, <1>t, <1>3, ControlSteps, SMT
         DEF Receive, CallClose, OutMsgs, Labels, SendLabels, CloseLabels,
             NetLabels, ProcLabels, AppLabels
    <2>2. QueueTypes'
      <3> DEFINE new(n) == [i \in 1..n |-> <<c, inbound[c][i]>>]
      <3>1. PICK n \in 1..Len(inbound[c]) :
               procQ' = procQ \/ procQ' = procQ \o new(n)
        BY <1>3 DEF Receive
      <3>2. inbound[c] \in Seq(InMsgs) /\ n \in Nat
        BY <1>0 DEF PeerTypes
      <3>3. \A i \in 1..n : inbound[c][i] \in InMsgs
        BY <3>2
      <3>4. new(n) \in Seq(Conns \X InMsgs)
        BY <3>2, <3>3
      <3> HIDE DEF new
      <3>5. procQ' \in Seq(Conns \X InMsgs)
        <4>1. procQ \in Seq(Conns \X InMsgs)
          BY <1>0 DEF QueueTypes
        <4>2. procQ \o new(n) \in Seq(Conns \X InMsgs)
          BY <3>4, <4>1
        <4> QED
          BY <3>1, <4>1, <4>2
      <3>6. UNCHANGED <<writeQ, queued, wire>>
        BY <1>3 DEF Receive
      <3> QED
        BY <1>0, <1>t, <3>5, <3>6 DEF QueueTypes
    <2>3. LoopInv'
      BY <1>0, <1>t, <1>3 DEF LoopInv, Receive, Taken, LoopTypes
    <2>4. PeerTypes'
      BY <1>0, <1>t, <1>3 DEF PeerTypes, Receive, Taken, PeerPhases
    <2>5. UNCHANGED <<tableVars, connVars, appVars>>
      BY <1>3 DEF Receive, Taken
    <2> QED
      BY <1>0, <1>t, <2>1, <2>2, <2>3, <2>4, <2>5
         DEF TypeInv, TypeOK, Control, ConnectionTypes, ThreadTypes, LoopInv
  <1>4. CASE ReceiveError(c)
    <2>1. Control'
      BY <1>0, <1>t, <1>4, ControlSteps, SMT
         DEF ReceiveError, CallClose, OutMsgs, Labels, SendLabels, CloseLabels,
             NetLabels, ProcLabels, AppLabels
    <2>2. LoopInv'
      BY <1>0, <1>t, <1>4 DEF LoopInv, ReceiveError, Taken, LoopTypes
    <2>3. UNCHANGED <<tableVars, connVars, queueVars, appVars, peerVars>>
      BY <1>4 DEF ReceiveError, Taken
    <2> QED
      BY <1>0, <1>t, <2>1, <2>2, <2>3
         DEF TypeInv, TypeOK, Control, ConnectionTypes, QueueTypes, ThreadTypes,
             PeerTypes, LoopInv
  <1>5. CASE ReceiveEof(c)
    <2>1. Control'
      BY <1>0, <1>t, <1>5, ControlSteps, SMT
         DEF ReceiveEof, AfterRead, CallClose, OutMsgs, Labels, SendLabels, CloseLabels,
             NetLabels, ProcLabels, AppLabels
    <2>2. LoopInv'
      BY <1>0, <1>t, <1>5 DEF LoopInv, ReceiveEof, Taken, LoopTypes
    <2>3. UNCHANGED <<tableVars, connVars, queueVars, appVars, peerVars>>
      BY <1>5 DEF ReceiveEof, Taken
    <2> QED
      BY <1>0, <1>t, <2>1, <2>2, <2>3
         DEF TypeInv, TypeOK, Control, ConnectionTypes, QueueTypes, ThreadTypes,
             PeerTypes, LoopInv
  <1>6. CASE Unregister(c)
    <2>1. Control'
      BY <1>0, <1>t, <1>6, ControlSteps, SMT
         DEF Unregister, CallClose, OutMsgs, Labels, SendLabels, CloseLabels,
             NetLabels, ProcLabels, AppLabels
    <2>2. ConnectionTypes'
      BY <1>0, <1>t, <1>6 DEF ConnectionTypes, Unregister, States
    <2>3. UNCHANGED <<queueVars, loopVars, appVars, peerVars>>
      BY <1>6 DEF Unregister
    <2> QED
      BY <1>0, <1>t, <2>1, <2>2, <2>3
         DEF TypeInv, TypeOK, Control, QueueTypes, LoopTypes, ThreadTypes, PeerTypes,
             LoopInv
  <1>7. CASE OnlyWrite(c)
    <2>1. Control'
      BY <1>0, <1>t, <1>7, ControlSteps, SMT
         DEF OnlyWrite, CallClose, OutMsgs, Labels, SendLabels, CloseLabels,
             NetLabels, ProcLabels, AppLabels
    <2>2. LoopInv'
      BY <1>0, <1>t, <1>7 DEF LoopInv, OnlyWrite, Taken, LoopTypes
    <2>3. UNCHANGED <<tableVars, connVars, queueVars, appVars, peerVars>>
      BY <1>7 DEF OnlyWrite, Taken
    <2> QED
      BY <1>0, <1>t, <2>1, <2>2, <2>3
         DEF TypeInv, TypeOK, Control, ConnectionTypes, QueueTypes, ThreadTypes,
             PeerTypes, LoopInv
  <1>8. CASE WriteNothing(c)
    <2>1. Control'
      BY <1>0, <1>t, <1>8, ControlSteps, SMT
         DEF WriteNothing, CallClose, OutMsgs, Labels, SendLabels, CloseLabels,
             NetLabels, ProcLabels, AppLabels
    <2>2. UNCHANGED <<tableVars, connVars, queueVars, loopVars, appVars, peerVars>>
      BY <1>8 DEF WriteNothing
    <2> QED
      BY <1>0, <1>t, <2>1, <2>2
         DEF TypeInv, TypeOK, Control, ConnectionTypes, QueueTypes, LoopTypes,
             ThreadTypes, PeerTypes, LoopInv
  <1>9. CASE Write(c)
    <2>1. Control'
      BY <1>0, <1>t, <1>9, ControlSteps, SMT
         DEF Write, CallClose, OutMsgs, Labels, SendLabels, CloseLabels,
             NetLabels, ProcLabels, AppLabels
    <2>2. QueueTypes'
      <3>1. /\ Tail(writeQ[c]) \in Seq(OutMsgs) /\ Head(writeQ[c]) \in OutMsgs
            /\ writeQ' = [writeQ EXCEPT ![c] = Tail(writeQ[c])]
            /\ UNCHANGED <<queued, procQ>>
        BY <1>0, <1>t, <1>9 DEF QueueTypes, Write
      <3>2. writeQ' \in [Conns -> Seq(OutMsgs)]
        BY <1>0, <1>t, <3>1 DEF QueueTypes
      <3>3. \/ wire' = wire
            \/ wire' = [wire EXCEPT ![c] = Append(wire[c], Head(writeQ[c]))]
        BY <1>9 DEF Write
      <3>4. [wire EXCEPT ![c] = Append(wire[c], Head(writeQ[c]))]
               \in [Conns -> Seq(OutMsgs)]
        BY <1>0, <1>t, <3>1, AppendType DEF QueueTypes
      <3>5. wire' \in [Conns -> Seq(OutMsgs)]
        BY <1>0, <1>t, <3>3, <3>4 DEF QueueTypes
      <3> QED
        BY <3>1, <3>2, <3>5, <1>0 DEF QueueTypes
    <2>3. UNCHANGED <<tableVars, connVars, loopVars, appVars, peerVars>>
      BY <1>9 DEF Write
    <2> QED
      BY <1>0, <1>t, <2>1, <2>2, <2>3
         DEF TypeInv, TypeOK, Control, ConnectionTypes, LoopTypes, ThreadTypes,
             PeerTypes, LoopInv
  <1>10. CASE Drained(c)
    <2>1. Control'
      BY <1>0, <1>t, <1>10, ControlSteps, SMT
         DEF Drained, CallClose, OutMsgs, Labels, SendLabels, CloseLabels,
             NetLabels, ProcLabels, AppLabels
    <2>2. UNCHANGED <<tableVars, connVars, queueVars, loopVars, appVars, peerVars>>
      BY <1>10 DEF Drained
    <2> QED
      BY <1>0, <1>t, <2>1, <2>2
         DEF TypeInv, TypeOK, Control, ConnectionTypes, QueueTypes, LoopTypes,
             ThreadTypes, PeerTypes, LoopInv
  <1>11. CASE ClearInterest(c)
    <2>1. Control'
      BY <1>0, <1>t, <1>11, ControlSteps, SMT
         DEF ClearInterest, CallClose, OutMsgs, Labels, SendLabels, CloseLabels,
             NetLabels, ProcLabels, AppLabels
    <2>2. ConnectionTypes'
      BY <1>0, <1>t, <1>11 DEF ConnectionTypes, ClearInterest, States
    <2>3. UNCHANGED <<queueVars, loopVars, appVars, peerVars>>
      BY <1>11 DEF ClearInterest
    <2> QED
      BY <1>0, <1>t, <2>1, <2>2, <2>3
         DEF TypeInv, TypeOK, Control, QueueTypes, LoopTypes, ThreadTypes, PeerTypes,
             LoopInv
  <1>12. CASE CheckMark(c)
    <2>1. Control'
      BY <1>0, <1>t, <1>12, ControlSteps, SMT
         DEF CheckMark, CallClose, OutMsgs, Labels, SendLabels, CloseLabels,
             NetLabels, ProcLabels, AppLabels
    <2>2. UNCHANGED <<tableVars, connVars, queueVars, loopVars, appVars, peerVars>>
      BY <1>12 DEF CheckMark
    <2> QED
      BY <1>0, <1>t, <2>1, <2>2
         DEF TypeInv, TypeOK, Control, ConnectionTypes, QueueTypes, LoopTypes,
             ThreadTypes, PeerTypes, LoopInv
  <1>13. CASE ReceiveReset(c)
    <2>1. Control'
      BY <1>0, <1>t, <1>13, ControlSteps, SMT
         DEF ReceiveReset, CallClose, OutMsgs, Labels, SendLabels, CloseLabels,
             NetLabels, ProcLabels, AppLabels
    <2>2. LoopInv'
      BY <1>0, <1>t, <1>13 DEF LoopInv, ReceiveReset, Taken, LoopTypes
    <2>3. PeerTypes'
      BY <1>0, <1>13 DEF PeerTypes, ReceiveReset
    <2>4. UNCHANGED <<tableVars, connVars, queueVars, appVars>>
      BY <1>13 DEF ReceiveReset, Taken
    <2> QED
      BY <1>0, <1>t, <2>1, <2>2, <2>3, <2>4
         DEF TypeInv, TypeOK, Control, ConnectionTypes, QueueTypes, ThreadTypes, LoopInv
  <1> QED
    BY <1>1, <1>2, <1>3, <1>4, <1>5, <1>6, <1>7, <1>8, <1>9, <1>10, <1>11, <1>12,
       <1>13 DEF NetEvent

LEMMA ProcRoundType ==
    ASSUME TypeInv, ProcRound
    PROVE  TypeInv'
  <1> USE DEF At, dataVars, tableVars, queueVars, connVars, loopVars, selVars,
             envVars, appVars, peerVars
  <1>0. /\ ConnectionTypes /\ QueueTypes /\ LoopTypes /\ ThreadTypes
        /\ PeerTypes /\ Control /\ LoopInv
    BY DEF TypeInv, TypeOK
  <1>t. "proc" \in Threads
    BY DEF Threads
  <1>1. CASE ProcRound
    <2>1. Control'
      BY <1>0, <1>t, <1>1, ControlSteps, SMT
         DEF ProcRound, CallClose, OutMsgs, Labels, SendLabels, CloseLabels,
             NetLabels, ProcLabels, AppLabels
    <2>2. UNCHANGED <<tableVars, connVars, queueVars, loopVars, appVars, peerVars>>
      BY <1>1 DEF ProcRound
    <2> QED
      BY <1>0, <1>t, <2>1, <2>2
         DEF TypeInv, TypeOK, Control, ConnectionTypes, QueueTypes, LoopTypes,
             ThreadTypes, PeerTypes, LoopInv
  <1> QED
    BY <1>1

LEMMA HandleType ==
    ASSUME TypeInv, NEW c \in Conns, Handle(c)
    PROVE  TypeInv'
  <1> USE DEF At, dataVars, tableVars, queueVars, connVars, loopVars, selVars,
             envVars, appVars, peerVars
  <1>0. /\ ConnectionTypes /\ QueueTypes /\ LoopTypes /\ ThreadTypes
        /\ PeerTypes /\ Control /\ LoopInv
    BY DEF TypeInv, TypeOK
  <1>t. "proc" \in Threads
    BY DEF Threads
  <1>1. CASE \E m \in {"settype", "othertype"} : TakeSetType(c, m)
    <2>1. Control'
      BY <1>0, <1>t, <1>1, ControlSteps, SMT
         DEF TakeSetType, Taking, CallClose, OutMsgs, Labels, SendLabels, CloseLabels,
             NetLabels, ProcLabels, AppLabels
    <2>2. QueueTypes'
      BY <1>0, <1>t, <1>1 DEF QueueTypes, TakeSetType, Taking
    <2>3. UNCHANGED <<tableVars, connVars, loopVars, appVars, peerVars>>
      BY <1>1 DEF TakeSetType, Taking
    <2> QED
      BY <1>0, <1>t, <2>1, <2>2, <2>3
         DEF TypeInv, TypeOK, Control, ConnectionTypes, LoopTypes, ThreadTypes,
             PeerTypes, LoopInv
  <1>2. CASE TakeAccept(c)
    <2>1. Control'
      BY <1>0, <1>t, <1>2, ControlSteps, SMT
         DEF TakeAccept, Taking, CallClose, OutMsgs, Labels, SendLabels, CloseLabels,
             NetLabels, ProcLabels, AppLabels
    <2>2. QueueTypes'
      BY <1>0, <1>t, <1>2 DEF QueueTypes, TakeAccept, Taking
    <2>3. UNCHANGED <<tableVars, connVars, loopVars, appVars, peerVars>>
      BY <1>2 DEF TakeAccept, Taking
    <2> QED
      BY <1>0, <1>t, <2>1, <2>2, <2>3
         DEF TypeInv, TypeOK, Control, ConnectionTypes, LoopTypes, ThreadTypes,
             PeerTypes, LoopInv
  <1>3. CASE TakeCloseConn(c)
    <2>1. Control'
      BY <1>0, <1>t, <1>3, ControlSteps, SMT
         DEF TakeCloseConn, Taking, CallClose, OutMsgs, Labels, SendLabels, CloseLabels,
             NetLabels, ProcLabels, AppLabels
    <2>2. QueueTypes'
      BY <1>0, <1>t, <1>3 DEF QueueTypes, TakeCloseConn, Taking
    <2>3. UNCHANGED <<tableVars, connVars, loopVars, appVars, peerVars>>
      BY <1>3 DEF TakeCloseConn, Taking
    <2> QED
      BY <1>0, <1>t, <2>1, <2>2, <2>3
         DEF TypeInv, TypeOK, Control, ConnectionTypes, LoopTypes, ThreadTypes,
             PeerTypes, LoopInv
  <1>4. CASE TakeUser(c)
    <2>1. Control'
      BY <1>0, <1>t, <1>4, ControlSteps, SMT
         DEF TakeUser, Taking, CallClose, OutMsgs, Labels, SendLabels, CloseLabels,
             NetLabels, ProcLabels, AppLabels
    <2>2. QueueTypes'
      BY <1>0, <1>t, <1>4 DEF QueueTypes, TakeUser, Taking
    <2>3. UNCHANGED <<tableVars, connVars, loopVars, appVars, peerVars>>
      BY <1>4 DEF TakeUser, Taking
    <2> QED
      BY <1>0, <1>t, <2>1, <2>2, <2>3
         DEF TypeInv, TypeOK, Control, ConnectionTypes, LoopTypes, ThreadTypes,
             PeerTypes, LoopInv
  <1>5. CASE SetType(c)
    <2>1. Control'
      BY <1>0, <1>t, <1>5, ControlSteps, SMT
         DEF SetType, CallClose, OutMsgs, Labels, SendLabels, CloseLabels,
             NetLabels, ProcLabels, AppLabels
    <2>2. ConnectionTypes'
      BY <1>0, <1>t, <1>5 DEF ConnectionTypes, SetType, States
    <2>3. UNCHANGED <<queueVars, loopVars, appVars, peerVars>>
      BY <1>5 DEF SetType
    <2> QED
      BY <1>0, <1>t, <2>1, <2>2, <2>3
         DEF TypeInv, TypeOK, Control, QueueTypes, LoopTypes, ThreadTypes, PeerTypes,
             LoopInv
  <1>6. CASE Complete(c)
    <2>1. Control'
      BY <1>0, <1>t, <1>6, ControlSteps, SMT
         DEF Complete, CallClose, OutMsgs, Labels, SendLabels, CloseLabels,
             NetLabels, ProcLabels, AppLabels
    <2>2. ConnectionTypes'
      BY <1>0, <1>t, <1>6 DEF ConnectionTypes, Complete, States
    <2>3. UNCHANGED <<queueVars, loopVars, appVars, peerVars>>
      BY <1>6 DEF Complete
    <2> QED
      BY <1>0, <1>t, <2>1, <2>2, <2>3
         DEF TypeInv, TypeOK, Control, QueueTypes, LoopTypes, ThreadTypes, PeerTypes,
             LoopInv
  <1> QED
    BY <1>1, <1>2, <1>3, <1>4, <1>5, <1>6 DEF Handle

LEMMA AppType ==
    ASSUME TypeInv, NEW a \in Apps, AppCall(a) \/ AppShutdown(a)
                                           \/ ShutdownNext(a) \/ ShutdownAwait(a)
               \/ Stop(a) \/ Poke(a) \/ Join(a)
    PROVE  TypeInv'
  <1> USE DEF At, dataVars, tableVars, queueVars, connVars, loopVars, selVars,
             envVars, appVars, peerVars
  <1>0. /\ ConnectionTypes /\ QueueTypes /\ LoopTypes /\ ThreadTypes
        /\ PeerTypes /\ Control /\ LoopInv
    BY DEF TypeInv, TypeOK
  <1>t. a \in Threads /\ a \notin {"net", "proc"}
    BY DEF Threads
  <1>1. CASE AppCall(a)
    <2>1. Control'
      BY <1>0, <1>t, <1>1, ControlSteps, SMT
         DEF ConnectionTypes, ThreadTypes, AppCall, Calling, CallClose, OutMsgs,
             Labels, SendLabels, CloseLabels,
             NetLabels, ProcLabels, AppLabels
    <2>2. ThreadTypes'
      BY <1>0, <1>t, <1>1, <2>1
         DEF ThreadTypes, AppCall, Calling, Control, ConnectionTypes
    <2>3. UNCHANGED <<tableVars, connVars, queueVars, loopVars, peerVars>>
      BY <1>1 DEF AppCall, Calling
    <2> QED
      BY <1>0, <1>t, <2>1, <2>2, <2>3
         DEF TypeInv, TypeOK, Control, ConnectionTypes, QueueTypes, LoopTypes,
             PeerTypes, LoopInv, ThreadTypes
  <1>2. CASE AppShutdown(a)
    <2>1. Control'
      BY <1>0, <1>t, <1>2, ControlSteps, SMT
         DEF AppShutdown, Calling, CallClose, OutMsgs, Labels, SendLabels, CloseLabels,
             NetLabels, ProcLabels, AppLabels
    <2>2. ThreadTypes'
      BY <1>0, <1>t, <1>2, <2>1
         DEF ThreadTypes, AppShutdown, Calling, Control, ConnectionTypes
    <2>3. UNCHANGED <<tableVars, connVars, queueVars, loopVars, peerVars>>
      BY <1>2 DEF AppShutdown, Calling
    <2> QED
      BY <1>0, <1>t, <2>1, <2>2, <2>3
         DEF TypeInv, TypeOK, Control, ConnectionTypes, QueueTypes, LoopTypes,
             PeerTypes, LoopInv, ThreadTypes
  <1>3. CASE ShutdownNext(a)
    <2>1. Control'
      BY <1>0, <1>t, <1>3, ControlSteps, SMT
         DEF ConnectionTypes, ThreadTypes, ShutdownNext, CallClose, OutMsgs, Labels,
             SendLabels, CloseLabels,
             NetLabels, ProcLabels, AppLabels
    <2>2. ThreadTypes'
      BY <1>0, <1>t, <1>3, <2>1 DEF ThreadTypes, ShutdownNext, Control, ConnectionTypes
    <2>3. UNCHANGED <<tableVars, connVars, queueVars, loopVars, peerVars>>
      BY <1>3 DEF ShutdownNext
    <2> QED
      BY <1>0, <1>t, <2>1, <2>2, <2>3
         DEF TypeInv, TypeOK, Control, ConnectionTypes, QueueTypes, LoopTypes,
             PeerTypes, LoopInv, ThreadTypes
  <1>4. CASE ShutdownAwait(a)
    <2>1. Control'
      BY <1>0, <1>t, <1>4, ControlSteps, SMT
         DEF ShutdownAwait, CallClose, OutMsgs, Labels, SendLabels, CloseLabels,
             NetLabels, ProcLabels, AppLabels
    <2>2. ThreadTypes'
      BY <1>0, <1>t, <1>4, <2>1 DEF ThreadTypes, ShutdownAwait, Control, ConnectionTypes
    <2>3. UNCHANGED <<tableVars, connVars, queueVars, loopVars, peerVars>>
      BY <1>4 DEF ShutdownAwait
    <2> QED
      BY <1>0, <1>t, <2>1, <2>2, <2>3
         DEF TypeInv, TypeOK, Control, ConnectionTypes, QueueTypes, LoopTypes,
             PeerTypes, LoopInv, ThreadTypes
  <1>5. CASE Stop(a)
    <2>1. Control'
      BY <1>0, <1>t, <1>5, ControlSteps, SMT
         DEF Stop, CallClose, OutMsgs, Labels, SendLabels, CloseLabels,
             NetLabels, ProcLabels, AppLabels
    <2>2. LoopInv'
      BY <1>0, <1>t, <1>5 DEF LoopInv, Stop, LoopTypes
    <2>3. UNCHANGED <<tableVars, connVars, queueVars, appVars, peerVars>>
      BY <1>5 DEF Stop
    <2> QED
      BY <1>0, <1>t, <2>1, <2>2, <2>3
         DEF TypeInv, TypeOK, Control, ConnectionTypes, QueueTypes, ThreadTypes,
             PeerTypes, LoopInv
  <1>6. CASE Poke(a)
    <2>1. Control'
      BY <1>0, <1>t, <1>6, ControlSteps, SMT
         DEF Poke, CallClose, OutMsgs, Labels, SendLabels, CloseLabels,
             NetLabels, ProcLabels, AppLabels
    <2>2. LoopInv'
      BY <1>0, <1>t, <1>6 DEF LoopInv, Poke, LoopTypes
    <2>3. UNCHANGED <<tableVars, connVars, queueVars, appVars, peerVars>>
      BY <1>6 DEF Poke
    <2> QED
      BY <1>0, <1>t, <2>1, <2>2, <2>3
         DEF TypeInv, TypeOK, Control, ConnectionTypes, QueueTypes, ThreadTypes,
             PeerTypes, LoopInv
  <1>7. CASE Join(a)
    <2>1. Control'
      BY <1>0, <1>t, <1>7, ControlSteps, SMT
         DEF Join, CallClose, OutMsgs, Labels, SendLabels, CloseLabels,
             NetLabels, ProcLabels, AppLabels
    <2>2. LoopInv'
      BY <1>0, <1>t, <1>7 DEF LoopInv, Join, LoopTypes
    <2>3. UNCHANGED <<tableVars, connVars, queueVars, appVars, peerVars>>
      BY <1>7 DEF Join
    <2> QED
      BY <1>0, <1>t, <2>1, <2>2, <2>3
         DEF TypeInv, TypeOK, Control, ConnectionTypes, QueueTypes, ThreadTypes,
             PeerTypes, LoopInv
  <1> QED
    BY <1>1, <1>2, <1>3, <1>4, <1>5, <1>6, <1>7

LEMMA PeerType ==
    ASSUME TypeInv, NEW c \in Conns, PeerStep(c)
    PROVE  TypeInv'
  <1> USE DEF At, dataVars, tableVars, queueVars, connVars, loopVars, selVars,
             envVars, appVars, peerVars
  <1>0. /\ ConnectionTypes /\ QueueTypes /\ LoopTypes /\ ThreadTypes
        /\ PeerTypes /\ Control /\ LoopInv
    BY DEF TypeInv, TypeOK
  <1>1. CASE PeerConnect(c)
    <2>1. Control'
      BY <1>0, <1>1 DEF PeerConnect, Control
    <2>2. PeerTypes'
      BY <1>0, <1>1 DEF PeerTypes, PeerConnect, PeerPhases
    <2>3. UNCHANGED <<tableVars, connVars, queueVars, loopVars, appVars>>
      BY <1>1 DEF PeerConnect
    <2> QED
      BY <1>0, <2>1, <2>2, <2>3
         DEF TypeInv, TypeOK, Control, ConnectionTypes, QueueTypes, LoopTypes,
             ThreadTypes, LoopInv
  <1>2. CASE \E m \in PeerOps \cap InMsgs : PeerSend(c, m)
    <2>1. Control'
      BY <1>0, <1>2 DEF PeerSend, Control
    <2>2. PeerTypes'
      <3>1. PICK m \in PeerOps \cap InMsgs : PeerSend(c, m)
        BY <1>2
      <3>2. Append(inbound[c], m) \in Seq(InMsgs)
        BY <1>0 DEF PeerTypes
      <3>3. inbound' \in [Conns -> Seq(InMsgs)]
        BY <1>0, <3>1, <3>2 DEF PeerTypes, PeerSend
      <3>4. PhaseAfter(c, m) \in PeerPhases
        BY <1>0 DEF PeerTypes, PhaseAfter, PeerPhases, InMsgs
      <3>5. peer' \in [Conns -> PeerPhases]
        BY <1>0, <3>1, <3>4 DEF PeerTypes, PeerSend
      <3>6. userSent' \in [Conns -> 0..MaxUser]
        BY <1>0, <3>1, SMT DEF PeerTypes, PeerSend, MaySend
      <3> QED
        BY <3>3, <3>5, <3>6 DEF PeerTypes
    <2>3. UNCHANGED <<tableVars, connVars, queueVars, loopVars, appVars>>
      BY <1>2 DEF PeerSend
    <2> QED
      BY <1>0, <2>1, <2>2, <2>3
         DEF TypeInv, TypeOK, Control, ConnectionTypes, QueueTypes, LoopTypes,
             ThreadTypes, LoopInv
  <1>3. CASE PeerLeave(c)
    <2>1. Control'
      BY <1>0, <1>3 DEF PeerLeave, Control
    <2>2. PeerTypes'
      BY <1>0, <1>3 DEF PeerTypes, PeerLeave, PeerPhases
    <2>3. UNCHANGED <<tableVars, connVars, queueVars, loopVars, appVars>>
      BY <1>3 DEF PeerLeave
    <2> QED
      BY <1>0, <2>1, <2>2, <2>3
         DEF TypeInv, TypeOK, Control, ConnectionTypes, QueueTypes, LoopTypes,
             ThreadTypes, LoopInv
  <1> QED
    BY <1>1, <1>2, <1>3 DEF PeerStep

LEMMA TypeInit == Init => TypeInv
  <1> SUFFICES ASSUME Init PROVE TypeInv
    OBVIOUS
  <1>1. ConnectionTypes /\ QueueTypes /\ PeerTypes
    BY SMT DEF Init, ConnectionTypes, QueueTypes, PeerTypes, States, PeerPhases
  <1>2. LoopInv /\ LoopTypes
    BY SMT DEF Init, LoopInv, LoopTypes
  <1>3. NoJob \in Jobs
    BY DEF NoJob, Jobs
  <1>4. {"loop", "top", "idle"} \subseteq Labels \ {"append"}
    BY DEF Labels, SendLabels, CloseLabels, NetLabels, ProcLabels, AppLabels
  <1>5. Control
    BY <1>3, <1>4 DEF Init, Control
  <1>6. ThreadTypes
    BY <1>5 DEF Init, ThreadTypes, Control
  <1> QED
    BY <1>1, <1>2, <1>5, <1>6 DEF TypeInv, TypeOK

LEMMA TypeStep == TypeInv /\ [Next]_vars => TypeInv'
  <1> SUFFICES ASSUME TypeInv, [Next]_vars PROVE TypeInv'
    OBVIOUS
  <1>1. CASE NetStep
    <2>1. "net" \in Threads
      BY DEF Threads
    <2> QED
      BY <1>1, <2>1, LoopType, NetEventType, SendType, CloseType DEF NetStep
  <1>2. CASE ProcStep
    <2>1. "proc" \in Threads
      BY DEF Threads
    <2> QED
      BY <1>2, <2>1, ProcRoundType, HandleType, SendType, CloseType DEF ProcStep
  <1>3. CASE \E a \in Apps : AppStep(a) \/ AppCall(a) \/ AppShutdown(a)
    <2>1. Apps \subseteq Threads
      BY DEF Threads
    <2> QED
      BY <1>3, <2>1, AppType, SendType DEF AppStep
  <1>4. CASE \E c \in Conns : PeerStep(c)
    BY <1>4, PeerType
  <1>5. CASE UNCHANGED vars
    BY <1>5 DEF vars, TypeInv, TypeOK, Control, LoopInv, ConnectionTypes, QueueTypes,
                LoopTypes, ThreadTypes, PeerTypes, dataVars, tableVars,
                queueVars, connVars, loopVars, selVars, envVars, appVars, peerVars
  <1> QED
    BY <1>1, <1>2, <1>3, <1>4, <1>5 DEF Next

\* Every variable keeps its type in every reachable state: in particular the
\* wake-up counter never goes below 0 or above the room of the interrupt pair,
\* and no thread ever appends a packet that does not exist.
THEOREM TypeCorrect == Spec => []TypeOK
  <1>1. TypeInv => TypeOK
    BY DEF TypeInv
  <1> QED
    BY <1>1, TypeInit, TypeStep, PTL DEF Spec

==============================================================================
