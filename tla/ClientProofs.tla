----------------------------- MODULE ClientProofs -----------------------------
(* Types, on_close, and the order of what the client sends. *)
EXTENDS ClientProps, TLAPS, SequenceTheorems

USE AppsAssumption, OpsAssumption, BoundsAssumption

-----------------------------------------------------------------------------
(* Type correctness *)

\* While a thread is in send_message it has a packet to send; an irq event of the
\* round is backed by a byte in the interrupt pair.
Sending == \A t \in Threads : pc[t] \in {"load", "store"} => job[t].msg \in OutMsgs
Backed == "irq" \in ready => irq > 0
TypeInv == TypeOK /\ Sending /\ Backed

\* The control state of a step.
Control == pc \in [Threads -> Labels] /\ job \in [Threads -> Jobs] /\ Sending

LEMMA ControlSteps ==
    ASSUME Control, NEW t \in Threads
    PROVE  /\ \A l \in Labels \ {"load", "store"} : Goto(t, l) => Control'
           /\ pc[t] = "load" /\ Goto(t, "store") => Control'
           /\ \A l \in Labels \ {"load", "store"}, m \in OutMsgs \cup {"none"},
                 then \in {"home", "mark", "typed", "markaccept", "accepted", "pump"} :
                 Call(t, l, m, then) => Control'
           /\ \A m \in OutMsgs, then \in {"home", "mark", "typed", "markaccept", "accepted"} :
                 Call(t, "load", m, then) => Control'
           /\ CallClose(t) => Control'
           /\ Leave(t) => Control'
           /\ Return(t) => Control'
           /\ UNCHANGED <<pc, job>> => Control'
  <1> USE DEF Labels, SendLabels, CloseLabels, ProcLabels, AppLabels
  <1>1. ASSUME NEW l \in Labels, l \in {"load", "store"} => job[t].msg \in OutMsgs, Goto(t, l)
        PROVE  Control'
    BY <1>1 DEF Control, Sending, Goto
  <1>2. ASSUME NEW l \in Labels, NEW m \in OutMsgs \cup {"none"},
               NEW then \in {"home", "mark", "typed", "markaccept", "accepted", "pump"},
               l \in {"load", "store"} => m \in OutMsgs, Call(t, l, m, then)
        PROVE  Control'
    BY <1>2 DEF Control, Sending, Call, Jobs
  <1>3. Home(t) \in Labels \ {"load", "store"}
    BY DEF Home
  <1>4. CallClose(t) => Control'
    BY <1>2 DEF CallClose, OutMsgs
  <1>5. Leave(t) => Control'
    BY <1>2, <1>3 DEF Leave
  <1>6. Return(t) => Control'
    <2>1. /\ job[t].msg \in OutMsgs \cup {"none"}
          /\ job[t].then # "home" => job[t].then \in Labels \ {"load", "store"}
      BY DEF Control, Jobs
    <2> QED
      BY <1>2, <1>5, <2>1 DEF Return
  <1>7. UNCHANGED <<pc, job>> => Control'
    BY DEF Control, Sending
  <1>8. pc[t] = "load" => job[t].msg \in OutMsgs
    BY DEF Control, Sending
  <1> QED
    BY <1>1, <1>2, <1>4, <1>5, <1>6, <1>7, <1>8

LEMMA SubSeqType ==
    ASSUME NEW S, NEW s \in Seq(S), NEW m \in Nat, NEW n \in Nat, n <= Len(s)
    PROVE  SubSeq(s, m + 1, n) \in Seq(S)
  OBVIOUS

LEMMA PiecesType ==
    ASSUME NEW m \in OutMsgs
    PROVE  /\ Pieces(m) \in Seq(OutPieces) /\ Len(Pieces(m)) = PacketSize
           /\ \A k \in 1..PacketSize : Pieces(m)[k] = <<m, k>>
  <1>1. PacketSize \in Nat
    OBVIOUS
  <1>2. Pieces(m) \in [1..PacketSize -> OutPieces]
    BY DEF Pieces, OutPieces
  <1> QED
    BY <1>1, <1>2, LenProperties DEF Pieces

\* TypeInv but for the control state.
DataTypes == /\ ConnTypes /\ BufTypes /\ LoopTypes /\ Backed /\ SrvTypes
             /\ joined \subseteq Apps /\ calls \in 0..MaxCalls

LEMMA TypeParts == TypeInv <=> DataTypes /\ Control
  BY DEF TypeInv, TypeOK, DataTypes, ThreadTypes, Control

LEMMA SendControl ==
    ASSUME Control, NEW t \in Threads, SendStep(t)
    PROVE  Control'
  BY ControlSteps DEF SendStep, Load, Store, Pump, Get, Send, Cut, Trim, After, Wake, Quit, Bye,
     Mark, Labels, SendLabels

LEMMA SendTypes ==
    ASSUME DataTypes, Control, NEW t \in Threads, SendStep(t)
    PROVE  DataTypes'
  <1> USE DEF DataTypes, connVars, bufVars, loopVars, appVars, srvVars, dataVars
  <1>1. CASE Pump(t)
    BY <1>1 DEF Pump, ConnTypes, BufTypes, LoopTypes, Backed, SrvTypes
  <1>2. CASE After(t) \/ Wake(t) \/ Quit(t) \/ Bye(t) \/ Mark(t)
    <2>1. ConnTypes'
      <3> USE DEF ConnTypes
      <3>1. CASE After(t)
        BY <3>1 DEF After
      <3>2. CASE ~After(t)
        <4>1. UNCHANGED <<state, sock>> /\ interest' \in {interest, "none"}
          BY <1>2, <3>2 DEF Wake, Quit, Bye, Mark
        <4>2. closes' = closes \/ closes' = closes + 1
          BY <1>2, <3>2 DEF Wake, Quit, Bye, Mark
        <4>3. markClose' = markClose \/ markClose' = TRUE
          BY <1>2, <3>2 DEF Wake, Quit, Bye, Mark
        <4>4. markClose' \in BOOLEAN
          BY <4>3, Zenon
        <4>5. closes' \in Nat
          BY <4>2
        <4> QED
          BY <4>1, <4>4, <4>5
      <3> QED
        BY <3>1, <3>2
    <2>2. LoopTypes' /\ Backed'
      <3>1. CASE Wake(t)
        BY <3>1 DEF Wake, LoopTypes, Backed
      <3>2. CASE ~Wake(t)
        BY <1>2, <3>2 DEF After, Quit, Bye, Mark, LoopTypes, Backed
      <3> QED
        BY <3>1, <3>2
    <2>3. UNCHANGED <<bufVars, srvVars, appVars>>
      BY <1>2 DEF After, Wake, Quit, Bye, Mark
    <2> QED
      BY <2>1, <2>2, <2>3 DEF BufTypes, SrvTypes
  <1>3. CASE Load(t) \/ Store(t) \/ Get(t) \/ Send(t) \/ Cut(t) \/ Trim(t)
    <2>1. UNCHANGED <<connVars, loopVars, srvVars, appVars>>
      BY <1>3 DEF Load, Store, Get, Send, Cut, Trim, TakeCopy
    <2>2. BufTypes'
      <3> USE DEF BufTypes
      <3>0. mixed' \in BOOLEAN
        <4>1. \/ mixed' = mixed
              \/ mixed' = (mixed \/ (Up /\ \E u \in Threads \ {t} : Holding(u)))
          BY <1>3 DEF Load, Store, Get, Send, Cut, Trim, TakeCopy
        <4> QED
          BY <4>1, Zenon
      <3>1. CASE Load(t) \/ Get(t) \/ Trim(t)
        <4>1. writeBuf' \in {writeBuf, held[t]} /\ UNCHANGED <<taken, queued, wire>>
          BY <3>1 DEF Load, Get, Trim, TakeCopy
        <4>2. held[t] \in Seq(OutPieces) /\ <<>> \in Seq(OutPieces)
          OBVIOUS
        <4>3. \E s \in Seq(OutPieces) : held' = [held EXCEPT ![t] = s]
          BY <3>1, <4>2 DEF Load, Get, Trim, TakeCopy
        <4>4. held' \in [Threads -> Seq(OutPieces)]
          BY <4>3
        <4> QED
          BY <3>0, <4>1, <4>2, <4>4
      <3>2. CASE Store(t)
        <4> DEFINE p == Pieces(job[t].msg)
        <4>1. p \in Seq(OutPieces) /\ held[t] \in Seq(OutPieces) /\ queued \in Seq(OutPieces)
          BY <3>2, PiecesType DEF Control, Sending, Store
        <4> HIDE DEF p
        <4>2. held[t] \o p \in Seq(OutPieces) /\ queued \o p \in Seq(OutPieces)
          BY ONLY <4>1, ConcatProperties
        <4>3. held' = [held EXCEPT ![t] = <<>>]
          BY <3>2 DEF Store
        <4>4. held' \in [Threads -> Seq(OutPieces)]
          BY <4>3
        <4> QED
          BY <3>0, <3>2, <4>2, <4>4 DEF Store, p
      <3>3. CASE Send(t)
        <4>1. \A n \in Portions(held[t]) : n \in Nat /\ SubSeq(held[t], 1, n) \in Seq(OutPieces)
          <5>1. held[t] \in Seq(OutPieces)
            OBVIOUS
          <5>2. ASSUME NEW n \in Portions(held[t])
                PROVE  n \in Nat /\ n <= Len(held[t])
            <6> DEFINE len == Len(held[t])
            <6>1. len \in Nat
              BY <5>1
            <6>2. n \in 1..len \cup {len}
              BY DEF Portions
            <6> HIDE DEF len
            <6>3. n \in Nat /\ n <= len
              BY <6>1, <6>2
            <6> QED
              BY <6>3 DEF len
          <5>3. ASSUME NEW n \in Portions(held[t]) PROVE SubSeq(held[t], 0 + 1, n) \in Seq(OutPieces)
            BY <5>1, <5>2, SubSeqType
          <5> QED
            BY <5>2, <5>3
        <4>2. /\ held' = [held EXCEPT ![t] = <<>>] /\ UNCHANGED <<writeBuf, queued>>
              /\ \/ UNCHANGED <<taken, wire>>
                 \/ \E n \in Portions(held[t]) :
                       /\ taken' = [taken EXCEPT ![t] = n]
                       /\ wire' = wire \/ wire' = wire \o SubSeq(held[t], 1, n)
          BY <3>3 DEF Send
        <4>3. held' \in [Threads -> Seq(OutPieces)]
          BY <4>2
        <4>4. ASSUME NEW n \in Portions(held[t]), taken' = [taken EXCEPT ![t] = n],
                     wire' = wire \/ wire' = wire \o SubSeq(held[t], 1, n)
              PROVE  taken' \in [Threads -> Nat] /\ wire' \in Seq(OutPieces)
          <5>1. n \in Nat /\ SubSeq(held[t], 1, n) \in Seq(OutPieces)
            BY <4>1
          <5> HIDE <4>1
          <5>2. wire \o SubSeq(held[t], 1, n) \in Seq(OutPieces)
            BY <5>1
          <5>3. taken' \in [Threads -> Nat]
            BY <4>4, <5>1
          <5> QED
            BY <4>4, <5>2, <5>3
        <4> QED
          BY <3>0, <4>2, <4>3, <4>4
      <3>4. CASE Cut(t)
        <4>1. SubSeq(writeBuf, taken[t] + 1, Len(writeBuf)) \in Seq(OutPieces)
          BY SubSeqType
        <4> QED
          BY <3>0, <3>4, <4>1 DEF Cut
      <3> QED
        BY <1>3, <3>1, <3>2, <3>3, <3>4
    <2> QED
      BY <2>1, <2>2 DEF ConnTypes, LoopTypes, Backed, SrvTypes
  <1> QED
    BY <1>1, <1>2, <1>3 DEF SendStep

LEMMA NotifyControl ==
    ASSUME Control, NEW t \in Threads, NEW asleep, NEW next \in Labels \ {"load", "store"},
           Notify(t, asleep, next), UNCHANGED job
    PROVE  Control'
  <1>1. "idle" \in Labels
    BY DEF Labels, AppLabels
  <1>2. pc' \in [Threads -> Labels]
    BY <1>1 DEF Notify, Control
  <1>3. ASSUME NEW x \in Threads, pc'[x] \in {"load", "store"}
        PROVE  pc[x] = pc'[x]
    BY <1>3 DEF Notify
  <1> QED
    BY <1>2, <1>3 DEF Control, Sending

LEMMA CloseControl ==
    ASSUME Control, NEW t \in Threads, CloseStep(t)
    PROVE  Control'
  <1> USE DEF Labels, CloseLabels
  <1>1. CASE CloseNotify(t)
    BY <1>1, NotifyControl DEF CloseNotify
  <1>2. CASE ~CloseNotify(t)
    BY <1>2, ControlSteps DEF CloseStep, CloseSocket, CloseUnregister, CloseCallback, CloseSetState
  <1> QED
    BY <1>1, <1>2

LEMMA CloseTypes ==
    ASSUME DataTypes, NEW t \in Threads, CloseStep(t)
    PROVE  DataTypes'
  <1> USE DEF DataTypes, connVars, bufVars, loopVars, appVars, srvVars, dataVars
  <1>1. UNCHANGED <<bufVars, loopVars, appVars, srvVars, markClose>>
    BY DEF CloseStep, CloseNotify, CloseSocket, CloseUnregister, CloseCallback, CloseSetState
  <1>2. state' \in States /\ sock' \in {"open", "closed"} /\ interest' \in {"none", "r", "rw"}
    BY DEF CloseStep, CloseNotify, CloseSocket, CloseUnregister, CloseCallback, CloseSetState,
       ConnTypes, States
  <1>3. closes' \in Nat
    BY DEF CloseStep, CloseNotify, CloseSocket, CloseUnregister, CloseCallback, CloseSetState,
       ConnTypes
  <1> QED
    BY <1>1, <1>2, <1>3 DEF ConnTypes, BufTypes, LoopTypes, Backed, SrvTypes

\* A round of the net thread.
RoundStep == LoopHead \/ SelectReturn \/ ReadIrq \/ Receive \/ ReceiveError
             \/ ReceiveEof \/ ReceiveReset \/ OnlyWrite

LEMMA RoundControl ==
    ASSUME Control, RoundStep
    PROVE  Control'
  <1> USE DEF Labels, SendLabels, CloseLabels
  <1>1. "net" \in Threads
    BY DEF Threads
  <1> QED
    BY <1>1, ControlSteps DEF RoundStep, LoopHead, SelectReturn, ReadIrq, Receive, ReceiveError,
       ReceiveEof, ReceiveReset, OnlyWrite, AfterRead

LEMMA RoundTypes ==
    ASSUME DataTypes, RoundStep
    PROVE  DataTypes'
  <1> USE DEF DataTypes, connVars, bufVars, loopVars, appVars, srvVars, dataVars
  <1>1. UNCHANGED <<connVars, bufVars, appVars, run, srvUser>>
    BY DEF RoundStep, LoopHead, SelectReturn, ReadIrq, Receive, ReceiveError, ReceiveEof,
       ReceiveReset, OnlyWrite
  <1>2. ConnTypes' /\ BufTypes' /\ run' \in BOOLEAN /\ joined' \subseteq Apps
        /\ calls' \in 0..MaxCalls
    BY <1>1 DEF ConnTypes, BufTypes, LoopTypes
  <1>3. irq' \in 0..IrqCap /\ ready' \subseteq {"irq", "in", "out"} /\ Backed'
    <2> USE DEF LoopTypes, Backed
    <2>1. CASE ReadIrq
      BY <2>1 DEF ReadIrq
    <2>2. CASE SelectReturn
      BY <2>2 DEF SelectReturn, Events
    <2>3. CASE ~ReadIrq /\ ~SelectReturn
      BY <2>3 DEF RoundStep, LoopHead, Receive, ReceiveError, ReceiveEof, ReceiveReset,
         OnlyWrite, Taken
    <2> QED
      BY <2>1, <2>2, <2>3
  <1>4. procQ' \in Seq(InMsgs) /\ inbound' \in Seq(InMsgs)
    <2>1. CASE Receive
      <3>1. procQ \in Seq(InMsgs) /\ inbound \in Seq(InMsgs)
        BY DEF LoopTypes, SrvTypes
      <3>2. PICK n \in 1..Len(inbound) :
               /\ inbound' = SubSeq(inbound, n + 1, Len(inbound))
               /\ procQ' = procQ \o SubSeq(inbound, 1, n)
        BY <2>1 DEF Receive
      <3>3. SubSeq(inbound, n + 1, Len(inbound)) \in Seq(InMsgs)
        BY <3>1, <3>2, SubSeqType
      <3>4. SubSeq(inbound, 0 + 1, n) \in Seq(InMsgs)
        BY <3>1, <3>2, SubSeqType
      <3> QED
        BY <3>1, <3>2, <3>3, <3>4
    <2>2. CASE ~Receive
      <3>1. UNCHANGED <<procQ, inbound>>
        BY <2>2 DEF RoundStep, LoopHead, SelectReturn, ReadIrq, ReceiveError, ReceiveEof,
           ReceiveReset, OnlyWrite
      <3> QED
        BY <3>1 DEF LoopTypes, SrvTypes
    <2> QED
      BY <2>1, <2>2
  <1>5. srv' \in {"new", "greeted", "shaken", "leaving", "reset", "gone"}
    BY DEF RoundStep, LoopHead, SelectReturn, ReadIrq, Receive, ReceiveError, ReceiveEof,
       ReceiveReset, OnlyWrite, SrvTypes
  <1> QED
    BY <1>1, <1>2, <1>3, <1>4, <1>5 DEF LoopTypes, SrvTypes

\* The packet handlers.
HandleStep == ProcRound \/ TakeHello \/ Typed \/ Inited \/ TakeHandshake \/ Accepting
              \/ MarkAccept \/ Accepted \/ Announce \/ TakeUser \/ TakeCloseConn

LEMMA HandleControl ==
    ASSUME Control, HandleStep
    PROVE  Control'
  <1> USE DEF Labels, SendLabels, CloseLabels, ProcLabels, AppLabels
  <1>1. "proc" \in Threads
    BY DEF Threads
  <1>2. CASE Announce
    BY <1>1, <1>2, NotifyControl DEF Announce
  <1>3. CASE ProcRound \/ TakeHello \/ Typed \/ Inited
    BY <1>1, <1>3, ControlSteps DEF ProcRound, TakeHello, Typed, Inited, OutMsgs
  <1>4. CASE TakeHandshake \/ Accepting \/ MarkAccept
    BY <1>1, <1>4, ControlSteps DEF TakeHandshake, Accepting, MarkAccept, OutMsgs
  <1>5. CASE Accepted \/ TakeUser \/ TakeCloseConn
    BY <1>1, <1>5, ControlSteps DEF Accepted, TakeUser, TakeCloseConn, OutMsgs
  <1> QED
    BY <1>2, <1>3, <1>4, <1>5 DEF HandleStep

LEMMA HandleTypes ==
    ASSUME DataTypes, HandleStep
    PROVE  DataTypes'
  <1> USE DEF DataTypes, connVars, bufVars, loopVars, appVars, srvVars, dataVars
  <1>1. UNCHANGED <<sock, interest, closes, bufVars, irq, run, ready, srvVars>>
    BY DEF HandleStep, ProcRound, TakeHello, Typed, Inited, TakeHandshake, Accepting, MarkAccept,
       Accepted, Announce, TakeUser, TakeCloseConn, Taking
  <1>0. calls' \in 0..MaxCalls
    <2>1. calls' = calls \/ (calls < MaxCalls /\ calls' = calls + 1)
      BY DEF HandleStep, ProcRound, TakeHello, Typed, Inited, TakeHandshake, Accepting,
         MarkAccept, Accepted, Announce, TakeUser, TakeCloseConn, Taking
    <2> QED
      BY <2>1
  <1>2. state' \in States /\ joined' \subseteq Apps
    BY DEF HandleStep, ProcRound, TakeHello, Typed, Inited, TakeHandshake, Accepting, MarkAccept,
       Accepted, Announce, TakeUser, TakeCloseConn, Taking, ConnTypes, States, Sleepers
  <1>3. markClose' = markClose \/ markClose' = TRUE
    BY DEF HandleStep, ProcRound, TakeHello, Typed, Inited, TakeHandshake, Accepting, MarkAccept,
       Accepted, Announce, TakeUser, TakeCloseConn, Taking
  <1>4. markClose' \in BOOLEAN
    BY <1>3, Zenon DEF ConnTypes
  <1>5. procQ' \in Seq(InMsgs)
    <2>1. procQ \in Seq(InMsgs)
      BY DEF LoopTypes
    <2>2. ASSUME NEW m, Taking(m) PROVE procQ' \in Seq(InMsgs)
      <3>1. procQ # <<>> /\ procQ' = Tail(procQ)
        BY <2>2, Zenon DEF Taking
      <3> QED
        BY <2>1, <3>1
    <2>3. (\E m : Taking(m)) \/ UNCHANGED procQ
      BY DEF HandleStep, ProcRound, TakeHello, Typed, Inited, TakeHandshake, Accepting,
         MarkAccept, Accepted, Announce, TakeUser, TakeCloseConn
    <2> QED
      BY <2>1, <2>2, <2>3
  <1> QED
    BY <1>0, <1>1, <1>2, <1>4, <1>5 DEF ConnTypes, BufTypes, LoopTypes, Backed, SrvTypes

\* The calls of an application thread.
CallStep(a) == \/ Stop(a) \/ Poke(a) \/ AppCall(a) \/ WaitForConnection(a)
               \/ WaitForClose(a) \/ WaitTimesOut(a)

LEMMA CallControl ==
    ASSUME Control, NEW a \in Apps, CallStep(a)
    PROVE  Control'
  <1> USE DEF Labels, SendLabels, AppLabels
  <1>1. a \in Threads
    BY DEF Threads
  <1> QED
    BY <1>1, ControlSteps DEF CallStep, Stop, Poke, AppCall, WaitForConnection, WaitForClose,
       WaitTimesOut, OutMsgs

LEMMA CallTypes ==
    ASSUME DataTypes, NEW a \in Apps, CallStep(a)
    PROVE  DataTypes'
  <1> USE DEF DataTypes, connVars, bufVars, loopVars, appVars, srvVars, dataVars
  <1>1. UNCHANGED <<connVars, bufVars, procQ, ready, srvVars>>
    BY DEF CallStep, Stop, Poke, AppCall, WaitForConnection, WaitForClose, WaitTimesOut
  <1>2. run' = run \/ run' = FALSE
    BY DEF CallStep, Stop, Poke, AppCall, WaitForConnection, WaitForClose, WaitTimesOut
  <1>3. run' \in BOOLEAN
    BY <1>2, Zenon DEF LoopTypes
  <1>4. irq' = irq \/ (irq < IrqCap /\ irq' = irq + 1)
    <2>1. CASE Poke(a)
      BY <2>1 DEF Poke
    <2>2. CASE ~Poke(a)
      BY <2>2 DEF CallStep, Stop, AppCall, WaitForConnection, WaitForClose, WaitTimesOut
    <2> QED
      BY <2>1, <2>2
  <1>5. calls' = calls \/ (calls < MaxCalls /\ calls' = calls + 1)
    <2>1. UNCHANGED calls \/ \E op : Calling(a, op)
      BY DEF CallStep, Stop, Poke, AppCall, WaitForConnection, WaitForClose, WaitTimesOut
    <2>2. ASSUME NEW op, Calling(a, op) PROVE calls < MaxCalls /\ calls' = calls + 1
      BY <2>2, Zenon DEF Calling
    <2> QED
      BY <2>1, <2>2
  <1>6. joined' \subseteq Apps
    BY DEF CallStep, Stop, Poke, AppCall, WaitForConnection, WaitForClose, WaitTimesOut
  <1>7. irq' \in 0..IrqCap /\ Backed'
    BY <1>1, <1>4 DEF LoopTypes, Backed
  <1>8. calls' \in 0..MaxCalls
    BY <1>5
  <1> QED
    BY <1>1, <1>3, <1>6, <1>7, <1>8 DEF ConnTypes, BufTypes, LoopTypes, SrvTypes

LEMMA ServerTypes ==
    ASSUME DataTypes, SrvStep
    PROVE  DataTypes' /\ UNCHANGED <<pc, job, connVars>>
  <1> USE DEF DataTypes, connVars, bufVars, loopVars, appVars, srvVars
  <1>1. UNCHANGED <<connVars, bufVars, loopVars, appVars, pc, job>>
    BY DEF SrvStep, SrvLeave, SrvSend
  <1>2. SrvTypes'
    <2>1. CASE SrvLeave
      <3>1. srv' \in {"reset", "gone"} /\ inbound' \in {inbound, <<>>} /\ UNCHANGED srvUser
        BY <2>1, Zenon DEF SrvLeave
      <3>2. inbound \in Seq(InMsgs) /\ <<>> \in Seq(InMsgs) /\ srvUser \in 0..MaxUser
        BY DEF SrvTypes
      <3> QED
        BY <3>1, <3>2 DEF SrvTypes
    <2>2. ASSUME NEW m \in SrvOps \cap InMsgs, SrvSend(m)
          PROVE  SrvTypes'
      <3>1. inbound' \in Seq(InMsgs)
        BY <2>2 DEF SrvSend, SrvTypes
      <3>2. srv' \in {"new", "greeted", "shaken", "leaving", "reset", "gone"}
        BY <2>2 DEF SrvSend, SrvTypes, SrvPhaseAfter, InMsgs
      <3>3. srvUser' = srvUser \/ (srvUser < MaxUser /\ srvUser' = srvUser + 1)
        <4>1. CASE m = "user"
          <5>1. srvUser < MaxUser
            BY <2>2, <4>1, Zenon DEF SrvSend, SrvMaySend
          <5> QED
            BY <2>2, <4>1, <5>1 DEF SrvSend
        <4>2. CASE m # "user"
          BY <2>2, <4>2 DEF SrvSend
        <4> QED
          BY <4>1, <4>2
      <3>4. srvUser' \in 0..MaxUser
        BY <3>3 DEF SrvTypes
      <3> QED
        BY <3>1, <3>2, <3>4 DEF SrvTypes
    <2> QED
      BY <2>1, <2>2 DEF SrvStep
  <1> QED
    BY <1>1, <1>2 DEF ConnTypes, BufTypes, LoopTypes, Backed

\* Every step is one of a thread, or of the server.
LEMMA Steps ==
    ASSUME Next
    PROVE  \/ RoundStep \/ HandleStep \/ SrvStep
           \/ \E t \in Threads : SendStep(t)
           \/ \E t \in {"net", "proc"} : CloseStep(t)
           \/ \E a \in Apps : CallStep(a)
  <1>1. "net" \in Threads /\ "proc" \in Threads /\ Apps \subseteq Threads
    BY DEF Threads
  <1> QED
    BY <1>1 DEF Next, NetStep, ProcStep, AppStep, RoundStep, HandleStep, CallStep

LEMMA TypeInit == Init => TypeInv
  <1> SUFFICES ASSUME Init PROVE TypeInv
    OBVIOUS
  <1> USE DEF Init
  <1>1. ConnTypes
    BY DEF ConnTypes, States
  <1>2. BufTypes
    <2>1. \A S : <<>> \in Seq(S)
      OBVIOUS
    <2>2. writeBuf \in Seq(OutPieces) /\ queued \in Seq(OutPieces) /\ wire \in Seq(OutPieces)
      BY <2>1
    <2>3. held \in [Threads -> Seq(OutPieces)] /\ taken \in [Threads -> Nat]
      BY <2>1
    <2> QED
      BY <2>2, <2>3 DEF BufTypes
  <1>5. SrvTypes
    BY DEF SrvTypes
  <1>3. LoopTypes /\ Backed
    BY DEF LoopTypes, Backed
  <1>4. Control
    BY DEF Control, Sending, Labels, ProcLabels, AppLabels, Jobs, NoJob
  <1> QED
    BY <1>1, <1>2, <1>3, <1>4, <1>5, TypeParts DEF DataTypes

LEMMA TypeStep == TypeInv /\ [Next]_vars => TypeInv'
  <1> SUFFICES ASSUME DataTypes, Control, [Next]_vars PROVE DataTypes' /\ Control'
    BY TypeParts DEF TypeInv, TypeOK, DataTypes, ThreadTypes, Control
  <1>1. CASE UNCHANGED vars
    BY <1>1 DEF vars, dataVars, connVars, bufVars, loopVars, appVars, srvVars, DataTypes, Control,
       Sending, ConnTypes, BufTypes, LoopTypes, Backed, SrvTypes
  <1>2. CASE RoundStep
    BY <1>2, RoundTypes, RoundControl
  <1>3. CASE HandleStep
    BY <1>3, HandleTypes, HandleControl
  <1>4. CASE SrvStep
    BY <1>4, ServerTypes DEF Control, Sending
  <1>5. ASSUME NEW t \in Threads, SendStep(t) PROVE DataTypes' /\ Control'
    BY <1>5, SendTypes, SendControl
  <1>6. ASSUME NEW t \in {"net", "proc"}, CloseStep(t) PROVE DataTypes' /\ Control'
    BY <1>6, CloseTypes, CloseControl DEF Threads
  <1>7. ASSUME NEW a \in Apps, CallStep(a) PROVE DataTypes' /\ Control'
    BY <1>7, CallTypes, CallControl
  <1> QED
    BY <1>1, <1>2, <1>3, <1>4, <1>5, <1>6, <1>7, Steps

LEMMA TypeAlways == Spec => []TypeInv
  BY TypeInit, TypeStep, PTL DEF Spec

\* Every variable keeps the type its declaration names, whatever the threads,
\* the server and the bounds.
THEOREM TypeCorrect == Spec => []TypeOK
  <1>1. TypeInv => TypeOK
    BY DEF TypeInv
  <1> QED
    BY <1>1, TypeAlways, PTL

-----------------------------------------------------------------------------
(* on_close comes before CLOSED *)

\* A thread that is about to set CLOSED has called on_close, or found the state
\* CLOSED already; either way some thread has called it.
ClosedInv == /\ ClosedWasNotified
             /\ \A t \in Threads : pc[t] = "setclosed" => closes > 0

LEMMA ClosedInit == Init => ClosedInv
  BY DEF Init, ClosedInv, ClosedWasNotified

\* on_close is not called, CLOSED is not set, and no thread comes near it.
LEMMA ClosedFrame ==
    ASSUME ClosedInv, state' = state \/ state' # "closed", closes \in Nat,
           closes' = closes \/ closes' = closes + 1,
           \A t \in Threads : pc'[t] = "setclosed" => pc[t] = "setclosed"
    PROVE  ClosedInv'
  BY DEF ClosedInv, ClosedWasNotified

\* No control step but that of the on_close call itself leads to "setclosed".
LEMMA ControlElsewhere ==
    ASSUME Control, NEW t \in Threads
    PROVE  /\ \A l \in Labels \ {"setclosed"} : Goto(t, l) =>
                 \A x \in Threads : pc'[x] = "setclosed" => pc[x] = "setclosed"
           /\ \A l \in Labels \ {"setclosed"} : \A m, then : Call(t, l, m, then) =>
                 \A x \in Threads : pc'[x] = "setclosed" => pc[x] = "setclosed"
           /\ CallClose(t) => \A x \in Threads : pc'[x] = "setclosed" => pc[x] = "setclosed"
           /\ Leave(t) => \A x \in Threads : pc'[x] = "setclosed" => pc[x] = "setclosed"
           /\ Return(t) => \A x \in Threads : pc'[x] = "setclosed" => pc[x] = "setclosed"
           /\ UNCHANGED pc => \A x \in Threads : pc'[x] = "setclosed" => pc[x] = "setclosed"
  <1>1. job[t].then # "setclosed" /\ Home(t) # "setclosed"
    BY DEF Control, Jobs, Home
  <1> QED
    BY <1>1 DEF Goto, Call, CallClose, Leave, Return, Control

LEMMA NotifyElsewhere ==
    ASSUME Control, NEW t \in Threads, NEW asleep, NEW next, next # "setclosed",
           Notify(t, asleep, next)
    PROVE  \A x \in Threads : pc'[x] = "setclosed" => pc[x] = "setclosed"
  BY DEF Notify

LEMMA ClosedStep == TypeInv /\ ClosedInv /\ [Next]_vars => ClosedInv'
  <1> SUFFICES ASSUME DataTypes, Control, ClosedInv, [Next]_vars PROVE ClosedInv'
    BY TypeParts
  <1> USE DEF connVars, bufVars, loopVars, appVars, srvVars, dataVars
  <1> DEFINE Elsewhere == \A x \in Threads : pc'[x] = "setclosed" => pc[x] = "setclosed"
  <1>1. closes \in Nat
    BY DEF DataTypes, ConnTypes
  <1>2. Apps \subseteq Threads /\ "net" \in Threads /\ "proc" \in Threads
    BY DEF Threads
  <1>3. CASE UNCHANGED vars
    BY <1>1, <1>3, ClosedFrame DEF vars
  <1>4. CASE RoundStep
    <2>1. Elsewhere
      BY <1>2, <1>4, ControlElsewhere DEF RoundStep, LoopHead, SelectReturn, ReadIrq, Receive,
         ReceiveError, ReceiveEof, ReceiveReset, OnlyWrite, Labels, SendLabels, CloseLabels
    <2>2. UNCHANGED <<state, closes>>
      BY <1>4 DEF RoundStep, LoopHead, SelectReturn, ReadIrq, Receive, ReceiveError, ReceiveEof,
         ReceiveReset, OnlyWrite
    <2> QED
      BY <1>1, <2>1, <2>2, ClosedFrame
  <1>5. CASE HandleStep
    <2> USE DEF Labels, SendLabels, CloseLabels, ProcLabels
    <2>1. Elsewhere
      <3>1. CASE Announce
        BY <1>2, <3>1, NotifyElsewhere DEF Announce
      <3>2. CASE ProcRound \/ TakeHello \/ Typed \/ Inited
        BY <1>2, <3>2, ControlElsewhere DEF ProcRound, TakeHello, Typed, Inited
      <3>3. CASE TakeHandshake \/ Accepting \/ MarkAccept
        BY <1>2, <3>3, ControlElsewhere DEF TakeHandshake, Accepting, MarkAccept
      <3>4. CASE Accepted \/ TakeUser \/ TakeCloseConn
        BY <1>2, <3>4, ControlElsewhere DEF Accepted, TakeUser, TakeCloseConn
      <3> QED
        BY <1>5, <3>1, <3>2, <3>3, <3>4 DEF HandleStep
    <2>2. UNCHANGED closes /\ (state' = state \/ state' # "closed")
      BY <1>5 DEF HandleStep, ProcRound, TakeHello, Typed, Inited, TakeHandshake, Accepting,
         MarkAccept, Accepted, Announce, TakeUser, TakeCloseConn, Taking
    <2> QED
      BY <1>1, <2>1, <2>2, ClosedFrame
  <1>6. CASE SrvStep
    BY <1>1, <1>6, ServerTypes, ClosedFrame
  <1>7. ASSUME NEW t \in Threads, SendStep(t) PROVE ClosedInv'
    <2>1. Elsewhere
      BY <1>7, ControlElsewhere DEF SendStep, Load, Store, Pump, Get, Send, Cut, Trim, After,
         Wake, Quit, Bye, Mark, Labels, SendLabels
    <2>2. UNCHANGED state
      BY <1>7 DEF SendStep, Load, Store, Pump, Get, Send, Cut, Trim, After, Wake, Quit, Bye, Mark
    <2>3. closes' = closes \/ closes' = closes + 1
      BY <1>7 DEF SendStep, Load, Store, Pump, Get, Send, Cut, Trim, After, Wake, Quit, Bye, Mark
    <2> QED
      BY <1>1, <2>1, <2>2, <2>3, ClosedFrame
  <1>8. ASSUME NEW t \in {"net", "proc"}, CloseStep(t) PROVE ClosedInv'
    <2> USE DEF Labels, CloseLabels
    <2>0. t \in Threads
      BY <1>2
    <2>1. CASE CloseNotify(t)
      <3>1. Elsewhere
        BY <2>0, <2>1, NotifyElsewhere DEF CloseNotify
      <3> QED
        BY <1>1, <2>1, <3>1, ClosedFrame DEF CloseNotify
    <2>2. CASE CloseSocket(t) \/ CloseUnregister(t)
      <3>1. Elsewhere
        BY <2>0, <2>2, ControlElsewhere DEF CloseSocket, CloseUnregister
      <3> QED
        BY <1>1, <2>2, <3>1, ClosedFrame DEF CloseSocket, CloseUnregister
    <2>3. CASE CloseCallback(t)
      <3>1. closes' > 0
        BY <1>1, <2>3 DEF CloseCallback, ClosedInv, ClosedWasNotified
      <3> QED
        BY <3>1 DEF ClosedInv, ClosedWasNotified
    <2>4. CASE CloseSetState(t)
      <3>1. closes' > 0
        BY <2>0, <2>4 DEF CloseSetState, ClosedInv
      <3> QED
        BY <3>1 DEF ClosedInv, ClosedWasNotified
    <2> QED
      BY <1>8, <2>1, <2>2, <2>3, <2>4 DEF CloseStep
  <1>9. ASSUME NEW a \in Apps, CallStep(a) PROVE ClosedInv'
    <2> USE DEF Labels, SendLabels, AppLabels
    <2>1. Elsewhere
      BY <1>2, <1>9, ControlElsewhere DEF CallStep, Stop, Poke, AppCall, WaitForConnection,
         WaitForClose, WaitTimesOut
    <2>2. UNCHANGED <<state, closes>>
      BY <1>9 DEF CallStep, Stop, Poke, AppCall, WaitForConnection, WaitForClose, WaitTimesOut
    <2> QED
      BY <1>1, <2>1, <2>2, ClosedFrame
  <1> QED
    BY <1>3, <1>4, <1>5, <1>6, <1>7, <1>8, <1>9, Steps

\* A client is CLOSED only after on_close, with any number of threads closing,
\* sending and waiting, and with the net and the proc thread both in close().
THEOREM ClosedNotified == Spec => []ClosedWasNotified
  <1>1. ClosedInv => ClosedWasNotified
    BY DEF ClosedInv
  <1> QED
    BY <1>1, TypeAlways, ClosedInit, ClosedStep, PTL DEF Spec
-----------------------------------------------------------------------------
(* Where a step takes the threads *)

\* Nobody but t moves, unless it is woken.
OthersStay(t) == \A x \in Threads \ {t} :
    /\ pc'[x] = pc[x] \/ (pc'[x] = "idle" /\ pc[x] \in {"connecting", "closing"})
    /\ job'[x] = job[x]

LEMMA Moves ==
    ASSUME Control, NEW t \in Threads
    PROVE  /\ \A l : Goto(t, l) => OthersStay(t) /\ pc'[t] = l /\ job'[t] = job[t]
           /\ \A l, m, then : Call(t, l, m, then) =>
                 OthersStay(t) /\ pc'[t] = l /\ job'[t] = [msg |-> m, then |-> then]
           /\ CallClose(t) =>
                 OthersStay(t) /\ pc'[t] = "load" /\ job'[t] = [msg |-> "closeconn", then |-> "mark"]
           /\ Leave(t) => OthersStay(t) /\ pc'[t] = Home(t) /\ job'[t] = NoJob
           /\ Return(t) => /\ OthersStay(t)
                           /\ job[t].then = "home" => pc'[t] = Home(t) /\ job'[t] = NoJob
                           /\ job[t].then # "home" => /\ pc'[t] = job[t].then
                                                      /\ job'[t].then = "home"
                                                      /\ job'[t].msg = job[t].msg
           /\ UNCHANGED <<pc, job>> => OthersStay(t) /\ pc'[t] = pc[t] /\ job'[t] = job[t]
  <1>1. \A l : Goto(t, l) => OthersStay(t) /\ pc'[t] = l /\ job'[t] = job[t]
    BY DEF Control, Goto, OthersStay
  <1>2. ASSUME NEW l, NEW m, NEW then, Call(t, l, m, then)
        PROVE  OthersStay(t) /\ pc'[t] = l /\ job'[t] = [msg |-> m, then |-> then]
    BY <1>2 DEF Control, Call, OthersStay
  <1>3. CallClose(t) =>
           OthersStay(t) /\ pc'[t] = "load" /\ job'[t] = [msg |-> "closeconn", then |-> "mark"]
    BY <1>2 DEF CallClose
  <1>4. Leave(t) => OthersStay(t) /\ pc'[t] = Home(t) /\ job'[t] = NoJob
    BY <1>2 DEF Leave, NoJob
  <1>5. ASSUME Return(t), job[t].then # "home"
        PROVE  OthersStay(t) /\ pc'[t] = job[t].then /\ job'[t].then = "home"
               /\ job'[t].msg = job[t].msg
    <2>1. Call(t, job[t].then, job[t].msg, "home")
      BY <1>5 DEF Return
    <2>2. /\ OthersStay(t) /\ pc'[t] = job[t].then
          /\ job'[t] = [msg |-> job[t].msg, then |-> "home"]
      BY <1>2, <2>1
    <2> QED
      BY <2>2
  <1>6. Return(t) /\ job[t].then = "home" => Leave(t)
    BY DEF Return
  <1>7. UNCHANGED <<pc, job>> => OthersStay(t) /\ pc'[t] = pc[t] /\ job'[t] = job[t]
    BY DEF OthersStay
  <1> QED
    BY <1>1, <1>2, <1>3, <1>4, <1>5, <1>6, <1>7

LEMMA NotifyMoves ==
    ASSUME Control, NEW t \in Threads, NEW asleep \in {"connecting", "closing"}, NEW next,
           Notify(t, asleep, next), UNCHANGED job
    PROVE  OthersStay(t) /\ pc'[t] = next /\ job'[t] = job[t]
  BY DEF Control, Notify, OthersStay

\* The server never comes back, and the socket is not opened again.
LEMMA UpStays ==
    ASSUME [Next]_vars, Up'
    PROVE  Up
  <1> USE DEF Up, SrvUp, connVars, bufVars, loopVars, appVars, srvVars, dataVars
  <1>1. CASE UNCHANGED vars
    BY <1>1 DEF vars
  <1>2. CASE RoundStep
    BY <1>2 DEF RoundStep, LoopHead, SelectReturn, ReadIrq, Receive, ReceiveError, ReceiveEof,
       ReceiveReset, OnlyWrite
  <1>3. CASE HandleStep
    BY <1>3 DEF HandleStep, ProcRound, TakeHello, Typed, Inited, TakeHandshake, Accepting,
       MarkAccept, Accepted, Announce, TakeUser, TakeCloseConn, Taking
  <1>4. CASE SrvStep
    BY <1>4 DEF SrvStep, SrvLeave, SrvSend, SrvMaySend, SrvPhaseAfter
  <1>5. ASSUME NEW t \in Threads, SendStep(t) PROVE Up
    BY <1>5 DEF SendStep, Load, Store, Pump, Get, TakeCopy, Send, Cut, Trim, After, Wake, Quit, Bye, Mark
  <1>6. ASSUME NEW t \in {"net", "proc"}, CloseStep(t) PROVE Up
    BY <1>6 DEF CloseStep, CloseNotify, CloseSocket, CloseUnregister, CloseCallback, CloseSetState
  <1>7. ASSUME NEW a \in Apps, CallStep(a) PROVE Up
    BY <1>7 DEF CallStep, Stop, Poke, AppCall, WaitForConnection, WaitForClose, WaitTimesOut
  <1> QED
    BY <1>1, <1>2, <1>3, <1>4, <1>5, <1>6, <1>7, Steps

\* Where each group of steps takes its thread.
LEMMA RoundMoves ==
    ASSUME Control, RoundStep
    PROVE  /\ OthersStay("net")
           /\ pc'["net"] \in {"loop", "select", "done", "pump", "cnotify"}
           /\ pc'["net"] \in {"loop", "select", "done"} \/ "out" \in ready \/ ~Up
           /\ UNCHANGED <<connVars, bufVars, appVars, srvUser>>
           /\ ready' \subseteq ready \cup Events
  <1> USE DEF connVars, bufVars, loopVars, appVars, srvVars, dataVars
  <1>0. "net" \in Threads /\ Home("net") = "loop"
    BY DEF Threads, Home
  <1>1. CASE LoopHead \/ SelectReturn
    <2>1. \E l \in {"loop", "select", "done"} : Goto("net", l)
      BY <1>1 DEF LoopHead, SelectReturn
    <2> QED
      BY <1>0, <1>1, <2>1, Moves DEF LoopHead, SelectReturn
  <1>2. CASE ReadIrq \/ ReceiveError \/ ReceiveReset
    <2>1. UNCHANGED <<pc, job>> /\ pc["net"] = "loop"
      BY <1>2 DEF ReadIrq, ReceiveError, ReceiveReset
    <2> QED
      BY <1>0, <1>2, <2>1, Moves DEF ReadIrq, ReceiveError, ReceiveReset, Taken
  <1>3. CASE Receive
    <2>1. \/ UNCHANGED <<pc, job>> /\ pc["net"] = "loop"
          \/ Call("net", "pump", "none", "home") /\ "out" \in ready
      BY <1>3 DEF Receive
    <2> QED
      BY <1>0, <1>3, <2>1, Moves DEF Receive, Taken
  <1>4. CASE ReceiveEof
    <2>1. Call("net", "cnotify", "none", AfterRead) /\ ~Up
      BY <1>4 DEF ReceiveEof, Up, SrvUp
    <2> QED
      BY <1>0, <1>4, <2>1, Moves DEF ReceiveEof, Taken
  <1>5. CASE OnlyWrite
    <2>1. Call("net", "pump", "none", "home") /\ "out" \in ready
      BY <1>5 DEF OnlyWrite
    <2> QED
      BY <1>0, <1>5, <2>1, Moves DEF OnlyWrite, Taken
  <1> QED
    BY <1>1, <1>2, <1>3, <1>4, <1>5 DEF RoundStep

LEMMA HandleMoves ==
    ASSUME Control, HandleStep
    PROVE  /\ OthersStay("proc")
           /\ pc'["proc"] \in {"load", "top", "draining", "done", "inited", "accepting",
                               "announce", "dead", "cnotify"}
           /\ pc["proc"] \notin SendLabels
           /\ UNCHANGED <<sock, interest, bufVars, run, ready, srvVars>>
           /\ joined \subseteq joined'
           /\ state' = state \/ state' \in {"waittype", "handshake_wait1", "active"}
  <1> USE DEF connVars, bufVars, loopVars, appVars, srvVars, dataVars, SendLabels
  <1>0. "proc" \in Threads /\ Home("proc") = "draining"
    BY DEF Threads, Home
  <1>1. CASE ProcRound
    <2>1. \E l \in {"draining", "done", "top"} : Goto("proc", l)
      BY <1>1 DEF ProcRound
    <2> QED
      BY <1>0, <1>1, <2>1, Moves DEF ProcRound
  <1>2. CASE TakeHello
    <2>1. \/ Call("proc", "load", "settype", "typed") \/ Leave("proc") \/ CallClose("proc")
      BY <1>2 DEF TakeHello
    <2> QED
      BY <1>0, <1>2, <2>1, Moves DEF TakeHello, Taking
  <1>3. CASE Typed \/ Inited
    <2>1. Goto("proc", "inited") \/ Leave("proc")
      BY <1>3 DEF Typed, Inited
    <2> QED
      BY <1>0, <1>3, <2>1, Moves DEF Typed, Inited
  <1>4. CASE TakeHandshake
    <2>1. Goto("proc", "accepting") \/ CallClose("proc")
      BY <1>4 DEF TakeHandshake
    <2> QED
      BY <1>0, <1>4, <2>1, Moves DEF TakeHandshake, Taking
  <1>5. CASE Accepting \/ MarkAccept
    <2>1. \E m, then : Call("proc", "load", m, then)
      BY <1>5 DEF Accepting, MarkAccept
    <2> QED
      BY <1>0, <1>5, <2>1, Moves DEF Accepting, MarkAccept
  <1>6. CASE Accepted
    BY <1>0, <1>6, Moves DEF Accepted
  <1>7. CASE Announce
    BY <1>0, <1>7, NotifyMoves DEF Announce
  <1>8. CASE TakeUser
    <2>1. \/ Call("proc", "load", "user", "home") \/ Leave("proc") \/ CallClose("proc")
          \/ Goto("proc", "dead")
      BY <1>8 DEF TakeUser
    <2> QED
      BY <1>0, <1>8, <2>1, Moves DEF TakeUser, Taking
  <1>9. CASE TakeCloseConn
    BY <1>0, <1>9, Moves DEF TakeCloseConn, Taking
  <1> QED
    BY <1>1, <1>2, <1>3, <1>4, <1>5, <1>6, <1>7, <1>8, <1>9 DEF HandleStep

LEMMA ReturnMoves ==
    ASSUME Control, NEW t \in Threads, Return(t)
    PROVE  /\ OthersStay(t) /\ job'[t].then = "home"
           /\ pc'[t] \in {Home(t), "mark", "typed", "markaccept", "accepted", "pump"}
           /\ job[t].then # "home" => pc'[t] = job[t].then
           /\ job[t].then = "home" => pc'[t] = Home(t)
  BY Moves DEF Control, Jobs, NoJob

LEMMA SendMoves ==
    ASSUME Control, NEW t \in Threads, SendStep(t)
    PROVE  /\ OthersStay(t) /\ pc[t] \in SendLabels
           /\ pc'[t] \in SendLabels \cup {Home(t), "typed", "markaccept", "accepted"}
           /\ pc'[t] # "load"
           /\ UNCHANGED <<state, sock, procQ, run, ready, appVars, srvVars>>
  <1> USE DEF connVars, bufVars, loopVars, appVars, srvVars, dataVars, SendLabels
  <1>0. Home(t) # "load"
    BY DEF Home
  <1>1. CASE Load(t) \/ Store(t) \/ Get(t) \/ Cut(t) \/ Trim(t)
    <2>1. \E l \in {"store", "pump", "send", "trim", "after"} : Goto(t, l)
      BY <1>1 DEF Load, Store, Get, TakeCopy, Cut, Trim
    <2> QED
      BY <1>1, <2>1, Moves DEF Load, Store, Get, TakeCopy, Cut, Trim
  <1>2. CASE Pump(t) \/ Send(t) \/ After(t) \/ Quit(t)
    <2>1. Return(t) \/ \E l \in {"get", "cut", "quit", "wake", "bye"} : Goto(t, l)
      BY <1>2 DEF Pump, Send, After, Quit
    <2>2. /\ OthersStay(t) /\ pc'[t] # "load"
          /\ pc'[t] \in SendLabels \cup {Home(t), "typed", "markaccept", "accepted"}
      BY <1>0, <2>1, Moves, ReturnMoves
    <2> QED
      BY <1>2, <2>2 DEF Pump, Send, After, Quit
  <1>3. CASE Wake(t) \/ Bye(t)
    BY <1>0, <1>3, ReturnMoves DEF Wake, Bye
  <1>4. CASE Mark(t)
    BY <1>0, <1>4, Moves DEF Mark
  <1> QED
    BY <1>1, <1>2, <1>3, <1>4 DEF SendStep

LEMMA CloseMoves ==
    ASSUME Control, NEW t \in Threads, CloseStep(t)
    PROVE  /\ OthersStay(t) /\ pc[t] \in CloseLabels
           /\ \/ pc[t] = "setclosed" /\ Return(t) /\ UNCHANGED sock
              \/ pc[t] = "cnotify" /\ pc'[t] = "shut" /\ UNCHANGED <<state, sock, interest>>
              \/ pc[t] = "shut" /\ sock' = "closed" /\ pc'[t] = "unreg" /\ UNCHANGED state
              \/ /\ pc[t] \in {"unreg", "onclose"} /\ pc'[t] \in {"onclose", "setclosed"}
                 /\ UNCHANGED <<state, sock>>
           /\ UNCHANGED <<bufVars, loopVars, appVars, srvVars>>
  <1> USE DEF connVars, bufVars, loopVars, appVars, srvVars, dataVars, CloseLabels
  <1>1. CASE CloseNotify(t)
    BY <1>1, NotifyMoves DEF CloseNotify
  <1>2. CASE CloseSocket(t)
    BY <1>2, Moves DEF CloseSocket
  <1>3. CASE CloseUnregister(t)
    BY <1>3, Moves DEF CloseUnregister
  <1>4. CASE CloseCallback(t)
    BY <1>4, Moves DEF CloseCallback
  <1>5. CASE CloseSetState(t)
    BY <1>5, ReturnMoves DEF CloseSetState
  <1> QED
    BY <1>1, <1>2, <1>3, <1>4, <1>5 DEF CloseStep

LEMMA CallMoves ==
    ASSUME Control, NEW a \in Apps, CallStep(a)
    PROVE  /\ OthersStay(a) /\ pc[a] \notin SendLabels
           /\ \/ pc'[a] = "load" /\ (WaitFirst => a \in joined) /\ a \in Senders
              \/ pc'[a] \in {"stop", "poke"} /\ job'[a].then = "home"
              \/ pc[a] = "stop" /\ pc'[a] = "poke" /\ job'[a] = job[a]
              \/ pc'[a] \in {"idle", "connecting", "closing"}
              \/ pc[a] = "poke" /\ Return(a)
           /\ joined' \in {joined, joined \cup {a}}
           /\ joined' = joined \/ state \in {"active", "closed"}
           /\ UNCHANGED <<connVars, bufVars, procQ, ready, srvVars>>
  <1> USE DEF connVars, bufVars, loopVars, appVars, srvVars, dataVars, SendLabels
  <1>0. a \in Threads /\ Home(a) = "idle"
    BY DEF Threads, Home
  <1>1. CASE Stop(a)
    BY <1>0, <1>1, Moves DEF Stop
  <1>2. CASE Poke(a)
    BY <1>0, <1>2, ReturnMoves DEF Poke
  <1>3. CASE AppCall(a)
    <2>0. pc[a] = "idle" /\ UNCHANGED <<connVars, bufVars, loopVars, srvVars, joined>>
      BY <1>3 DEF AppCall, Calling
    <2>1. CASE Call(a, "stop", "none", "home")
      <3>1. OthersStay(a) /\ pc'[a] = "stop" /\ job'[a] = [msg |-> "none", then |-> "home"]
        BY <1>0, <2>1, Moves
      <3> QED
        BY <2>0, <3>1
    <2>2. CASE /\ Call(a, "load", "user", "home") \/ CallClose(a)
               /\ (WaitFirst => a \in joined) /\ a \in Senders
      <3>1. OthersStay(a) /\ pc'[a] = "load"
        BY <1>0, <2>2, Moves
      <3> QED
        BY <2>0, <2>2, <3>1
    <2>3. ASSUME NEW op \in {"send", "close"}, Calling(a, op) PROVE a \in Senders
      BY <2>3 DEF Calling
    <2> QED
      BY <1>3, <2>1, <2>2, <2>3 DEF AppCall
  <1>4. CASE WaitForConnection(a)
    <2>1. pc[a] = "idle" /\ (UNCHANGED <<pc, job>> \/ Goto(a, "connecting"))
      BY <1>4 DEF WaitForConnection, Calling
    <2> QED
      BY <1>0, <1>4, <2>1, Moves DEF WaitForConnection
  <1>5. CASE WaitForClose(a)
    <2>1. pc[a] = "idle" /\ (UNCHANGED <<pc, job>> \/ Goto(a, "closing"))
      BY <1>5 DEF WaitForClose, Calling
    <2> QED
      BY <1>0, <1>5, <2>1, Moves DEF WaitForClose
  <1>6. CASE WaitTimesOut(a)
    BY <1>0, <1>6, Moves DEF WaitTimesOut
  <1> QED
    BY <1>1, <1>2, <1>3, <1>4, <1>5, <1>6 DEF CallStep

-----------------------------------------------------------------------------
(* One stream, as long as no two threads have a copy of _write_buf in hand *)

HoldLabels == {"store", "send", "cut", "trim"}

\* At most one thread has a copy; until it is about to cut off what it has sent,
\* the copy is _write_buf.  What is on the wire and what will be in _write_buf
\* when it is done make up what was queued.
OneHolds == \A t \in Threads, u \in Threads :
    pc[t] \in HoldLabels /\ pc[u] \in HoldLabels => t = u
CopyOf(t) ==
    /\ pc[t] \in {"store", "send"} => held[t] = writeBuf
    /\ pc[t] = "cut" => /\ taken[t] <= Len(writeBuf)
                        /\ wire \o SubSeq(writeBuf, taken[t] + 1, Len(writeBuf)) = queued
    /\ pc[t] = "trim" => wire \o held[t] = queued
Whole == (\A t \in Threads : pc[t] \notin {"cut", "trim"}) => wire \o writeBuf = queued
Stream == OneHolds /\ (\A t \in Threads : CopyOf(t)) /\ Whole

StreamInv == ~mixed => IsPrefix(wire, queued) /\ (Up => Stream)

\* Cutting a sequence in two.
LEMMA SplitAt ==
    ASSUME NEW S, NEW b \in Seq(S), NEW n \in Nat, n <= Len(b)
    PROVE  /\ SubSeq(b, 1, n) \in Seq(S) /\ SubSeq(b, n + 1, Len(b)) \in Seq(S)
           /\ Len(SubSeq(b, 1, n)) = n
           /\ SubSeq(b, 1, n) \o SubSeq(b, n + 1, Len(b)) = b
  <1> DEFINE x == SubSeq(b, 1, n)
             y == SubSeq(b, n + 1, Len(b))
  <1>1. n \in Nat /\ Len(b) \in Nat /\ n <= Len(b)
    OBVIOUS
  <1>2. /\ x \in Seq(S) /\ Len(x) = n /\ \A i \in 1..n : x[i] = b[i]
    BY <1>1
  <1>3. y \in Seq(S) /\ Len(y) = Len(b) - n
    BY <1>1, SubSeqType
  <1>4. \A i \in 1..(Len(b) - n) : y[i] = b[n + i]
    BY <1>1
  <1> HIDE DEF x, y
  <1>5. /\ x \o y \in Seq(S) /\ Len(x \o y) = Len(x) + Len(y)
        /\ \A i \in 1..(Len(x) + Len(y)) : (x \o y)[i] = IF i <= Len(x) THEN x[i] ELSE y[i - Len(x)]
    BY ONLY <1>2, <1>3, ConcatProperties
  <1>6. x \o y = b
    <2>1. \A i \in 1..Len(x \o y) : (x \o y)[i] = b[i]
      <3> TAKE i \in 1..Len(x \o y)
      <3>1. CASE i <= n
        BY <1>1, <1>2, <1>3, <1>5, <3>1
      <3>2. CASE ~(i <= n)
        <4>1. i - n \in 1..(Len(b) - n) /\ n + (i - n) = i
          BY <1>1, <1>2, <1>3, <1>5, <3>2
        <4> QED
          BY <1>1, <1>2, <1>3, <1>4, <1>5, <3>2, <4>1
      <3> QED
        BY <3>1, <3>2
    <2>2. Len(x \o y) = Len(b)
      BY <1>1, <1>2, <1>3, <1>5
    <2> QED
      BY <1>5, <2>1, <2>2, SeqEqual
  <1> QED
    BY <1>2, <1>3, <1>6 DEF x, y

LEMMA ConcatFacts ==
    ASSUME NEW S, NEW w \in Seq(S), NEW u \in Seq(S), NEW v \in Seq(S)
    PROVE  /\ w \o u \in Seq(S) /\ Len(w \o u) = Len(w) + Len(u)
           /\ \A i \in 1..Len(w) : (w \o u)[i] = w[i]
           /\ (w \o u) \o v = w \o (u \o v)
           /\ w \o <<>> = w
  OBVIOUS

LEMMA PrefixMeans ==
    ASSUME NEW S, NEW w \in Seq(S), NEW q \in Seq(S)
    PROVE  IsPrefix(w, q) <=> Len(w) <= Len(q) /\ \A i \in 1..Len(w) : w[i] = q[i]
  <1>1. CASE Len(w) <= Len(q)
    <2> DEFINE a == SubSeq(w, 1, Len(w))
               b == SubSeq(q, 1, Len(w))
    <2>1. /\ a \in Seq(S) /\ Len(a) = Len(w) /\ \A i \in 1..Len(w) : a[i] = w[i]
          /\ b \in Seq(S) /\ Len(b) = Len(w) /\ \A i \in 1..Len(w) : b[i] = q[i]
      BY <1>1
    <2>2. IsPrefix(w, q) <=> a = b
      BY <1>1 DEF IsPrefix
    <2>3. a = b <=> \A i \in 1..Len(w) : a[i] = b[i]
      <3> HIDE DEF a, b
      <3> QED
        BY <2>1, SeqEqual
    <2> HIDE DEF a, b
    <2> QED
      BY <1>1, <2>1, <2>2, <2>3
  <1>2. CASE ~(Len(w) <= Len(q))
    BY <1>2 DEF IsPrefix
  <1> QED
    BY <1>1, <1>2

LEMMA PrefixFacts ==
    ASSUME NEW S, NEW w \in Seq(S), NEW q \in Seq(S), NEW u \in Seq(S)
    PROVE  /\ IsPrefix(w, w) /\ IsPrefix(w, w \o u)
           /\ IsPrefix(w, q) => IsPrefix(w, q \o u)
  <1>1. IsPrefix(w, w)
    BY PrefixMeans
  <1>2. ASSUME NEW r \in Seq(S), IsPrefix(w, r) PROVE IsPrefix(w, r \o u)
    <2>1. Len(w) <= Len(r) /\ \A i \in 1..Len(w) : w[i] = r[i]
      BY <1>2, PrefixMeans
    <2> DEFINE v == r \o u
    <2>2. v \in Seq(S) /\ Len(v) = Len(r) + Len(u) /\ \A i \in 1..Len(r) : v[i] = r[i]
      BY ConcatFacts
    <2> HIDE DEF v
    <2>3. Len(w) \in Nat /\ Len(r) \in Nat /\ Len(u) \in Nat
      OBVIOUS
    <2>4. Len(w) <= Len(v) /\ \A i \in 1..Len(w) : w[i] = v[i]
      BY <2>1, <2>2, <2>3
    <2>5. IsPrefix(w, v)
      BY <2>2, <2>4, PrefixMeans
    <2> QED
      BY <2>5 DEF v
  <1> QED
    BY <1>1, <1>2

LEMMA BufferType ==
    ASSUME DataTypes
    PROVE  /\ writeBuf \in Seq(OutPieces) /\ queued \in Seq(OutPieces) /\ wire \in Seq(OutPieces)
           /\ \A t \in Threads : held[t] \in Seq(OutPieces) /\ taken[t] \in Nat
           /\ held \in [Threads -> Seq(OutPieces)] /\ taken \in [Threads -> Nat]
  BY DEF DataTypes, BufTypes

LEMMA PortionsType ==
    ASSUME NEW S, NEW b \in Seq(S), NEW n \in Portions(b)
    PROVE  n \in Nat /\ n <= Len(b)
  <1> DEFINE len == Len(b)
  <1>1. len \in Nat /\ n \in 1..len \cup {len}
    BY DEF Portions
  <1> HIDE DEF len
  <1>2. n \in Nat /\ n <= len
    BY <1>1
  <1> QED
    BY <1>2 DEF len

\* Steps that take no copy, and give none up.
LEMMA StreamFrame ==
    ASSUME Stream, UNCHANGED bufVars,
           \A x \in Threads : pc'[x] \in HoldLabels \/ pc[x] \in HoldLabels => pc'[x] = pc[x]
    PROVE  Stream'
  <1>1. OneHolds'
    BY DEF Stream, OneHolds
  <1>2. ASSUME NEW x \in Threads PROVE CopyOf(x)'
    <2>1. CASE pc'[x] \in HoldLabels
      BY <2>1 DEF Stream, CopyOf, bufVars
    <2>2. CASE pc'[x] \notin HoldLabels
      BY <2>2 DEF CopyOf, HoldLabels
    <2> QED
      BY <2>1, <2>2
  <1>3. Whole'
    <2>1. \A x \in Threads : pc'[x] \notin {"cut", "trim"} => pc[x] \notin {"cut", "trim"}
      BY DEF HoldLabels
    <2> QED
      BY <2>1 DEF Stream, Whole, bufVars
  <1> QED
    BY <1>1, <1>2, <1>3 DEF Stream

\* The thread that has the copy, or takes it.
LEMMA StreamTurn ==
    ASSUME NEW t \in Threads, OthersStay(t), \A x \in Threads \ {t} : pc[x] \notin HoldLabels,
           CopyOf(t)', pc'[t] \notin {"cut", "trim"} => (wire \o writeBuf = queued)'
    PROVE  Stream'
  <1>1. \A x \in Threads \ {t} : pc'[x] \notin HoldLabels
    BY DEF OthersStay, HoldLabels
  <1>2. OneHolds'
    BY <1>1 DEF OneHolds
  <1>3. \A x \in Threads : CopyOf(x)'
    BY <1>1 DEF CopyOf, HoldLabels
  <1>4. Whole'
    BY DEF Whole
  <1> QED
    BY <1>2, <1>3, <1>4 DEF Stream
-----------------------------------------------------------------------------
LEMMA StreamSend ==
    ASSUME DataTypes, Control, Up, Stream, ~mixed', NEW t \in Threads, SendStep(t)
    PROVE  Stream'
  <1> USE DEF connVars, bufVars, loopVars, appVars, srvVars, dataVars
  <1>0. /\ writeBuf \in Seq(OutPieces) /\ queued \in Seq(OutPieces) /\ wire \in Seq(OutPieces)
        /\ held[t] \in Seq(OutPieces) /\ taken[t] \in Nat
        /\ held \in [Threads -> Seq(OutPieces)] /\ taken \in [Threads -> Nat]
    BY BufferType
  <1>1. OthersStay(t)
    BY SendMoves
  <1>a. ASSUME pc[t] \in HoldLabels PROVE \A x \in Threads \ {t} : pc[x] \notin HoldLabels
    BY <1>a DEF Stream, OneHolds
  <1>b. ASSUME TakeCopy(t) PROVE \A x \in Threads \ {t} : pc[x] \notin HoldLabels
    BY <1>b DEF TakeCopy, Holding, HoldLabels
  <1>c. ASSUME \A x \in Threads \ {t} : pc[x] \notin HoldLabels, pc[t] \notin {"cut", "trim"}
        PROVE  wire \o writeBuf = queued
    BY <1>c DEF Stream, Whole, HoldLabels
  <1>2. CASE Load(t) \/ Get(t)
    <2>1. TakeCopy(t) /\ pc[t] \in {"load", "get"} /\ pc'[t] \in {"store", "send"}
      BY <1>2, Moves DEF Load, Get
    <2>2. held'[t] = writeBuf /\ UNCHANGED <<writeBuf, queued, wire>>
      BY <1>0, <2>1 DEF TakeCopy
    <2>3. CopyOf(t)'
      BY <2>1, <2>2 DEF CopyOf
    <2>4. (wire \o writeBuf = queued)'
      BY <1>b, <1>c, <2>1, <2>2
    <2> QED
      BY <1>1, <1>b, <2>1, <2>3, <2>4, StreamTurn
  <1>3. CASE Store(t)
    <2> DEFINE p == Pieces(job[t].msg)
    <2>1. /\ pc[t] = "store" /\ pc'[t] = "pump" /\ UNCHANGED wire
          /\ writeBuf' = held[t] \o p /\ queued' = queued \o p
      BY <1>3, Moves DEF Store
    <2>2. p \in Seq(OutPieces)
      <3>1. job[t].msg \in OutMsgs
        BY <2>1 DEF Control, Sending
      <3> QED
        BY <3>1, PiecesType
    <2> HIDE DEF p
    <2>3. held[t] = writeBuf /\ \A x \in Threads \ {t} : pc[x] \notin HoldLabels
      BY <1>a, <2>1 DEF Stream, CopyOf, HoldLabels
    <2>4. wire \o writeBuf = queued
      BY <1>c, <2>1, <2>3
    <2>5. (wire \o writeBuf) \o p = wire \o (writeBuf \o p)
      BY <1>0, <2>2, ConcatFacts
    <2>6. (wire \o writeBuf = queued)'
      BY <2>1, <2>3, <2>4, <2>5
    <2>7. CopyOf(t)'
      BY <2>1 DEF CopyOf
    <2> QED
      BY <1>1, <2>3, <2>6, <2>7, StreamTurn
  <1>4. CASE Send(t)
    <2>1. PICK n \in Portions(held[t]) :
             /\ taken' = [taken EXCEPT ![t] = n] /\ wire' = wire \o SubSeq(held[t], 1, n)
             /\ Goto(t, "cut")
      BY <1>4 DEF Send, Up
    <2>2. pc[t] = "send" /\ UNCHANGED <<writeBuf, queued>>
      BY <1>4 DEF Send
    <2>3. held[t] = writeBuf /\ \A x \in Threads \ {t} : pc[x] \notin HoldLabels
      BY <1>a, <2>2 DEF Stream, CopyOf, HoldLabels
    <2>4. wire \o writeBuf = queued
      BY <1>c, <2>2, <2>3
    <2>5. n \in Nat /\ n <= Len(writeBuf)
      BY <1>0, <2>3, PortionsType
    <2> DEFINE x == SubSeq(writeBuf, 1, n)
               y == SubSeq(writeBuf, n + 1, Len(writeBuf))
    <2>6. x \in Seq(OutPieces) /\ y \in Seq(OutPieces) /\ x \o y = writeBuf
      BY <1>0, <2>5, SplitAt
    <2>7. wire' = wire \o x /\ taken'[t] = n
      BY <1>0, <2>1, <2>3
    <2> HIDE DEF x, y
    <2>8. (wire \o x) \o y = wire \o (x \o y)
      <3>1. wire \in Seq(OutPieces) /\ x \in Seq(OutPieces) /\ y \in Seq(OutPieces)
        BY <1>0, <2>6
      <3> QED
        BY ONLY <3>1, ConcatFacts
    <2>9. wire' \o y = queued'
      BY <2>2, <2>4, <2>6, <2>7, <2>8
    <2>10. pc'[t] = "cut"
      BY <2>1, Moves
    <2>11. CopyOf(t)'
      BY <2>2, <2>5, <2>7, <2>9, <2>10 DEF CopyOf, y
    <2> QED
      BY <1>1, <2>3, <2>10, <2>11, StreamTurn
  <1>5. CASE Cut(t)
    <2>1. /\ pc[t] = "cut" /\ pc'[t] = "trim" /\ UNCHANGED <<queued, wire>>
          /\ held' = [held EXCEPT ![t] = SubSeq(writeBuf, taken[t] + 1, Len(writeBuf))]
      BY <1>5, Moves DEF Cut
    <2>2. \A x \in Threads \ {t} : pc[x] \notin HoldLabels
      BY <1>a, <2>1 DEF HoldLabels
    <2>3. wire \o SubSeq(writeBuf, taken[t] + 1, Len(writeBuf)) = queued
      BY <2>1 DEF Stream, CopyOf
    <2>4. held'[t] = SubSeq(writeBuf, taken[t] + 1, Len(writeBuf))
      BY <1>0, <2>1
    <2>5. CopyOf(t)'
      BY <2>1, <2>3, <2>4 DEF CopyOf
    <2> QED
      BY <1>1, <2>1, <2>2, <2>5, StreamTurn
  <1>6. CASE Trim(t)
    <2>1. /\ pc[t] = "trim" /\ pc'[t] = "after" /\ UNCHANGED <<queued, wire>>
          /\ writeBuf' = held[t]
      BY <1>6, Moves DEF Trim
    <2>2. \A x \in Threads \ {t} : pc[x] \notin HoldLabels
      BY <1>a, <2>1 DEF HoldLabels
    <2>3. (wire \o writeBuf = queued)'
      BY <2>1 DEF Stream, CopyOf
    <2>4. CopyOf(t)'
      BY <2>1 DEF CopyOf
    <2> QED
      BY <1>1, <2>2, <2>3, <2>4, StreamTurn
  <1>7. CASE Pump(t) \/ After(t) \/ Wake(t) \/ Quit(t) \/ Bye(t) \/ Mark(t)
    <2>1. UNCHANGED bufVars /\ pc[t] \notin HoldLabels
      BY <1>7 DEF Pump, After, Wake, Quit, Bye, Mark, HoldLabels
    <2>2. Return(t) \/ Leave(t) \/ \E l \in {"get", "quit", "wake", "bye"} : Goto(t, l)
      BY <1>7 DEF Pump, After, Wake, Quit, Bye, Mark
    <2>3. pc'[t] \notin HoldLabels
      BY <2>2, Moves, ReturnMoves DEF HoldLabels, Home
    <2>4. \A x \in Threads : pc'[x] \in HoldLabels \/ pc[x] \in HoldLabels => pc'[x] = pc[x]
      BY <1>1, <2>1, <2>3 DEF OthersStay, HoldLabels
    <2>5. UNCHANGED bufVars
      BY <2>1
    <2> QED
      BY <2>4, <2>5, StreamFrame
  <1> QED
    BY <1>2, <1>3, <1>4, <1>5, <1>6, <1>7 DEF SendStep

\* What a step puts on the wire, and into the buffer: a step that delivers, and
\* one that queues a packet.
Delivers(t) ==
    /\ Up /\ Up' /\ queued' = queued /\ mixed' = mixed /\ pc[t] = "send"
    /\ \E n \in Portions(held[t]) : wire' = wire \o SubSeq(held[t], 1, n)
Queues(t) ==
    /\ pc[t] = "store" /\ job[t].msg \in OutMsgs
    /\ queued' = queued \o Pieces(job[t].msg) /\ UNCHANGED <<wire, sock, srv, mixed>>

LEMMA WireStep ==
    ASSUME DataTypes, Control, [Next]_vars
    PROVE  \/ UNCHANGED <<wire, queued>> /\ (mixed' = mixed \/ (mixed' /\ Up /\ Up'))
           \/ \E t \in Threads : Delivers(t) \/ Queues(t)
  <1> USE DEF connVars, bufVars, loopVars, appVars, srvVars, dataVars
  <1>0. mixed \in BOOLEAN
    BY DEF DataTypes, BufTypes
  <1>1. CASE UNCHANGED vars
    BY <1>1 DEF vars
  <1>2. CASE RoundStep
    BY <1>2, RoundMoves
  <1>3. CASE HandleStep
    BY <1>3, HandleMoves
  <1>4. CASE SrvStep
    BY <1>4 DEF SrvStep, SrvLeave, SrvSend
  <1>5. ASSUME NEW t \in Threads, SendStep(t)
        PROVE  \/ UNCHANGED <<wire, queued>> /\ (mixed' = mixed \/ (mixed' /\ Up /\ Up'))
               \/ Delivers(t) \/ Queues(t)
    <2>1. CASE Send(t)
      BY <2>1 DEF Send, Up, SrvUp, Delivers
    <2>2. CASE Store(t)
      <3>1. job[t].msg \in OutMsgs
        BY <2>2 DEF Store, Control, Sending
      <3> QED
        BY <2>2, <3>1 DEF Store, Queues
    <2>3. CASE Load(t) \/ Get(t)
      <3>1. TakeCopy(t) /\ UNCHANGED <<sock, srv>>
        BY <2>3 DEF Load, Get
      <3>2. Up' = Up
        BY <3>1 DEF Up, SrvUp
      <3> QED
        BY <1>0, <3>1, <3>2 DEF TakeCopy
    <2>4. CASE ~(Send(t) \/ Store(t) \/ Load(t) \/ Get(t))
      BY <1>5, <2>4 DEF SendStep, Pump, Cut, Trim, After, Wake, Quit, Bye, Mark
    <2> QED
      BY <2>1, <2>2, <2>3, <2>4
  <1>6. ASSUME NEW t \in {"net", "proc"}, CloseStep(t) PROVE UNCHANGED <<wire, queued, mixed>>
    <2>1. t \in Threads
      BY DEF Threads
    <2> QED
      BY <1>6, <2>1, CloseMoves
  <1>7. ASSUME NEW a \in Apps, CallStep(a) PROVE UNCHANGED <<wire, queued, mixed>>
    BY <1>7 DEF CallStep, Stop, Poke, AppCall, WaitForConnection, WaitForClose, WaitTimesOut
  <1> QED
    BY <1>1, <1>2, <1>3, <1>4, <1>5, <1>6, <1>7, Steps

LEMMA StreamStep ==
    ASSUME DataTypes, Control, Up, Stream, ~mixed', [Next]_vars
    PROVE  Stream'
  <1>0. Apps \subseteq Threads /\ "net" \in Threads /\ "proc" \in Threads
    BY DEF Threads
  <1>a. ASSUME NEW t \in Threads, OthersStay(t), UNCHANGED bufVars,
               pc[t] \notin HoldLabels, pc'[t] \notin HoldLabels
        PROVE  Stream'
    <2>1. \A x \in Threads : pc'[x] \in HoldLabels \/ pc[x] \in HoldLabels => pc'[x] = pc[x]
      BY <1>a DEF OthersStay, HoldLabels
    <2> QED
      BY <1>a, <2>1, StreamFrame
  <1>1. CASE UNCHANGED vars
    BY <1>1, StreamFrame DEF vars, dataVars
  <1>2. CASE RoundStep
    <2>1. pc["net"] \notin HoldLabels
      BY <1>2 DEF RoundStep, LoopHead, SelectReturn, ReadIrq, Receive, ReceiveError, ReceiveEof,
         ReceiveReset, OnlyWrite, HoldLabels
    <2>2. pc'["net"] \notin HoldLabels /\ OthersStay("net") /\ UNCHANGED bufVars
      BY <1>2, RoundMoves DEF HoldLabels
    <2> QED
      BY <1>0, <1>a, <2>1, <2>2
  <1>3. CASE HandleStep
    <2>1. OthersStay("proc") /\ UNCHANGED bufVars /\ pc'["proc"] \notin HoldLabels
      BY <1>3, HandleMoves DEF HoldLabels
    <2>2. pc["proc"] \notin HoldLabels
      BY <1>3, HandleMoves DEF HoldLabels, SendLabels
    <2> QED
      BY <1>0, <1>a, <2>1, <2>2
  <1>4. CASE SrvStep
    <2>1. UNCHANGED <<pc, bufVars>>
      BY <1>4 DEF SrvStep, SrvLeave, SrvSend
    <2> QED
      BY <2>1, StreamFrame
  <1>5. ASSUME NEW t \in Threads, SendStep(t) PROVE Stream'
    BY <1>5, StreamSend
  <1>6. ASSUME NEW t \in {"net", "proc"}, CloseStep(t) PROVE Stream'
    <2>1. t \in Threads
      BY <1>0
    <2>2. OthersStay(t) /\ pc[t] \notin HoldLabels /\ UNCHANGED bufVars
      BY <1>6, <2>1, CloseMoves DEF HoldLabels, CloseLabels
    <2>3. pc'[t] \notin HoldLabels
      BY <1>6, <2>1, CloseMoves, ReturnMoves DEF HoldLabels, Home
    <2> QED
      BY <1>a, <2>1, <2>2, <2>3
  <1>7. ASSUME NEW a \in Apps, CallStep(a) PROVE Stream'
    <2>1. OthersStay(a) /\ pc[a] \notin HoldLabels /\ UNCHANGED bufVars
      BY <1>7, CallMoves DEF HoldLabels, SendLabels
    <2>2. pc'[a] \notin HoldLabels
      BY <1>0, <1>7, CallMoves, ReturnMoves DEF HoldLabels, Home
    <2> QED
      BY <1>0, <1>a, <2>1, <2>2
  <1> QED
    BY <1>1, <1>2, <1>3, <1>4, <1>5, <1>6, <1>7, Steps

\* While there is a rest of what was queued, the wire holds the beginning.
LEMMA RestPrefix ==
    ASSUME NEW w \in Seq(OutPieces), NEW q, NEW u \in Seq(OutPieces), q = w \o u
    PROVE  IsPrefix(w, q)
  <1>1. IsPrefix(w, w \o u)
    BY PrefixFacts
  <1> QED
    BY <1>1

LEMMA StreamInit == Init => StreamInv
  <1> SUFFICES ASSUME Init PROVE IsPrefix(wire, queued) /\ Stream
    BY DEF StreamInv
  <1>1. writeBuf = <<>> /\ wire = <<>> /\ queued = <<>> /\ wire \o writeBuf = queued
    BY DEF Init
  <1>2. \A t \in Threads : pc[t] \in {"loop", "top", "idle"}
    BY DEF Init, Threads
  <1>3. IsPrefix(wire, queued)
    BY <1>1 DEF IsPrefix
  <1> QED
    BY <1>1, <1>2, <1>3 DEF Stream, OneHolds, CopyOf, Whole, HoldLabels

LEMMA StreamInvStep ==
    ASSUME DataTypes, DataTypes', Control, StreamInv, [Next]_vars
    PROVE  StreamInv'
  <1> SUFFICES ASSUME ~mixed' PROVE IsPrefix(wire, queued)' /\ (Up' => Stream')
    BY DEF StreamInv
  <1>1. ~mixed
    <2>1. CASE UNCHANGED <<wire, queued>> /\ (mixed' = mixed \/ (mixed' /\ Up /\ Up'))
      BY <2>1
    <2>2. ASSUME NEW t \in Threads, Delivers(t) \/ Queues(t) PROVE ~mixed
      <3>1. mixed' = mixed
        BY <2>2 DEF Delivers, Queues
      <3> QED
        BY <3>1
    <2> QED
      BY <2>1, <2>2, WireStep
  <1>2. ASSUME Up' PROVE Stream'
    BY <1>1, <1>2, UpStays, StreamStep DEF StreamInv
  <1>3. ASSUME Up' PROVE IsPrefix(wire, queued)'
    <2>0. /\ writeBuf' \in Seq(OutPieces) /\ queued' \in Seq(OutPieces)
          /\ wire' \in Seq(OutPieces)
          /\ \A t \in Threads : held'[t] \in Seq(OutPieces) /\ taken'[t] \in Nat
      BY DEF DataTypes, BufTypes
    <2>1. Stream'
      BY <1>2, <1>3
    <2>2. ASSUME NEW t \in Threads, pc'[t] = "cut" PROVE IsPrefix(wire, queued)'
      <3> DEFINE b == writeBuf'
                 n == taken'[t]
                 u == SubSeq(b, n + 1, Len(b))
      <3>1. n <= Len(b) /\ queued' = wire' \o u
        BY <2>1, <2>2 DEF Stream, CopyOf
      <3>2. b \in Seq(OutPieces) /\ n \in Nat
        BY <2>0
      <3> HIDE DEF b, n
      <3>3. u \in Seq(OutPieces)
        BY <3>1, <3>2, SplitAt
      <3> HIDE DEF u
      <3> QED
        BY <2>0, <3>1, <3>3, RestPrefix
    <2>3. ASSUME NEW t \in Threads, pc'[t] = "trim" PROVE IsPrefix(wire, queued)'
      <3> DEFINE u == held'[t]
      <3>1. queued' = wire' \o u
        BY <2>1, <2>3 DEF Stream, CopyOf
      <3>2. u \in Seq(OutPieces)
        BY <2>0
      <3> HIDE DEF u
      <3> QED
        BY <2>0, <3>1, <3>2, RestPrefix
    <2>4. CASE \A t \in Threads : pc'[t] \notin {"cut", "trim"}
      <3>1. queued' = wire' \o writeBuf'
        BY <2>1, <2>4 DEF Stream, Whole
      <3> QED
        BY <2>0, <3>1, RestPrefix
    <2> QED
      BY <2>2, <2>3, <2>4
  <1>4. ASSUME ~Up' PROVE IsPrefix(wire, queued)'
    <2>0. IsPrefix(wire, queued) /\ wire \in Seq(OutPieces) /\ queued \in Seq(OutPieces)
      BY <1>1, BufferType DEF StreamInv
    <2>1. wire' = wire /\ (queued' = queued \/ \E m \in OutMsgs : queued' = queued \o Pieces(m))
      BY <1>4, WireStep DEF Delivers, Queues
    <2>2. ASSUME NEW m \in OutMsgs, queued' = queued \o Pieces(m) PROVE IsPrefix(wire, queued)'
      <3> DEFINE u == Pieces(m)
      <3>1. u \in Seq(OutPieces)
        BY PiecesType
      <3> HIDE DEF u
      <3>2. IsPrefix(wire, queued \o u)
        BY <2>0, <3>1, PrefixFacts
      <3> QED
        BY <2>1, <2>2, <3>2 DEF u
    <2> QED
      BY <1>4, <2>0, <2>1, <2>2
  <1> QED
    BY <1>2, <1>3, <1>4

LEMMA StreamAlways == Spec => []StreamInv
  <1>1. TypeInv /\ TypeInv' /\ StreamInv /\ [Next]_vars => StreamInv'
    BY StreamInvStep, TypeParts DEF TypeInv, TypeOK, DataTypes, ThreadTypes
  <1> QED
    BY <1>1, StreamInit, TypeAlways, PTL DEF Spec

\* What the client has sent and still holds in _write_buf is, in order and each
\* byte once, what was given to send_message: for any number of threads, for a
\* send() that takes as little as it likes, with the net thread writing what is
\* left, until two threads have had a copy of _write_buf in hand at once.
THEOREM SentOrdered == Spec => []SentInOrder
  <1>1. StreamInv => SentInOrder
    BY DEF StreamInv, SentInOrder, Stream, Whole
  <1> QED
    BY <1>1, StreamAlways, PTL
-----------------------------------------------------------------------------
(* A rest is watched *)

WorkLabels == {"pump", "get", "send", "cut", "trim", "after"}

\* A rest stays watched if the threads at work stay there, or one gets there.
LEMMA WatchFrame ==
    ASSUME RestIsWatched, Up' => Up, interest' = "r" => interest = "r",
           \/ \E t \in Threads : pc'[t] \in WorkLabels
           \/ /\ UNCHANGED writeBuf
              /\ \A t \in Threads : pc[t] \in WorkLabels => pc'[t] \in WorkLabels
    PROVE  RestIsWatched'
  BY DEF RestIsWatched, WorkLabels

\* While there is a rest, no thread leaves its work without asking for EVENT_WRITE.
LEMMA WatchSend ==
    ASSUME DataTypes, Control, RestIsWatched, Up' => Up, NEW t \in Threads, SendStep(t)
    PROVE  RestIsWatched'
  <1> USE DEF connVars, bufVars, loopVars, appVars, srvVars, dataVars
  <1>0. OthersStay(t) /\ interest \in {"none", "r", "rw"}
    BY SendMoves DEF DataTypes, ConnTypes
  <1>a. ASSUME UNCHANGED writeBuf, pc[t] \notin WorkLabels, interest' = "r" => interest = "r"
        PROVE  RestIsWatched'
    <2>1. \A x \in Threads : pc[x] \in WorkLabels => pc'[x] \in WorkLabels
      BY <1>0, <1>a DEF OthersStay, WorkLabels
    <2> QED
      BY <1>a, <2>1, WatchFrame
  <1>1. CASE Load(t) \/ Wake(t) \/ Quit(t) \/ Bye(t) \/ Mark(t)
    <2>1. UNCHANGED writeBuf /\ pc[t] \notin WorkLabels /\ (interest' = "r" => interest = "r")
      BY <1>1 DEF Load, TakeCopy, Wake, Quit, Bye, Mark, WorkLabels
    <2> QED
      BY <1>a, <2>1
  <1>2. CASE Store(t) \/ Get(t) \/ Cut(t) \/ Trim(t)
    <2>1. UNCHANGED interest /\ \E l \in WorkLabels : Goto(t, l)
      BY <1>2 DEF Store, Get, Cut, Trim, WorkLabels
    <2>2. pc'[t] \in WorkLabels
      BY <2>1, Moves
    <2> QED
      BY <2>1, <2>2, WatchFrame
  <1>3. CASE Pump(t)
    <2>1. UNCHANGED <<writeBuf, interest>> /\ (writeBuf # <<>> => Goto(t, "get"))
      BY <1>3 DEF Pump
    <2>2. CASE writeBuf # <<>>
      BY <2>1, <2>2, Moves, WatchFrame DEF WorkLabels
    <2> QED
      BY <2>1, <2>2 DEF RestIsWatched
  <1>4. CASE Send(t)
    <2>1. UNCHANGED <<interest, sock, srv>> /\ (Up => Goto(t, "cut"))
      BY <1>4 DEF Send, Up
    <2>2. CASE Up
      BY <2>1, <2>2, Moves, WatchFrame DEF WorkLabels
    <2> QED
      BY <2>1, <2>2 DEF RestIsWatched
  <1>5. CASE After(t)
    <2>1. UNCHANGED writeBuf /\ (writeBuf # <<>> => interest' # "r")
      BY <1>5 DEF After
    <2> QED
      BY <2>1 DEF RestIsWatched
  <1> QED
    BY <1>1, <1>2, <1>3, <1>4, <1>5 DEF SendStep

LEMMA WatchStep ==
    ASSUME DataTypes, Control, RestIsWatched, [Next]_vars
    PROVE  RestIsWatched'
  <1> USE DEF connVars, bufVars, loopVars, appVars, srvVars, dataVars
  <1>0. /\ Apps \subseteq Threads /\ "net" \in Threads /\ "proc" \in Threads
        /\ Up' => Up
    BY UpStays DEF Threads
  <1>a. ASSUME NEW t \in Threads, OthersStay(t), pc[t] \notin WorkLabels,
               UNCHANGED writeBuf, interest' = "r" => interest = "r"
        PROVE  RestIsWatched'
    <2>1. \A x \in Threads : pc[x] \in WorkLabels => pc'[x] \in WorkLabels
      BY <1>a DEF OthersStay, WorkLabels
    <2> QED
      BY <1>0, <1>a, <2>1, WatchFrame
  <1>1. CASE UNCHANGED vars
    BY <1>0, <1>1, WatchFrame DEF vars
  <1>2. CASE RoundStep
    <2>1. pc["net"] \notin WorkLabels
      BY <1>2 DEF RoundStep, LoopHead, SelectReturn, ReadIrq, Receive, ReceiveError, ReceiveEof,
         ReceiveReset, OnlyWrite, WorkLabels
    <2> QED
      BY <1>0, <1>2, <1>a, <2>1, RoundMoves
  <1>3. CASE HandleStep
    <2>1. pc["proc"] \notin WorkLabels
      BY <1>3, HandleMoves DEF WorkLabels, SendLabels
    <2> QED
      BY <1>0, <1>3, <1>a, <2>1, HandleMoves
  <1>4. CASE SrvStep
    <2>1. UNCHANGED <<pc, writeBuf, interest>>
      BY <1>4 DEF SrvStep, SrvLeave, SrvSend
    <2> QED
      BY <1>0, <2>1, WatchFrame
  <1>5. ASSUME NEW t \in Threads, SendStep(t) PROVE RestIsWatched'
    BY <1>0, <1>5, WatchSend
  <1>6. ASSUME NEW t \in {"net", "proc"}, CloseStep(t) PROVE RestIsWatched'
    <2>1. t \in Threads
      BY <1>0
    <2>2. OthersStay(t) /\ pc[t] \notin WorkLabels /\ UNCHANGED writeBuf
      BY <1>6, <2>1, CloseMoves DEF WorkLabels, CloseLabels
    <2>3. interest' = "r" => interest = "r"
      BY <1>6 DEF CloseStep, CloseNotify, CloseSocket, CloseUnregister, CloseCallback, CloseSetState
    <2> QED
      BY <1>a, <2>1, <2>2, <2>3
  <1>7. ASSUME NEW a \in Apps, CallStep(a) PROVE RestIsWatched'
    <2>1. OthersStay(a) /\ pc[a] \notin WorkLabels /\ UNCHANGED <<writeBuf, interest>>
      BY <1>7, CallMoves DEF WorkLabels, SendLabels
    <2> QED
      BY <1>0, <1>a, <2>1
  <1> QED
    BY <1>1, <1>2, <1>3, <1>4, <1>5, <1>6, <1>7, Steps

\* What send() has left over is never forgotten: while the connection is there and
\* the client in the selector, a thread is still at it or the net thread waits for
\* EVENT_WRITE, for any number of threads that write and trim at once.
THEOREM RestWatched == Spec => []RestIsWatched
  <1>1. Init => RestIsWatched
    BY DEF Init, RestIsWatched
  <1>2. TypeInv /\ RestIsWatched /\ [Next]_vars => RestIsWatched'
    BY WatchStep, TypeParts DEF TypeInv, TypeOK, DataTypes, ThreadTypes
  <1> QED
    BY <1>1, <1>2, TypeAlways, PTL DEF Spec
-----------------------------------------------------------------------------
(* accept comes before what the application sends *)

\* The application sends from one thread, and its packet handler sends nothing.
OneAtATime == HandlerOps \subseteq {"raise"} /\ \A a, b \in Senders : a = b

\* All of a packet, and some of one.
HasAll(s, m) == \A k \in 1..PacketSize : \E i \in 1..Len(s) : s[i] = <<m, k>>
HasSome(s, m) == \E i \in 1..Len(s) : s[i][1] = m

\* What the server has sent and the proc thread has not handled: at most one
\* handshake packet, and none before the server's own turn.
Shakes == {"handshake", "badhandshake"}
Flow == procQ \o inbound
NoneIn(s) == \A i \in 1..Len(s) : s[i] \notin Shakes
OneIn(s) == \A i \in 1..Len(s), j \in 1..Len(s) : s[i] \in Shakes /\ s[j] \in Shakes => i = j
Over == srv \notin {"new", "greeted"} /\ NoneIn(Flow)
OneShake == /\ srv \in {"new", "greeted"} => NoneIn(Flow)
            /\ OneIn(Flow)

\* CLOSED is set after the socket is closed.
Shut == /\ \A t \in Threads : pc[t] \in {"unreg", "onclose", "setclosed"} => sock = "closed"
        /\ state = "closed" => sock = "closed"

\* An application thread sends only when wait_for_connection has returned.
Waited == \A a \in Apps : /\ pc[a] \in SendLabels => a \in joined /\ a \in Senders
                          /\ pc[a] \in {"stop", "poke"} => job[a].then = "home"

\* accept is queued before on_handshake_complete, nobody waits successfully
\* before, and the server has sent its only handshake packet by then.
ProcSends == pc["proc"] \in SendLabels
AcceptPath ==
    /\ pc["proc"] \in {"accepting", "markaccept", "accepted", "announce"} => Over
    /\ ProcSends /\ job["proc"].then \in {"markaccept", "accepted"} => Over
    /\ pc["proc"] \in {"load", "store"} /\ job["proc"].then = "accepted"
          => job["proc"].msg = "accept"
    /\ ProcSends /\ pc["proc"] \notin {"load", "store"} /\ job["proc"].then = "accepted"
          => HasAll(queued, "accept")
    /\ pc["proc"] = "accepted" => HasAll(queued, "accept")
    /\ pc["proc"] = "announce" => state = "active"
    /\ joined # {} => state = "active"
    /\ \A t \in Threads : pc[t] \in {"load", "store"} /\ job[t].msg = "user" => state = "active"
    /\ state # "active" => ~HasSome(queued, "user")

\* An active client has queued accept, and its proc thread is past the handshake.
Connected == state = "active" =>
    /\ Over
    /\ pc["proc"] \notin {"typed", "inited", "accepting", "markaccept", "accepted"}
    /\ ProcSends => job["proc"].then \notin {"typed", "markaccept", "accepted"}
    /\ OneAtATime => ~ProcSends
    /\ HasAll(queued, "accept")

UpInv == OneShake /\ AcceptPath /\ Connected
OrderInv == Shut /\ Waited /\ (Up => UpInv)

-----------------------------------------------------------------------------
(* Shut and Waited *)

LEMMA ShutStep ==
    ASSUME Control, Shut, WaitFirst, [Next]_vars
    PROVE  Shut'
  <1> DEFINE Late == {"unreg", "onclose", "setclosed"}
             Frame == \A x \in Threads : pc'[x] \in Late => pc[x] \in Late
  <1>0. Apps \subseteq Threads /\ "net" \in Threads /\ "proc" \in Threads
    BY DEF Threads
  <1>a. ASSUME NEW t \in Threads, OthersStay(t), pc'[t] \in Late => pc[t] \in Late PROVE Frame
    BY <1>a DEF OthersStay
  <1>b. ASSUME NEW t \in Threads PROVE job[t].then \notin Late /\ Home(t) \notin Late
    BY DEF Control, Jobs, Home
  <1>c. ASSUME Frame, UNCHANGED sock, state' = state \/ state' # "closed" PROVE Shut'
    BY <1>c DEF Shut
  <1> HIDE DEF Frame
  <1>1. CASE UNCHANGED vars
    BY <1>1 DEF vars, dataVars, connVars, Shut
  <1>2. CASE RoundStep
    BY <1>0, <1>2, <1>a, <1>c, RoundMoves DEF connVars
  <1>3. CASE HandleStep
    BY <1>0, <1>3, <1>a, <1>c, HandleMoves
  <1>4. CASE SrvStep
    BY <1>4 DEF SrvStep, SrvLeave, SrvSend, Shut, connVars
  <1>5. ASSUME NEW t \in Threads, SendStep(t) PROVE Shut'
    <2>1. pc'[t] \notin Late
      BY <1>5, <1>b, SendMoves DEF SendLabels
    <2> QED
      BY <1>5, <1>a, <1>c, <2>1, SendMoves
  <1>6. ASSUME NEW t \in {"net", "proc"}, CloseStep(t) PROVE Shut'
    <2>0. t \in Threads
      BY <1>0
    <2>1. CASE pc[t] = "setclosed" /\ Return(t) /\ UNCHANGED sock
      <3>1. sock = "closed"
        BY <2>0, <2>1 DEF Shut
      <3> QED
        BY <2>1, <3>1 DEF Shut
    <2>2. CASE pc[t] = "cnotify" /\ pc'[t] = "shut" /\ UNCHANGED <<state, sock>>
      BY <1>6, <1>a, <1>c, <2>0, <2>2, CloseMoves
    <2>3. CASE pc[t] = "shut" /\ sock' = "closed" /\ pc'[t] = "unreg" /\ UNCHANGED state
      BY <2>3 DEF Shut
    <2>4. CASE /\ pc[t] \in {"unreg", "onclose"} /\ pc'[t] \in {"onclose", "setclosed"}
               /\ UNCHANGED <<state, sock>>
      BY <1>6, <1>a, <1>c, <2>0, <2>4, CloseMoves
    <2> QED
      BY <1>6, <2>0, <2>1, <2>2, <2>3, <2>4, CloseMoves
  <1>7. ASSUME NEW a \in Apps, CallStep(a) PROVE Shut'
    <2>1. pc'[a] \notin Late
      BY <1>0, <1>7, <1>b, CallMoves, ReturnMoves
    <2> QED
      BY <1>0, <1>7, <1>a, <1>c, <2>1, CallMoves DEF connVars
  <1> QED
    BY <1>1, <1>2, <1>3, <1>4, <1>5, <1>6, <1>7, Steps

LEMMA WaitedStep ==
    ASSUME Control, Waited, WaitFirst, [Next]_vars
    PROVE  Waited'
  <1> DEFINE At(a) == /\ pc[a] \in SendLabels => a \in joined /\ a \in Senders
                      /\ pc[a] \in {"stop", "poke"} => job[a].then = "home"
  <1>0. Apps \subseteq Threads /\ "net" \in Threads /\ "proc" \in Threads
        /\ "net" \notin Apps /\ "proc" \notin Apps
    BY DEF Threads
  <1>a. ASSUME NEW t \in Threads, OthersStay(t), joined \subseteq joined', t \in Apps => At(t)'
        PROVE  Waited'
    <2> SUFFICES ASSUME NEW a \in Apps, a # t PROVE At(a)'
      BY <1>a DEF Waited
    <2>1. pc'[a] = pc[a] \/ pc'[a] = "idle"
      BY <1>0, <1>a DEF OthersStay
    <2>2. job'[a] = job[a] /\ At(a)
      BY <1>0, <1>a DEF OthersStay, Waited
    <2> QED
      BY <1>a, <2>1, <2>2 DEF SendLabels
  <1>1. CASE UNCHANGED vars
    BY <1>1 DEF vars, dataVars, appVars, Waited
  <1>2. CASE RoundStep
    BY <1>0, <1>2, <1>a, RoundMoves DEF appVars
  <1>3. CASE HandleStep
    BY <1>0, <1>3, <1>a, HandleMoves
  <1>4. CASE SrvStep
    BY <1>4 DEF SrvStep, SrvLeave, SrvSend, Waited, appVars
  <1>5. ASSUME NEW t \in Threads, SendStep(t) PROVE Waited'
    <2>1. pc'[t] \notin {"stop", "poke"}
      BY <1>5, SendMoves DEF SendLabels, Home
    <2>2. OthersStay(t) /\ pc[t] \in SendLabels /\ UNCHANGED joined
      BY <1>5, SendMoves DEF appVars
    <2> QED
      BY <1>a, <2>1, <2>2 DEF Waited
  <1>6. ASSUME NEW t \in {"net", "proc"}, CloseStep(t) PROVE Waited'
    BY <1>0, <1>6, <1>a, CloseMoves DEF appVars
  <1>7. ASSUME NEW a \in Apps, CallStep(a) PROVE Waited'
    <2>0. a \in Threads /\ Home(a) = "idle" /\ OthersStay(a) /\ joined \subseteq joined'
      BY <1>0, <1>7, CallMoves DEF Home
    <2>1. At(a) /\ (pc[a] \in {"stop", "poke"} => job[a].then = "home")
      BY DEF Waited
    <2>2. CASE pc[a] = "poke" /\ Return(a)
      <3>1. pc'[a] = "idle"
        BY <2>0, <2>1, <2>2, ReturnMoves
      <3> QED
        BY <1>a, <2>0, <3>1 DEF SendLabels
    <2>3. CASE ~(pc[a] = "poke" /\ Return(a))
      <3>1. At(a)'
        BY <1>7, <2>0, <2>1, <2>3, CallMoves DEF SendLabels
      <3> QED
        BY <1>a, <2>0, <3>1
    <2> QED
      BY <2>2, <2>3
  <1> QED
    BY <1>1, <1>2, <1>3, <1>4, <1>5, <1>6, <1>7, Steps

-----------------------------------------------------------------------------
(* The handshake packets *)

LEMMA TailShakes ==
    ASSUME NEW p \in Seq(InMsgs), NEW b \in Seq(InMsgs), p # <<>>
    PROVE  /\ NoneIn(p \o b) => NoneIn(Tail(p) \o b)
           /\ OneIn(p \o b) => OneIn(Tail(p) \o b)
           /\ OneIn(p \o b) /\ Head(p) \in Shakes => NoneIn(Tail(p) \o b) /\ ~NoneIn(p \o b)
  <1> DEFINE s == p \o b
             r == Tail(p) \o b
  <1>1. /\ Len(s) \in Nat /\ Len(s) > 0 /\ Len(r) = Len(s) - 1 /\ s[1] = Head(p)
        /\ \A i \in 1..Len(r) : r[i] = s[i + 1]
    OBVIOUS
  <1> HIDE DEF s, r
  <1>2. \A i \in 1..Len(r) : i + 1 \in 1..Len(s) /\ i + 1 # 1
    BY <1>1
  <1>3. 1 \in 1..Len(s)
    BY <1>1
  <1>4. NoneIn(s) => NoneIn(r)
    BY <1>1, <1>2 DEF NoneIn
  <1>5. ASSUME OneIn(s) PROVE OneIn(r)
    <2> SUFFICES ASSUME NEW i \in 1..Len(r), NEW j \in 1..Len(r),
                        r[i] \in Shakes, r[j] \in Shakes
                 PROVE  i = j
      BY DEF OneIn
    <2>1. i + 1 = j + 1
      BY <1>1, <1>2, <1>5 DEF OneIn
    <2> QED
      BY <2>1
  <1>6. ASSUME OneIn(s), s[1] \in Shakes PROVE NoneIn(r) /\ ~NoneIn(s)
    BY <1>1, <1>2, <1>3, <1>6 DEF OneIn, NoneIn
  <1> QED
    BY <1>1, <1>4, <1>5, <1>6 DEF s, r

LEMMA AppendShakes ==
    ASSUME NEW p \in Seq(InMsgs), NEW b \in Seq(InMsgs), NEW m \in InMsgs
    PROVE  /\ NoneIn(p \o b) /\ m \notin Shakes => NoneIn(p \o Append(b, m))
           /\ OneIn(p \o b) /\ m \notin Shakes => OneIn(p \o Append(b, m))
           /\ NoneIn(p \o b) => OneIn(p \o Append(b, m))
  <1> DEFINE s == p \o b
             r == p \o Append(b, m)
  <1>1. /\ Len(s) \in Nat /\ Len(r) = Len(s) + 1 /\ r[Len(s) + 1] = m
        /\ \A i \in 1..Len(s) : r[i] = s[i]
    OBVIOUS
  <1> HIDE DEF s, r
  <1>2. \A i \in 1..Len(r) : i \in 1..Len(s) \/ i = Len(s) + 1
    BY <1>1
  <1> QED
    BY <1>1, <1>2 DEF NoneIn, OneIn, s, r

\* What recv returns goes from one queue to the other.
LEMMA MoveFlow ==
    ASSUME NEW p \in Seq(InMsgs), NEW b \in Seq(InMsgs), NEW n \in 1..Len(b)
    PROVE  (p \o SubSeq(b, 1, n)) \o SubSeq(b, n + 1, Len(b)) = p \o b
  <1> DEFINE x == SubSeq(b, 1, n)
             y == SubSeq(b, n + 1, Len(b))
  <1>1. x \in Seq(InMsgs) /\ y \in Seq(InMsgs) /\ x \o y = b
    <2>1. n \in Nat /\ n <= Len(b)
      OBVIOUS
    <2> QED
      BY <2>1, SplitAt
  <1> HIDE DEF x, y
  <1>2. (p \o x) \o y = p \o (x \o y)
    <2>1. p \in Seq(InMsgs) /\ x \in Seq(InMsgs) /\ y \in Seq(InMsgs)
      BY <1>1
    <2> QED
      BY ONLY <2>1, ConcatFacts
  <1> QED
    BY <1>1, <1>2 DEF x, y

\* Handling packets, and sending others, brings no second handshake packet.
LEMMA FlowStep ==
    ASSUME DataTypes, Control, Up, Up', OneShake, [Next]_vars
    PROVE  OneShake' /\ (Over => Over')
  <1> USE DEF connVars, bufVars, loopVars, appVars, srvVars, dataVars
  <1>0. procQ \in Seq(InMsgs) /\ inbound \in Seq(InMsgs)
    BY DEF DataTypes, LoopTypes, SrvTypes
  <1>a. ASSUME Flow' = Flow, srv' = srv PROVE OneShake' /\ (Over => Over')
    BY <1>a DEF OneShake, Over
  <1>b. ASSUME NEW m, Taking(m) PROVE OneShake' /\ (Over => Over')
    <2>1. procQ # <<>> /\ procQ' = Tail(procQ) /\ UNCHANGED <<srv, inbound>>
      BY <1>b, Zenon DEF Taking
    <2>2. Flow' = Tail(procQ) \o inbound
      BY <2>1 DEF Flow
    <2>3. (NoneIn(Flow) => NoneIn(Flow')) /\ (OneIn(Flow) => OneIn(Flow'))
      BY <1>0, <2>1, <2>2, TailShakes DEF Flow
    <2> QED
      BY <2>1, <2>3 DEF OneShake, Over
  <1>1. CASE UNCHANGED vars
    BY <1>a, <1>1 DEF vars, Flow
  <1>2. CASE RoundStep
    <2>1. CASE Receive
      <3>1. PICK n \in 1..Len(inbound) :
               /\ inbound' = SubSeq(inbound, n + 1, Len(inbound))
               /\ procQ' = procQ \o SubSeq(inbound, 1, n)
        BY <2>1 DEF Receive
      <3>2. Flow' = Flow
        BY <1>0, <3>1, MoveFlow DEF Flow
      <3>3. srv' = srv
        BY <2>1 DEF Receive
      <3> QED
        BY <1>a, <3>2, <3>3
    <2>2. CASE ~Receive
      <3>1. UNCHANGED <<procQ, inbound, srv>>
        BY <1>2, <2>2 DEF RoundStep, LoopHead, SelectReturn, ReadIrq, ReceiveError, ReceiveEof,
           ReceiveReset, OnlyWrite, Up, SrvUp
      <3> QED
        BY <1>a, <3>1 DEF Flow
    <2> QED
      BY <2>1, <2>2
  <1>3. CASE HandleStep
    <2>1. (\E m : Taking(m)) \/ UNCHANGED <<procQ, inbound, srv>>
      BY <1>3 DEF HandleStep, ProcRound, TakeHello, Typed, Inited, TakeHandshake, Accepting,
         MarkAccept, Accepted, Announce, TakeUser, TakeCloseConn
    <2> QED
      BY <1>a, <1>b, <2>1 DEF Flow
  <1>4. CASE SrvStep
    <2>1. PICK m \in SrvOps \cap InMsgs : SrvSend(m)
      BY <1>4 DEF SrvStep, SrvLeave, Up, SrvUp
    <2>2. Flow' = procQ \o Append(inbound, m)
      BY <2>1 DEF SrvSend, Flow
    <2>3. CASE m \in Shakes
      <3>1. srv = "greeted" /\ srv' = "shaken"
        BY <2>1, <2>3 DEF SrvSend, SrvMaySend, SrvPhaseAfter, Shakes
      <3>2. OneIn(Flow')
        BY <1>0, <2>2, <3>1, AppendShakes DEF OneShake, Flow
      <3> QED
        BY <3>1, <3>2 DEF OneShake, Over
    <2>4. CASE m \notin Shakes
      <3>1. /\ NoneIn(Flow) => NoneIn(Flow')
            /\ OneIn(Flow) => OneIn(Flow')
        BY <1>0, <2>2, <2>4, AppendShakes DEF Flow
      <3>2. srv' \in {"new", "greeted"} => srv \in {"new", "greeted"}
        BY <2>1, <2>4 DEF SrvSend, SrvMaySend, SrvPhaseAfter, Shakes, InMsgs
      <3> QED
        BY <3>1, <3>2 DEF OneShake, Over
    <2> QED
      BY <2>3, <2>4
  <1>5. ASSUME NEW t \in Threads, SendStep(t) PROVE OneShake' /\ (Over => Over')
    BY <1>a, <1>5, SendMoves DEF Flow
  <1>6. ASSUME NEW t \in {"net", "proc"}, CloseStep(t) PROVE OneShake' /\ (Over => Over')
    <2>1. t \in Threads
      BY DEF Threads
    <2> QED
      BY <1>a, <1>6, <2>1, CloseMoves DEF Flow
  <1>7. ASSUME NEW a \in Apps, CallStep(a) PROVE OneShake' /\ (Over => Over')
    <2>1. UNCHANGED <<procQ, srv, inbound>>
      BY <1>7 DEF CallStep, Stop, Poke, AppCall, WaitForConnection, WaitForClose, WaitTimesOut
    <2> QED
      BY <1>a, <2>1 DEF Flow
  <1> QED
    BY <1>1, <1>2, <1>3, <1>4, <1>5, <1>6, <1>7, Steps

\* Once the handshake packet is taken, no other one comes.
LEMMA TakeShake ==
    ASSUME DataTypes, OneShake, NEW m \in Shakes, Taking(m)
    PROVE  ~Over /\ Over'
  <1>1. procQ \in Seq(InMsgs) /\ inbound \in Seq(InMsgs)
    BY DEF DataTypes, LoopTypes, SrvTypes
  <1>2. procQ # <<>> /\ procQ' = Tail(procQ) /\ Head(procQ) = m /\ UNCHANGED <<srv, inbound>>
    BY Zenon DEF Taking, srvVars
  <1>3. NoneIn(Flow') /\ ~NoneIn(Flow)
    BY <1>1, <1>2, TailShakes DEF OneShake, Flow
  <1> QED
    BY <1>2, <1>3 DEF OneShake, Over

-----------------------------------------------------------------------------
(* The way to the active state *)

LEMMA HasMore ==
    ASSUME NEW s \in Seq(OutPieces), NEW u \in Seq(OutPieces), NEW m
    PROVE  HasAll(s, m) => HasAll(s \o u, m)
  <1>1. /\ Len(s) \in Nat /\ Len(u) \in Nat /\ Len(s \o u) = Len(s) + Len(u)
        /\ \A i \in 1..Len(s) : (s \o u)[i] = s[i]
    OBVIOUS
  <1>2. \A i \in 1..Len(s) : i \in 1..Len(s \o u)
    BY <1>1
  <1> QED
    BY <1>1, <1>2 DEF HasAll

LEMMA HasQueued ==
    ASSUME NEW s \in Seq(OutPieces), NEW x \in OutMsgs
    PROVE  /\ HasAll(s \o Pieces(x), x)
           /\ \A m : HasSome(s \o Pieces(x), m) => HasSome(s, m) \/ x = m
  <1> DEFINE p == Pieces(x)
             r == s \o p
  <1>1. /\ p \in Seq(OutPieces) /\ Len(p) = PacketSize
        /\ \A k \in 1..PacketSize : p[k] = <<x, k>>
    BY PiecesType
  <1> HIDE DEF p
  <1>2. /\ Len(s) \in Nat /\ Len(p) \in Nat /\ Len(r) = Len(s) + Len(p)
        /\ \A i \in 1..(Len(s) + Len(p)) : r[i] = IF i <= Len(s) THEN s[i] ELSE p[i - Len(s)]
    <2>1. s \in Seq(OutPieces)
      OBVIOUS
    <2>2. /\ r \in Seq(OutPieces) /\ Len(r) = Len(s) + Len(p)
          /\ \A i \in 1..(Len(s) + Len(p)) : r[i] = IF i <= Len(s) THEN s[i] ELSE p[i - Len(s)]
      BY ONLY <1>1, <2>1, ConcatProperties
    <2> QED
      BY <1>1, <2>1, <2>2
  <1> HIDE DEF r
  <1>3. ASSUME NEW k \in 1..PacketSize PROVE \E i \in 1..Len(r) : r[i] = <<x, k>>
    <2>1. /\ Len(s) + k \in 1..(Len(s) + Len(p)) /\ ~(Len(s) + k <= Len(s))
          /\ (Len(s) + k) - Len(s) = k
      BY <1>1, <1>2
    <2>2. r[Len(s) + k] = p[k]
      BY <1>2, <2>1
    <2> QED
      BY <1>1, <1>2, <2>1, <2>2
  <1>4. ASSUME NEW i \in 1..Len(r), ~(i <= Len(s)) PROVE r[i][1] = x
    <2>1. i \in 1..(Len(s) + Len(p)) /\ i - Len(s) \in 1..PacketSize
      BY <1>1, <1>2, <1>4
    <2>2. r[i] = <<x, i - Len(s)>>
      BY <1>1, <1>2, <1>4, <2>1
    <2> QED
      BY <2>2
  <1>5. ASSUME NEW m, HasSome(r, m) PROVE HasSome(s, m) \/ x = m
    <2>1. PICK i \in 1..Len(r) : r[i][1] = m
      BY <1>5 DEF HasSome
    <2>2. CASE i <= Len(s)
      <3>1. i \in 1..Len(s) /\ r[i] = s[i]
        BY <1>2, <2>2
      <3> QED
        BY <2>1, <3>1 DEF HasSome
    <2>3. CASE ~(i <= Len(s))
      BY <1>4, <2>1, <2>3
    <2> QED
      BY <2>2, <2>3
  <1> QED
    BY <1>3, <1>5 DEF HasAll, r, p

\* Steps that leave the proc thread alone, or at a place without obligations.
LEMMA PathFrame ==
    ASSUME AcceptPath, Connected, Over => Over', state' = state,
           \/ pc'["proc"] = pc["proc"] /\ job'["proc"] = job["proc"]
           \/ pc'["proc"] \notin SendLabels \cup {"typed", "inited", "accepting", "markaccept",
                                                  "accepted", "announce"},
           joined' = joined \/ state = "active",
           HasAll(queued, "accept") => HasAll(queued, "accept")',
           HasSome(queued, "user")' => HasSome(queued, "user") \/ state = "active",
           \A t \in Threads : pc'[t] \in {"load", "store"} /\ job'[t].msg = "user" =>
               (pc[t] \in {"load", "store"} /\ job[t].msg = "user") \/ state = "active"
    PROVE  AcceptPath' /\ Connected'
  <1> USE DEF ProcSends, SendLabels
  <1>1. Connected'
    BY DEF Connected
  <1>2. AcceptPath'
    <2>1. /\ joined' # {} => state' = "active"
          /\ \A t \in Threads :
                pc'[t] \in {"load", "store"} /\ job'[t].msg = "user" => state' = "active"
          /\ state' # "active" => ~HasSome(queued, "user")'
      BY DEF AcceptPath
    <2>2. CASE pc'["proc"] = pc["proc"] /\ job'["proc"] = job["proc"]
      BY <2>1, <2>2 DEF AcceptPath
    <2>3. CASE pc'["proc"] \notin SendLabels \cup {"typed", "inited", "accepting", "markaccept",
                                                   "accepted", "announce"}
      BY <2>1, <2>3 DEF AcceptPath
    <2> QED
      BY <2>2, <2>3
  <1> QED
    BY <1>1, <1>2

\* The packet handlers.
LEMMA PathHandle ==
    ASSUME DataTypes, Control, Waited, Up, Up', UpInv, Over => Over', HandleStep
    PROVE  AcceptPath' /\ Connected'
  <1> USE DEF connVars, bufVars, loopVars, appVars, srvVars, dataVars
  <1>0. /\ "proc" \in Threads /\ Home("proc") = "draining" /\ Apps \subseteq Threads
        /\ \A t \in Threads \ {"proc"} : t = "net" \/ t \in Apps
    BY DEF Threads, Home
  <1>1. OthersStay("proc") /\ UNCHANGED <<bufVars, srvVars>> /\ AcceptPath /\ Connected /\ OneShake
    BY HandleMoves DEF UpInv
  <1>2. \A t \in Threads \ {"proc"} :
           pc'[t] \in {"load", "store"} /\ job'[t].msg = "user" => state = "active"
    BY <1>1 DEF OthersStay, AcceptPath
  <1>3. joined # {} => state = "active"
    BY <1>1 DEF AcceptPath
  <1>4. state # "active" => ~HasSome(queued, "user")'
    BY <1>1 DEF AcceptPath
  <1>a. ASSUME state' = state, joined' = joined \/ state = "active",
               pc'["proc"] \notin SendLabels \cup {"typed", "inited", "accepting", "markaccept",
                                                   "accepted", "announce"}
        PROVE  AcceptPath' /\ Connected'
    <2>1. ASSUME NEW t \in Threads, pc'[t] \in {"load", "store"}, job'[t].msg = "user"
          PROVE  state = "active"
      BY <1>2, <1>a, <2>1 DEF SendLabels
    <2> QED
      BY <1>1, <1>a, <2>1, PathFrame
  \* Packets are sent while the handshake is under way ...
  <1>b. ASSUME state' = state, joined' = joined, state # "active", pc'["proc"] = "load",
               job'["proc"].msg # "user",
               job'["proc"].then \in {"markaccept", "accepted"} => Over',
               job'["proc"].then = "accepted" => job'["proc"].msg = "accept"
        PROVE  AcceptPath' /\ Connected'
    BY <1>1, <1>2, <1>3, <1>4, <1>b DEF AcceptPath, Connected, ProcSends, SendLabels
  \* ... or by the handler of an active client.
  <1>c. ASSUME state' = state, joined' = joined, state = "active", pc'["proc"] = "load",
               job'["proc"].then \in {"home", "mark"}, ~OneAtATime
        PROVE  AcceptPath' /\ Connected'
    <2>1. Connected'
      BY <1>1, <1>c DEF Connected, ProcSends, SendLabels
    <2>2. AcceptPath'
      BY <1>c DEF AcceptPath, ProcSends, SendLabels
    <2> QED
      BY <2>1, <2>2
  \* The proc thread takes another step of the handshake.
  <1>d. ASSUME state # "active", state' # "active", joined' = joined,
               pc'["proc"] \in {"inited", "draining", "accepting"},
               pc'["proc"] = "accepting" => Over'
        PROVE  AcceptPath' /\ Connected'
    <2>1. Connected'
      BY <1>d DEF Connected
    <2>2. \A t \in Threads : ~(pc'[t] \in {"load", "store"} /\ job'[t].msg = "user")
      BY <1>2, <1>d
    <2>3. AcceptPath'
      BY <1>3, <1>4, <1>d, <2>2 DEF AcceptPath, ProcSends, SendLabels
    <2> QED
      BY <2>1, <2>3
  <1>5. CASE ProcRound
    <2>1. \E l \in {"draining", "done", "top"} : Goto("proc", l)
      BY <1>5 DEF ProcRound
    <2>2. pc'["proc"] \in {"draining", "done", "top"}
      BY <1>0, <2>1, Moves
    <2> QED
      BY <1>5, <1>a, <2>2 DEF ProcRound, SendLabels
  <1>6. CASE TakeHello
    <2>1. state' = state /\ joined' = joined
      BY <1>6 DEF TakeHello, Taking
    <2>2. CASE Leave("proc")
      BY <1>0, <1>a, <2>1, <2>2, Moves DEF SendLabels
    <2>3. CASE Call("proc", "load", "settype", "typed") /\ state = "hellowait"
      <3>1. pc'["proc"] = "load" /\ job'["proc"] = [msg |-> "settype", then |-> "typed"]
        BY <1>0, <2>3, Moves
      <3> QED
        BY <1>b, <2>1, <2>3, <3>1
    <2>4. CASE CallClose("proc") /\ state = "hellowait"
      BY <1>0, <1>b, <2>1, <2>4, Moves
    <2> QED
      BY <1>6, <2>2, <2>3, <2>4 DEF TakeHello
  <1>7. CASE Typed \/ Inited
    <2>1. state # "active" /\ state' # "active" /\ joined' = joined
      BY <1>1, <1>7 DEF Typed, Inited, Connected
    <2>2. pc'["proc"] \in {"inited", "draining"}
      BY <1>0, <1>7, Moves DEF Typed, Inited
    <2> QED
      BY <1>d, <2>1, <2>2
  <1>8. CASE TakeHandshake
    <2>1. PICK m \in Shakes : Taking(m)
      BY <1>8 DEF TakeHandshake, Shakes
    <2>2. ~Over /\ Over'
      BY <1>1, <2>1, TakeShake
    <2>3. state' = state /\ joined' = joined /\ state # "active"
      BY <1>1, <2>1, <2>2 DEF Taking, Connected
    <2>4. CASE Goto("proc", "accepting")
      BY <1>0, <1>d, <2>2, <2>3, <2>4, Moves
    <2>5. CASE CallClose("proc")
      BY <1>0, <1>b, <2>3, <2>5, Moves
    <2> QED
      BY <1>8, <2>4, <2>5 DEF TakeHandshake
  <1>9. CASE Accepting \/ MarkAccept
    <2>1. Over' /\ state # "active" /\ state' = state /\ joined' = joined
      BY <1>1, <1>9 DEF Accepting, MarkAccept, AcceptPath, Connected
    <2>2. CASE Call("proc", "load", "accept", "accepted")
      <3>1. pc'["proc"] = "load" /\ job'["proc"] = [msg |-> "accept", then |-> "accepted"]
        BY <1>0, <2>2, Moves
      <3> QED
        BY <1>b, <2>1, <3>1
    <2>3. CASE Call("proc", "load", "closeconn", "markaccept")
      <3>1. pc'["proc"] = "load" /\ job'["proc"] = [msg |-> "closeconn", then |-> "markaccept"]
        BY <1>0, <2>3, Moves
      <3> QED
        BY <1>b, <2>1, <3>1
    <2> QED
      BY <1>9, <2>2, <2>3 DEF Accepting, MarkAccept
  <1>10. CASE Accepted
    <2>1. /\ pc["proc"] = "accepted" /\ state' = "active" /\ pc'["proc"] = "announce"
          /\ joined' = joined
      BY <1>0, <1>10, Moves DEF Accepted
    <2>2. Over' /\ HasAll(queued, "accept") /\ state # "active"
      BY <1>1, <2>1 DEF AcceptPath, Connected
    <2>3. HasAll(queued, "accept")'
      BY <1>1, <2>2
    <2> QED
      BY <2>1, <2>2, <2>3 DEF AcceptPath, Connected, ProcSends, SendLabels
  <1>11. CASE Announce
    <2>1. pc'["proc"] = "draining" /\ state' = state /\ state = "active"
      BY <1>0, <1>1, <1>11, NotifyMoves DEF Announce, AcceptPath
    <2> QED
      BY <1>a, <2>1 DEF SendLabels
  <1>12. CASE TakeUser
    <2>1. state' = state /\ joined' = joined
      BY <1>12 DEF TakeUser, Taking
    <2>2. CASE Leave("proc") \/ Goto("proc", "dead")
      BY <1>0, <1>a, <2>1, <2>2, Moves DEF SendLabels
    <2>3. CASE Call("proc", "load", "user", "home") /\ state = "active" /\ "reply" \in HandlerOps
      <3>1. ~OneAtATime
        BY <2>3 DEF OneAtATime
      <3> QED
        <4>1. pc'["proc"] = "load" /\ job'["proc"] = [msg |-> "user", then |-> "home"]
          BY <1>0, <2>3, Moves
        <4> QED
          BY <1>c, <2>1, <2>3, <3>1, <4>1
    <2>4. CASE CallClose("proc") /\ state = "active" /\ "close" \in HandlerOps
      <3>1. ~OneAtATime
        BY <2>4 DEF OneAtATime
      <3> QED
        BY <1>0, <1>c, <2>1, <2>4, <3>1, Moves
    <2> QED
      BY <1>12, <2>2, <2>3, <2>4 DEF TakeUser
  <1>13. CASE TakeCloseConn
    <2>1. pc'["proc"] = "cnotify" /\ state' = state /\ joined' = joined
      BY <1>0, <1>13, Moves DEF TakeCloseConn, Taking
    <2> QED
      BY <1>a, <2>1 DEF SendLabels
  <1> QED
    BY <1>5, <1>6, <1>7, <1>8, <1>9, <1>10, <1>11, <1>12, <1>13 DEF HandleStep

\* What is queued stays queued, and only an active client queues application
\* packets.
LEMMA HasSend ==
    ASSUME DataTypes, Control, AcceptPath, NEW t \in Threads, SendStep(t)
    PROVE  /\ HasAll(queued, "accept") => HasAll(queued, "accept")'
           /\ HasSome(queued, "user")' => HasSome(queued, "user") \/ state = "active"
           /\ Store(t) /\ job[t].msg = "accept" => HasAll(queued, "accept")'
  <1>1. CASE Store(t)
    <2> DEFINE m == job[t].msg
    <2>1. queued' = queued \o Pieces(m) /\ pc[t] = "store"
      BY <1>1 DEF Store
    <2>2. m \in OutMsgs /\ (m = "user" => state = "active")
      BY <2>1 DEF Control, Sending, AcceptPath
    <2> HIDE DEF m
    <2>3. queued \in Seq(OutPieces) /\ Pieces(m) \in Seq(OutPieces)
      BY <2>2, BufferType, PiecesType
    <2>4. HasAll(queued, "accept") => HasAll(queued, "accept")'
      BY <2>1, <2>3, HasMore
    <2>5. HasSome(queued, "user")' => HasSome(queued, "user") \/ state = "active"
      BY <2>1, <2>2, <2>3, HasQueued
    <2>6. m = "accept" => HasAll(queued, "accept")'
      BY <2>1, <2>2, <2>3, HasQueued
    <2> QED
      BY <2>4, <2>5, <2>6 DEF m
  <1>2. CASE ~Store(t)
    <2>1. UNCHANGED queued
      BY <1>2 DEF SendStep, Load, Pump, Get, TakeCopy, Send, Cut, Trim, After, Wake, Quit, Bye,
         Mark, dataVars, bufVars
    <2> QED
      BY <1>2, <2>1
  <1> QED
    BY <1>1, <1>2

\* The proc thread sends accept.
LEMMA PathProcSend ==
    ASSUME DataTypes, Control, AcceptPath, Connected, Over => Over', SendStep("proc")
    PROVE  AcceptPath' /\ Connected'
  <1> USE DEF SendLabels
  <1>0. "proc" \in Threads /\ Home("proc") = "draining"
    BY DEF Threads, Home
  <1>1. /\ OthersStay("proc") /\ pc["proc"] \in SendLabels /\ state' = state /\ joined' = joined
        /\ HasAll(queued, "accept") => HasAll(queued, "accept")'
        /\ HasSome(queued, "user")' => HasSome(queued, "user") \/ state = "active"
    BY <1>0, SendMoves, HasSend DEF appVars
  <1>2. \A t \in Threads \ {"proc"} :
           pc'[t] \in {"load", "store"} /\ job'[t].msg = "user" => state = "active"
    BY <1>1 DEF OthersStay, AcceptPath
  <1>3. /\ joined' # {} => state' = "active"
        /\ state' # "active" => ~HasSome(queued, "user")'
    BY <1>1 DEF AcceptPath
  <1>4. state = "active" => ~OneAtATime
    BY <1>1 DEF Connected, ProcSends
  <1>5. ASSUME pc'["proc"] \notin {"load", "store"}
        PROVE  \A t \in Threads :
                  pc'[t] \in {"load", "store"} /\ job'[t].msg = "user" => state' = "active"
    BY <1>1, <1>2, <1>5
  <1> HIDE DEF SendLabels
  <1>a. ASSUME pc'["proc"] \in SendLabels, job'["proc"].then = job["proc"].then,
               job'["proc"].msg = job["proc"].msg, pc'["proc"] # "load",
               pc'["proc"] = "store" => pc["proc"] = "load",
               pc'["proc"] # "store" /\ job["proc"].then = "accepted" => HasAll(queued, "accept")'
        PROVE  AcceptPath' /\ Connected'
    <2>1. Connected'
      BY <1>1, <1>4, <1>a DEF Connected, ProcSends, SendLabels
    <2>2. AcceptPath'
      BY <1>1, <1>2, <1>3, <1>a DEF AcceptPath, ProcSends, SendLabels
    <2> QED
      BY <2>1, <2>2
  <1>b. ASSUME Return("proc"), pc["proc"] \notin {"load", "store"}
        PROVE  AcceptPath' /\ Connected'
    <2>1. /\ job'["proc"].then = "home"
          /\ pc'["proc"] \in {"draining", "mark", "typed", "markaccept", "accepted", "pump"}
          /\ pc'["proc"] # "draining" => pc'["proc"] = job["proc"].then
      BY <1>0, <1>b, ReturnMoves
    <2>2. Connected'
      BY <1>1, <1>4, <2>1 DEF Connected, ProcSends
    <2>3. pc'["proc"] \in {"markaccept", "accepted"} => Over'
      <3>1. pc'["proc"] \in {"markaccept", "accepted"}
               => job["proc"].then \in {"markaccept", "accepted"}
        BY <2>1
      <3>2. job["proc"].then \in {"markaccept", "accepted"} => Over
        BY <1>1 DEF AcceptPath, ProcSends
      <3> QED
        BY <3>1, <3>2
    <2>4. pc'["proc"] = "accepted" => HasAll(queued, "accept")'
      BY <1>1, <1>b, <2>1 DEF AcceptPath, ProcSends
    <2>5. AcceptPath'
      BY <1>3, <1>5, <2>1, <2>3, <2>4 DEF AcceptPath
    <2> QED
      BY <2>2, <2>5
  <1>6. CASE Load("proc")
    <2>1. pc["proc"] = "load" /\ pc'["proc"] = "store" /\ job'["proc"] = job["proc"]
      BY <1>0, <1>6, Moves DEF Load
    <2> QED
      BY <1>a, <2>1 DEF SendLabels
  <1>7. CASE Store("proc")
    <2>1. pc["proc"] = "store" /\ pc'["proc"] = "pump" /\ job'["proc"] = job["proc"]
      BY <1>0, <1>7, Moves DEF Store
    <2>2. job["proc"].then = "accepted" => HasAll(queued, "accept")'
      BY <1>0, <1>7, <2>1, HasSend DEF AcceptPath
    <2> QED
      BY <1>a, <2>1, <2>2 DEF SendLabels
  <1>8. CASE Mark("proc")
    <2>1. pc'["proc"] = "draining" /\ job'["proc"].then = "home"
      BY <1>0, <1>8, Moves DEF Mark, NoJob
    <2>2. AcceptPath'
      BY <1>3, <1>5, <2>1 DEF AcceptPath
    <2>3. Connected'
      BY <1>1, <1>4, <2>1 DEF Connected, ProcSends
    <2> QED
      BY <2>2, <2>3
  <1>9. CASE ~(Load("proc") \/ Store("proc") \/ Mark("proc"))
    <2>1. pc["proc"] \notin {"load", "store"}
      BY <1>9 DEF SendStep, Pump, Get, Send, Cut, Trim, After, Wake, Quit, Bye
    <2>2. Return("proc") \/ \E l \in {"get", "send", "cut", "trim", "after", "quit", "wake", "bye"} :
                               Goto("proc", l)
      BY <1>9 DEF SendStep, Pump, Get, Send, Cut, Trim, After, Wake, Quit, Bye
    <2>3. CASE Return("proc")
      BY <1>b, <2>1, <2>3
    <2>4. ASSUME NEW l \in {"get", "send", "cut", "trim", "after", "quit", "wake", "bye"},
                 Goto("proc", l)
          PROVE  AcceptPath' /\ Connected'
      <3>1. pc'["proc"] = l /\ job'["proc"] = job["proc"]
        BY <1>0, <2>4, Moves
      <3>2. job["proc"].then = "accepted" => HasAll(queued, "accept")'
        BY <1>1, <2>1 DEF AcceptPath, ProcSends
      <3> QED
        BY <1>a, <3>1, <3>2 DEF SendLabels
    <2> QED
      BY <2>2, <2>3, <2>4
  <1> QED
    BY <1>6, <1>7, <1>8, <1>9

LEMMA PathStep ==
    ASSUME DataTypes, Control, Shut, Waited, WaitFirst, Up, Up', UpInv, [Next]_vars
    PROVE  AcceptPath' /\ Connected'
  <1> USE DEF connVars, bufVars, loopVars, appVars, srvVars, dataVars
  <1>0. Apps \subseteq Threads /\ "net" \in Threads /\ "proc" \in Threads
        /\ "net" \notin Apps /\ "proc" \notin Apps
    BY DEF Threads
  <1>1. AcceptPath /\ Connected /\ (Over => Over')
    BY FlowStep DEF UpInv
  <1>a. ASSUME NEW t \in Threads, OthersStay(t), UNCHANGED <<queued, state>>,
               t = "proc" => pc'[t] \notin SendLabels \cup {"typed", "inited", "accepting",
                                                "markaccept", "accepted", "announce"},
               pc'[t] \in {"load", "store"} /\ job'[t].msg = "user" => state = "active",
               joined' = joined \/ state = "active"
        PROVE  AcceptPath' /\ Connected'
    <2>1. ASSUME NEW x \in Threads, pc'[x] \in {"load", "store"}, job'[x].msg = "user", x # t
          PROVE  pc[x] \in {"load", "store"} /\ job[x].msg = "user"
      BY <1>a, <2>1 DEF OthersStay
    <2>2. \/ pc'["proc"] = pc["proc"] /\ job'["proc"] = job["proc"]
          \/ pc["proc"] \in {"connecting", "closing"} /\ pc'["proc"] = "idle"
          \/ pc'["proc"] \notin SendLabels \cup {"typed", "inited", "accepting", "markaccept",
                                                 "accepted", "announce"}
      BY <1>0, <1>a DEF OthersStay
    <2>3. \/ pc'["proc"] = pc["proc"] /\ job'["proc"] = job["proc"]
          \/ pc'["proc"] \notin SendLabels \cup {"typed", "inited", "accepting", "markaccept",
                                                 "accepted", "announce"}
      BY <2>2 DEF SendLabels
    <2>4. /\ HasAll(queued, "accept") => HasAll(queued, "accept")'
          /\ HasSome(queued, "user")' => HasSome(queued, "user") \/ state = "active"
      BY <1>a
    <2>5. ASSUME NEW x \in Threads, pc'[x] \in {"load", "store"}, job'[x].msg = "user"
          PROVE  (pc[x] \in {"load", "store"} /\ job[x].msg = "user") \/ state = "active"
      BY <1>a, <2>1, <2>5
    <2> QED
      BY <1>1, <1>a, <2>3, <2>4, <2>5, PathFrame
  <1>2. CASE UNCHANGED vars
    <2>1. UNCHANGED <<queued, state, joined, pc, job>>
      BY <1>2 DEF vars
    <2> QED
      BY <1>1, <2>1 DEF AcceptPath, Connected, ProcSends
  <1>3. CASE RoundStep
    BY <1>0, <1>3, <1>a, RoundMoves
  <1>4. CASE HandleStep
    BY <1>1, <1>4, PathHandle
  <1>5. CASE SrvStep
    <2>1. UNCHANGED <<queued, state, joined, pc, job>>
      BY <1>5 DEF SrvStep, SrvLeave, SrvSend
    <2> QED
      BY <1>1, <2>1 DEF AcceptPath, Connected, ProcSends
  <1>6. ASSUME NEW t \in Threads, SendStep(t) PROVE AcceptPath' /\ Connected'
    <2>1. CASE t = "proc"
      BY <1>1, <1>6, <2>1, PathProcSend
    <2>2. CASE t # "proc"
      <3>1. /\ OthersStay(t) /\ pc[t] \in SendLabels /\ state' = state /\ joined' = joined
            /\ pc'[t] # "load"
        BY <1>6, SendMoves
      <3>2. ASSUME pc'[t] = "store" PROVE pc[t] = "load" /\ job'[t] = job[t]
        <4>1. ASSUME ~Load(t) PROVE FALSE
          <5>1. job[t].then # "store" /\ Home(t) # "store"
            BY DEF Control, Jobs, Home
          <5>2. Return(t) \/ Leave(t) \/ \E l \in SendLabels \ {"store"} : Goto(t, l)
            BY <1>6, <4>1 DEF SendStep, Store, Pump, Get, Send, Cut, Trim, After, Wake, Quit,
               Bye, Mark, SendLabels
          <5> QED
            BY <3>2, <5>1, <5>2, Moves
        <4> QED
          BY <4>1, Moves DEF Load
      <3>3. ASSUME NEW x \in Threads, pc'[x] \in {"load", "store"}, job'[x].msg = "user"
            PROVE  pc[x] \in {"load", "store"} /\ job[x].msg = "user"
        BY <3>1, <3>2, <3>3 DEF OthersStay
      <3>4. (pc'["proc"] = pc["proc"] /\ job'["proc"] = job["proc"])
            \/ pc'["proc"] = "idle"
        BY <1>0, <2>2, <3>1 DEF OthersStay
      <3>5. /\ HasAll(queued, "accept") => HasAll(queued, "accept")'
            /\ HasSome(queued, "user")' => HasSome(queued, "user") \/ state = "active"
        BY <1>1, <1>6, HasSend
      <3>6. "idle" \notin SendLabels \cup {"typed", "inited", "accepting", "markaccept",
                                           "accepted", "announce"}
        BY DEF SendLabels
      <3>7. (pc'["proc"] = pc["proc"] /\ job'["proc"] = job["proc"])
            \/ pc'["proc"] \notin SendLabels \cup {"typed", "inited", "accepting", "markaccept",
                                                   "accepted", "announce"}
        BY <3>4, <3>6
      <3>8. \A x \in Threads : pc'[x] \in {"load", "store"} /\ job'[x].msg = "user" =>
               (pc[x] \in {"load", "store"} /\ job[x].msg = "user") \/ state = "active"
        BY <3>3
      <3>9. state' = state /\ joined' = joined
        BY <3>1
      <3> QED
        BY <1>1, <3>5, <3>7, <3>8, <3>9, PathFrame
    <2> QED
      BY <2>1, <2>2
  <1>7. ASSUME NEW t \in {"net", "proc"}, CloseStep(t) PROVE AcceptPath' /\ Connected'
    <2>1. pc[t] = "cnotify" /\ pc'[t] = "shut" /\ UNCHANGED state
      BY <1>0, <1>7, CloseMoves DEF Up, Shut
    <2> QED
      BY <1>0, <1>7, <1>a, <2>1, CloseMoves DEF SendLabels
  <1>8. ASSUME NEW a \in Apps, CallStep(a) PROVE AcceptPath' /\ Connected'
    <2>1. state # "closed"
      BY DEF Up, Shut
    <2>2. pc'[a] = "load" => state = "active"
      <3>1. pc'[a] = "load" => a \in joined
        <4>1. pc[a] = "poke" => job[a].then = "home"
          BY <1>8 DEF Waited
        <4>2. pc[a] = "poke" /\ Return(a) => pc'[a] = "idle"
          BY <1>0, <1>8, <4>1, ReturnMoves DEF Home
        <4> QED
          BY <1>8, <4>2, CallMoves
      <3> QED
        BY <1>1, <3>1 DEF AcceptPath
    <2>3. pc'[a] # "store"
      <3>1. pc[a] = "poke" => job[a].then = "home"
        BY <1>8 DEF Waited
      <3>2. pc[a] = "poke" /\ Return(a) => pc'[a] = "idle"
        BY <1>0, <1>8, <3>1, ReturnMoves DEF Home
      <3> QED
        BY <1>8, <3>2, CallMoves
    <2>4. joined' = joined \/ state = "active"
      BY <1>8, <2>1, CallMoves
    <2>5. OthersStay(a) /\ UNCHANGED <<queued, state>>
      BY <1>8, CallMoves
    <2> QED
      BY <1>0, <1>a, <2>2, <2>3, <2>4, <2>5
  <1> QED
    BY <1>2, <1>3, <1>4, <1>5, <1>6, <1>7, <1>8, Steps

-----------------------------------------------------------------------------
LEMMA OrderStep ==
    ASSUME WaitFirst, TypeInv, TypeInv', OrderInv, [Next]_vars
    PROVE  OrderInv'
  <1>0. DataTypes /\ Control
    BY TypeParts DEF TypeInv, TypeOK, DataTypes, ThreadTypes
  <1>1. Shut' /\ Waited'
    BY <1>0, ShutStep, WaitedStep DEF OrderInv
  <1>2. ASSUME Up' PROVE UpInv'
    <2>1. Up /\ UpInv
      BY <1>2, UpStays DEF OrderInv
    <2>2. OneShake'
      BY <1>0, <1>2, <2>1, FlowStep DEF UpInv
    <2>3. AcceptPath' /\ Connected'
      BY <1>0, <1>2, <2>1, PathStep DEF OrderInv
    <2> QED
      BY <2>2, <2>3 DEF UpInv
  <1> QED
    BY <1>1, <1>2 DEF OrderInv

LEMMA OrderInit == Init => OrderInv
  <1> SUFFICES ASSUME Init PROVE OrderInv
    OBVIOUS
  <1>1. /\ \A t \in Threads : pc[t] \in {"loop", "top", "idle"} /\ job[t].msg = "none"
        /\ pc["net"] = "loop" /\ pc["proc"] = "top"
    BY DEF Init, NoJob, Threads
  <1>2. /\ queued = <<>> /\ procQ \o inbound = <<>>
        /\ Len(<<>>) = 0 /\ state = "hellowait" /\ joined = {}
    BY DEF Init
  <1>3. Shut /\ Waited
    <2>1. Apps \subseteq Threads
      BY DEF Threads
    <2> QED
      BY <1>1, <1>2, <2>1 DEF Shut, Waited, SendLabels
  <1>4. OneShake /\ ~HasSome(queued, "user")
    BY <1>2 DEF OneShake, NoneIn, OneIn, Flow, HasSome
  <1>5. AcceptPath /\ Connected
    BY <1>1, <1>2, <1>4 DEF AcceptPath, Connected, ProcSends, SendLabels
  <1> QED
    BY <1>3, <1>4, <1>5 DEF OrderInv, UpInv

LEMMA OrderAlways ==
    ASSUME WaitFirst = TRUE
    PROVE  Spec => []OrderInv
  <1>1. Init => OrderInv
    BY OrderInit
  <1>2. TypeInv /\ TypeInv' /\ OrderInv /\ [Next]_vars => OrderInv'
    BY OrderStep
  <1> QED
    BY <1>1, <1>2, TypeAlways, PTL DEF Spec

-----------------------------------------------------------------------------
(* The client implements Upstream *)

\* A packet is taken: one of the application only after accept.
LEMMA AbstractAccept ==
    ASSUME OrderInv, NEW t \in Threads, Queues(t)
    PROVE  Abstract!Next
  <1> DEFINE m == job[t].msg
  <1>1. ASSUME Up, m = "user" PROVE Abstract!Established
    <2>1. state = "active"
      BY <1>1 DEF OrderInv, UpInv, AcceptPath, Queues
    <2>2. HasAll(queued, "accept")
      BY <1>1, <2>1 DEF OrderInv, UpInv, Connected
    <2> QED
      BY <2>2 DEF Abstract!Established, Abstract!Contains, HasAll
  <1>2. Up' = Up /\ mixed' = mixed
    BY DEF Queues, Up, SrvUp
  <1>3. Abstract!Accept(m)
    BY <1>1, <1>2 DEF Abstract!Accept, Queues, Abstract!Pieces, Pieces
  <1> QED
    BY <1>3 DEF Abstract!Next, Queues

\* A part of what was taken is delivered: the next bytes, or, when two threads
\* have written at once, any.
LEMMA AbstractDeliver ==
    ASSUME DataTypes, DataTypes', StreamInv', NEW t \in Threads, Delivers(t)
    PROVE  [Abstract!Next]_Abstract!vars
  <1> DEFINE w == wire'
  <1>1. /\ wire \in Seq(OutPieces) /\ queued \in Seq(OutPieces) /\ w \in Seq(OutPieces)
        /\ held[t] \in Seq(OutPieces) /\ mixed \in BOOLEAN
    BY DEF DataTypes, BufTypes
  <1>2. PICK n \in Portions(held[t]) : w = wire \o SubSeq(held[t], 1, n)
    BY DEF Delivers
  <1>3. Up /\ Up' = Up /\ queued' = queued /\ mixed' = mixed
    BY DEF Delivers, Up
  <1> DEFINE u == SubSeq(held[t], 1, n)
  <1>4. u \in Seq(OutPieces)
    <2>1. n \in Nat /\ n <= Len(held[t])
      BY <1>1, PortionsType
    <2> QED
      BY <1>1, <2>1, SplitAt
  <1>5. w = wire \o u
    BY <1>2
  <1> HIDE DEF u, w
  <1>6. CASE u = <<>>
    <2>1. w = wire
      BY <1>1, <1>5, <1>6, ConcatFacts
    <2> QED
      BY <1>3, <2>1 DEF Abstract!vars, w
  <1>7. CASE u # <<>>
    <2>1. Len(u) \in Nat /\ Len(u) > 0 /\ Len(wire) \in Nat /\ Len(w) \in Nat
      BY <1>1, <1>4, <1>7
    <2>2. Len(w) = Len(wire) + Len(u) /\ IsPrefix(wire, w)
      <3>1. Len(wire \o u) = Len(wire) + Len(u)
        BY <1>1, <1>4, ConcatFacts
      <3>2. IsPrefix(wire, wire \o u)
        BY <1>1, <1>4, PrefixFacts
      <3> QED
        BY <1>5, <3>1, <3>2
    <2>3. CASE ~mixed
      <3>1. IsPrefix(w, queued)
        BY <1>3, <2>3 DEF StreamInv, w
      <3>2. Len(w) <= Len(queued) /\ w = SubSeq(queued, 1, Len(w))
        <4>1. SubSeq(w, 1, Len(w)) = w
          BY <1>1
        <4> QED
          BY <1>1, <3>1, <4>1 DEF IsPrefix
      <3>3. Len(w) \in (Len(wire) + 1)..Len(queued)
        BY <1>1, <2>1, <2>2, <3>2
      <3>4. Abstract!Deliver
        BY <1>3, <2>3, <3>2, <3>3 DEF Abstract!Deliver, w
      <3> QED
        BY <3>4 DEF Abstract!Next
    <2>4. CASE mixed
      <3>1. wire # w
        BY <2>1, <2>2
      <3>2. IsStrictPrefix(wire, w)
        BY <2>2, <3>1 DEF IsStrictPrefix
      <3>3. Abstract!Garble
        BY <1>3, <2>4, <3>2 DEF Abstract!Garble, Abstract!IsStrictPrefix, Abstract!IsPrefix,
           IsStrictPrefix, IsPrefix, w
      <3> QED
        BY <3>3 DEF Abstract!Next
    <2> QED
      BY <1>1, <2>3, <2>4
  <1> QED
    BY <1>6, <1>7

LEMMA AbstractStep ==
    ASSUME DataTypes, DataTypes', Control, OrderInv, StreamInv', [Next]_vars
    PROVE  [Abstract!Next]_Abstract!vars
  <1>0. Up' => Up
    BY UpStays
  <1>1. CASE UNCHANGED <<wire, queued, mixed>>
    <2>1. CASE Up' <=> Up
      BY <1>1, <2>1 DEF Abstract!vars
    <2>2. CASE Up /\ ~Up'
      <3>1. Abstract!Lose
        BY <1>1, <2>2 DEF Abstract!Lose
      <3> QED
        BY <3>1 DEF Abstract!Next
    <2> QED
      BY <1>0, <2>1, <2>2
  <1>2. CASE UNCHANGED <<wire, queued>> /\ ~mixed /\ mixed' /\ Up /\ Up'
    <2>1. Abstract!Mix
      BY <1>2 DEF Abstract!Mix
    <2> QED
      BY <2>1 DEF Abstract!Next
  <1>3. ASSUME UNCHANGED <<wire, queued>>, mixed, mixed' PROVE mixed' = mixed
    BY <1>3 DEF DataTypes, BufTypes
  <1> QED
    BY <1>1, <1>2, <1>3, WireStep, AbstractAccept, AbstractDeliver

\* If every application thread calls wait_for_connection before it sends, the
\* client implements Upstream: however many threads and packet handlers send, and
\* however short send() is, the proc thread, the application and a net thread that
\* writes what is left put one stream on the wire, with nothing of the application
\* before accept, until two threads have had _write_buf in hand at once; and what
\* was put there stays, and ends with the connection.
THEOREM UpstreamImplemented ==
    ASSUME WaitFirst = TRUE
    PROVE  Spec => ImplementsUpstream
  <1>1. Init => Abstract!Init
    BY DEF Init, Abstract!Init, Up, SrvUp
  <1>2. TypeInv /\ TypeInv' /\ OrderInv /\ StreamInv' /\ [Next]_vars
          => [Abstract!Next]_Abstract!vars
    <2> SUFFICES ASSUME TypeInv, TypeInv', OrderInv, StreamInv', [Next]_vars
                 PROVE  [Abstract!Next]_Abstract!vars
      OBVIOUS
    <2>1. DataTypes /\ DataTypes' /\ Control
      BY TypeParts DEF TypeInv, TypeOK, DataTypes, ThreadTypes
    <2> QED
      BY <2>1, AbstractStep
  <1> QED
    BY <1>1, <1>2, TypeAlways, OrderAlways, StreamAlways, PTL DEF Spec, ImplementsUpstream,
       Abstract!Spec
-----------------------------------------------------------------------------
(* If send() takes all it is given: one sender at a time *)

\* While one thread sends, and all it can, the net thread never has to write, and
\* between two packets there is nothing in the buffer.
Solo == state # "active" \/ OneAtATime
NetIdle == pc["net"] \in {"loop", "select", "done"} /\ "out" \notin ready /\ interest # "rw"
OneSends == \A t \in Threads, u \in Threads :
    pc[t] \in SendLabels /\ pc[u] \in SendLabels => t = u
Busy == {"pump", "get", "send", "cut", "trim"}
TakesAll(t) == /\ pc[t] = "cut" => taken[t] = Len(writeBuf)
               /\ pc[t] = "trim" => held[t] = <<>>
Drained == /\ \A t \in Threads : TakesAll(t)
           /\ (\A t \in Threads : pc[t] \notin Busy) => writeBuf = <<>>
Alone == ~mixed /\ NetIdle /\ OneSends /\ Drained

SoleInv == /\ AcceptBeforeUser
           /\ OneAtATime => ~mixed
           /\ Up => /\ state = "active" => HasAll(wire, "accept")
                    /\ Solo => Alone

\* An active client stays active while it is up.
LEMMA ActiveStays ==
    ASSUME Control, Shut, Up, Up', Connected, state = "active", [Next]_vars
    PROVE  state' = "active"
  <1> USE DEF connVars, bufVars, loopVars, appVars, srvVars, dataVars
  <1>1. CASE UNCHANGED vars
    BY <1>1 DEF vars
  <1>2. CASE RoundStep
    BY <1>2, RoundMoves
  <1>3. CASE HandleStep
    BY <1>3 DEF HandleStep, ProcRound, TakeHello, Typed, Inited, TakeHandshake, Accepting,
       MarkAccept, Accepted, Announce, TakeUser, TakeCloseConn, Taking, Connected
  <1>4. CASE SrvStep
    BY <1>4 DEF SrvStep, SrvLeave, SrvSend
  <1>5. ASSUME NEW t \in Threads, SendStep(t) PROVE state' = "active"
    BY <1>5, SendMoves
  <1>6. ASSUME NEW t \in {"net", "proc"}, CloseStep(t) PROVE state' = "active"
    <2>1. t \in Threads
      BY DEF Threads
    <2> QED
      BY <1>6, <2>1, CloseMoves DEF Shut, Up
  <1>7. ASSUME NEW a \in Apps, CallStep(a) PROVE state' = "active"
    BY <1>7 DEF CallStep, Stop, Poke, AppCall, WaitForConnection, WaitForClose, WaitTimesOut
  <1> QED
    BY <1>1, <1>2, <1>3, <1>4, <1>5, <1>6, <1>7, Steps

\* The buffer of the only sender, from one step of sending to the next.
LEMMA DrainSend ==
    ASSUME DataTypes, Control, Up, Stream, Alone, ~PartialSend, NEW t \in Threads, SendStep(t)
    PROVE  /\ ~mixed'
           /\ TakesAll(t)' /\ (pc'[t] \notin Busy => writeBuf' = <<>>)
           /\ interest' = "rw" => interest = "rw"
  <1> USE DEF connVars, bufVars, loopVars, appVars, srvVars, dataVars
  <1>0. /\ writeBuf \in Seq(OutPieces) /\ held[t] \in Seq(OutPieces)
        /\ held \in [Threads -> Seq(OutPieces)] /\ taken \in [Threads -> Nat]
    BY BufferType
  <1>1. \A x \in Threads \ {t} : pc[x] \notin SendLabels
    BY SendMoves DEF Alone, OneSends
  <1>2. TakesAll(t) /\ CopyOf(t) /\ ~mixed
    BY DEF Alone, Drained, Stream
  <1>3. pc[t] \notin Busy => writeBuf = <<>>
    <2>1. Busy \subseteq SendLabels
      BY DEF Busy, SendLabels
    <2> QED
      BY <1>1, <2>1 DEF Alone, Drained
  <1>b. ASSUME Return(t) PROVE pc'[t] \notin Busy \ {"pump"}
    BY <1>b, ReturnMoves DEF Busy, Home
  <1>4. CASE Load(t) \/ Get(t)
    <2>1. TakeCopy(t) /\ pc[t] \in {"load", "get"} /\ UNCHANGED interest
          /\ pc'[t] = (IF pc[t] = "load" THEN "store" ELSE "send")
      BY <1>4, Moves DEF Load, Get
    <2>2. \A x \in Threads \ {t} : ~Holding(x)
      BY <1>1 DEF Holding, SendLabels
    <2>3. ~mixed' /\ writeBuf' = writeBuf
      BY <1>2, <2>1, <2>2 DEF TakeCopy
    <2> QED
      BY <1>3, <2>1, <2>3 DEF TakesAll, Busy
  <1>5. CASE Store(t)
    <2>1. pc'[t] = "pump" /\ UNCHANGED <<interest, mixed>>
      BY <1>5, Moves DEF Store
    <2> QED
      BY <1>2, <2>1 DEF TakesAll, Busy
  <1>6. CASE Pump(t)
    <2>1. /\ UNCHANGED <<interest, bufVars>>
          /\ IF writeBuf = <<>> THEN Return(t) ELSE Goto(t, "get")
      BY <1>6 DEF Pump
    <2>2. CASE writeBuf = <<>>
      <3>1. pc'[t] \notin {"cut", "trim"}
        BY <1>b, <2>1, <2>2 DEF Busy
      <3> QED
        BY <1>2, <2>1, <2>2, <3>1 DEF TakesAll
    <2>3. CASE writeBuf # <<>>
      <3>1. pc'[t] = "get"
        BY <2>1, <2>3, Moves
      <3> QED
        BY <1>2, <2>1, <3>1 DEF TakesAll, Busy
    <2> QED
      BY <2>2, <2>3
  <1>7. CASE Send(t)
    <2>1. PICK n \in Portions(held[t]) : taken' = [taken EXCEPT ![t] = n] /\ Goto(t, "cut")
      BY <1>7 DEF Send, Up
    <2>2. pc[t] = "send" /\ UNCHANGED <<interest, writeBuf, mixed>>
      BY <1>7 DEF Send
    <2>3. n = Len(writeBuf)
      BY <1>2, <2>2 DEF CopyOf, Portions
    <2>4. pc'[t] = "cut" /\ taken'[t] = Len(writeBuf')
      BY <1>0, <2>1, <2>2, <2>3, Moves
    <2> QED
      BY <1>2, <2>2, <2>4 DEF TakesAll, Busy
  <1>8. CASE Cut(t)
    <2>1. /\ pc[t] = "cut" /\ pc'[t] = "trim" /\ UNCHANGED <<interest, mixed>>
          /\ held' = [held EXCEPT ![t] = SubSeq(writeBuf, taken[t] + 1, Len(writeBuf))]
      BY <1>8, Moves DEF Cut
    <2>2. SubSeq(writeBuf, taken[t] + 1, Len(writeBuf)) = <<>>
      <3>1. taken[t] = Len(writeBuf)
        BY <1>2, <2>1 DEF TakesAll
      <3> QED
        BY <1>0, <3>1
    <2>3. held'[t] = <<>>
      BY <1>0, <2>1, <2>2
    <2> QED
      BY <1>2, <2>1, <2>3 DEF TakesAll, Busy
  <1>9. CASE Trim(t)
    <2>1. pc[t] = "trim" /\ pc'[t] = "after" /\ UNCHANGED <<interest, mixed>> /\ writeBuf' = held[t]
      BY <1>9, Moves DEF Trim
    <2> QED
      BY <1>2, <2>1 DEF TakesAll, Busy
  <1>10. CASE After(t)
    <2>1. pc[t] = "after" /\ UNCHANGED bufVars
      BY <1>10 DEF After
    <2>2. writeBuf = <<>>
      BY <1>3, <2>1 DEF Busy
    <2>3. UNCHANGED interest /\ (Goto(t, "quit") \/ Return(t))
      BY <1>10, <2>2 DEF After
    <2>4. pc'[t] \notin {"cut", "trim"}
      BY <1>b, <2>3, Moves DEF Busy
    <2> QED
      BY <1>2, <2>1, <2>2, <2>3, <2>4 DEF TakesAll
  <1>11. CASE Wake(t) \/ Quit(t) \/ Bye(t) \/ Mark(t)
    <2>1. pc[t] \in {"wake", "quit", "bye", "mark"} /\ UNCHANGED bufVars
          /\ (interest' = "rw" => interest = "rw")
      BY <1>11 DEF Wake, Quit, Bye, Mark
    <2>2. writeBuf = <<>>
      BY <1>3, <2>1 DEF Busy
    <2>3. Goto(t, "bye") \/ Return(t) \/ Leave(t)
      BY <1>11 DEF Wake, Quit, Bye, Mark
    <2>4. pc'[t] \notin {"cut", "trim"}
      BY <1>b, <2>3, Moves DEF Busy, Home
    <2> QED
      BY <1>2, <2>1, <2>2, <2>4 DEF TakesAll
  <1> QED
    BY <1>4, <1>5, <1>6, <1>7, <1>8, <1>9, <1>10, <1>11 DEF SendStep

LEMMA AloneSend ==
    ASSUME DataTypes, Control, Up, Stream, Alone, ~PartialSend, NEW t \in Threads, SendStep(t)
    PROVE  Alone'
  <1>0. Busy \subseteq SendLabels /\ "idle" \notin SendLabels /\ "net" \in Threads
    BY DEF Busy, SendLabels, Threads
  <1>1. NetIdle /\ OneSends /\ Drained
    BY DEF Alone
  <1>2. OthersStay(t) /\ pc[t] \in SendLabels /\ UNCHANGED ready
    BY SendMoves
  <1>3. t # "net"
    BY <1>1, <1>2 DEF NetIdle, SendLabels
  <1>4. ASSUME NEW x \in Threads, x # t PROVE pc'[x] \notin SendLabels
    BY <1>0, <1>1, <1>2, <1>4 DEF OthersStay, OneSends
  <1>5. /\ ~mixed' /\ TakesAll(t)' /\ (pc'[t] \notin Busy => writeBuf' = <<>>)
        /\ interest' = "rw" => interest = "rw"
    BY DrainSend
  <1>6. NetIdle'
    <2>1. pc'["net"] \in {"loop", "select", "done"}
      BY <1>0, <1>1, <1>2, <1>3 DEF NetIdle, OthersStay
    <2> QED
      BY <1>1, <1>2, <1>5, <2>1 DEF NetIdle
  <1>7. OneSends'
    BY <1>4 DEF OneSends
  <1>8. Drained'
    <2>1. ASSUME NEW x \in Threads, x # t PROVE TakesAll(x)'
      BY <1>0, <1>4, <2>1 DEF TakesAll, SendLabels
    <2> QED
      BY <1>5, <2>1 DEF Drained
  <1> QED
    BY <1>5, <1>6, <1>7, <1>8 DEF Alone

\* Steps in which nobody sends; one thread may start to.
LEMMA AloneQuiet ==
    ASSUME Alone, NEW t \in Threads, OthersStay(t), UNCHANGED bufVars,
           pc[t] \notin SendLabels, NetIdle',
           \/ pc'[t] \notin SendLabels
           \/ pc'[t] = "load" /\ \A u \in Threads : pc[u] \notin SendLabels
    PROVE  Alone'
  <1>0. Busy \subseteq SendLabels /\ "idle" \notin SendLabels /\ "load" \notin Busy
    BY DEF Busy, SendLabels
  <1>1. NetIdle /\ OneSends /\ Drained /\ ~mixed
    BY DEF Alone
  <1>2. \A x \in Threads \ {t} : pc'[x] = pc[x] \/ (pc'[x] = "idle" /\ pc[x] \notin SendLabels)
    BY DEF OthersStay, SendLabels
  <1>3. OneSends'
    <2>1. CASE pc'[t] \notin SendLabels
      BY <1>0, <1>1, <1>2, <2>1 DEF OneSends
    <2>2. CASE pc'[t] = "load" /\ \A u \in Threads : pc[u] \notin SendLabels
      BY <1>0, <1>2, <2>2 DEF OneSends
    <2> QED
      BY <2>1, <2>2
  <1>4. \A x \in Threads : pc'[x] \in Busy \/ pc[x] \in Busy => pc'[x] = pc[x]
    BY <1>0, <1>2
  <1>5. Drained'
    <2>1. ASSUME NEW x \in Threads PROVE TakesAll(x)'
      <3>1. pc'[x] \in {"cut", "trim"} => pc'[x] = pc[x]
        BY <1>4 DEF Busy
      <3> QED
        BY <1>1, <3>1 DEF Drained, TakesAll, bufVars
    <2>2. (\A x \in Threads : pc'[x] \notin Busy) => writeBuf' = <<>>
      BY <1>1, <1>4 DEF Drained, bufVars
    <2> QED
      BY <2>1, <2>2 DEF Drained
  <1> QED
    BY <1>1, <1>3, <1>5 DEF Alone, bufVars
-----------------------------------------------------------------------------
LEMMA AloneStep ==
    ASSUME DataTypes, Control, Shut, Waited, WaitFirst, ~PartialSend, Up, Up', UpInv,
           ~mixed => Stream, Solo => Alone, [Next]_vars, Solo'
    PROVE  Alone'
  <1> USE DEF connVars, bufVars, loopVars, appVars, srvVars, dataVars
  <1>0. /\ Apps \subseteq Threads /\ "net" \in Threads /\ "proc" \in Threads
        /\ "net" \notin Apps /\ "proc" \notin Apps
        /\ \A t \in Threads : t = "net" \/ t = "proc" \/ t \in Apps
    BY DEF Threads
  <1>1. AcceptPath /\ Connected /\ Connected'
    BY PathStep DEF UpInv
  <1>2. Solo /\ (state = "active" => OneAtATime)
    BY <1>1, ActiveStays DEF Solo
  <1>3. Alone /\ NetIdle /\ Stream
    BY <1>2 DEF Alone
  <1>4. \A a \in Apps : pc[a] \in SendLabels => state = "active" /\ a \in Senders
    BY <1>1 DEF Waited, AcceptPath
  <1>a. ASSUME NEW t \in Threads, t # "net", OthersStay(t), UNCHANGED <<ready, interest>>
        PROVE  NetIdle'
    BY <1>0, <1>3, <1>a DEF NetIdle, OthersStay
  <1>5. pc["net"] \notin SendLabels
    BY <1>3 DEF NetIdle, SendLabels
  <1>6. CASE UNCHANGED vars
    BY <1>3, <1>6 DEF vars, Alone, NetIdle, OneSends, Drained, TakesAll
  <1>7. CASE RoundStep
    <2>1. OthersStay("net") /\ UNCHANGED <<bufVars, interest>>
      BY <1>7, RoundMoves
    <2>2. pc'["net"] \in {"loop", "select", "done"}
      BY <1>3, <1>7, RoundMoves DEF NetIdle
    <2>3. "out" \notin ready'
      BY <1>3, <1>7, RoundMoves DEF NetIdle, Events
    <2>4. NetIdle'
      BY <1>3, <2>1, <2>2, <2>3 DEF NetIdle
    <2>5. pc'["net"] \notin SendLabels
      BY <2>2 DEF SendLabels
    <2> QED
      BY <1>0, <1>3, <1>5, <2>1, <2>4, <2>5, AloneQuiet
  <1>8. CASE HandleStep
    <2>1. OthersStay("proc") /\ UNCHANGED <<bufVars, ready, interest>> /\ pc["proc"] \notin SendLabels
      BY <1>8, HandleMoves
    <2>2. NetIdle'
      BY <1>0, <1>a, <2>1
    <2>3. CASE pc'["proc"] \notin SendLabels
      BY <1>0, <1>3, <2>1, <2>2, <2>3, AloneQuiet
    <2>4. CASE pc'["proc"] \in SendLabels
      <3>1. pc'["proc"] = "load"
        BY <1>8, <2>4, HandleMoves DEF SendLabels
      <3>2. state # "active"
        <4> SUFFICES ASSUME state = "active" PROVE FALSE
          OBVIOUS
        <4>1. state' = "active" /\ OneAtATime
          BY <1>1, <1>2, ActiveStays
        <4> QED
          BY <1>1, <2>4, <4>1 DEF Connected, ProcSends
      <3>3. \A u \in Threads : pc[u] \notin SendLabels
        BY <1>0, <1>4, <1>5, <2>1, <3>2
      <3> QED
        BY <1>0, <1>3, <2>1, <2>2, <3>1, <3>3, AloneQuiet
    <2> QED
      BY <2>3, <2>4
  <1>9. CASE SrvStep
    <2>1. UNCHANGED <<pc, ready, interest, bufVars>>
      BY <1>9 DEF SrvStep, SrvLeave, SrvSend
    <2> QED
      BY <1>3, <2>1 DEF Alone, NetIdle, OneSends, Drained, TakesAll
  <1>10. ASSUME NEW t \in Threads, SendStep(t) PROVE Alone'
    BY <1>3, <1>10, AloneSend
  <1>11. ASSUME NEW t \in {"net", "proc"}, CloseStep(t) PROVE Alone'
    <2>1. /\ t \in Threads /\ OthersStay(t) /\ pc[t] = "cnotify" /\ pc'[t] = "shut"
          /\ UNCHANGED <<bufVars, ready, interest>>
      BY <1>0, <1>11, CloseMoves DEF Up, Shut
    <2>2. t # "net"
      BY <1>3, <2>1 DEF NetIdle
    <2>3. NetIdle' /\ pc[t] \notin SendLabels /\ pc'[t] \notin SendLabels
      BY <1>a, <2>1, <2>2 DEF SendLabels
    <2> QED
      BY <1>3, <2>1, <2>3, AloneQuiet
  <1>12. ASSUME NEW a \in Apps, CallStep(a) PROVE Alone'
    <2>1. /\ OthersStay(a) /\ pc[a] \notin SendLabels /\ UNCHANGED <<bufVars, ready, interest>>
          /\ a \in Threads /\ a # "net"
      BY <1>0, <1>12, CallMoves
    <2>2. NetIdle'
      BY <1>a, <2>1
    <2>3. pc'[a] \in SendLabels => pc'[a] = "load" /\ a \in joined /\ a \in Senders
      <3>1. pc[a] = "poke" => job[a].then = "home"
        BY <1>12 DEF Waited
      <3>2. pc[a] = "poke" /\ Return(a) => pc'[a] = "idle"
        BY <2>1, <3>1, ReturnMoves DEF Home
      <3> QED
        BY <1>12, <3>2, CallMoves DEF SendLabels
    <2>4. CASE pc'[a] \notin SendLabels
      BY <1>3, <2>1, <2>2, <2>4, AloneQuiet
    <2>5. CASE pc'[a] \in SendLabels
      <3>1. state = "active" /\ OneAtATime
        BY <1>1, <1>2, <2>3, <2>5 DEF AcceptPath
      <3>2. pc["proc"] \notin SendLabels
        BY <1>1, <3>1 DEF Connected, ProcSends
      <3>3. ASSUME NEW b \in Apps, pc[b] \in SendLabels PROVE b = a
        BY <1>4, <2>3, <2>5, <3>1, <3>3 DEF OneAtATime
      <3>4. \A u \in Threads : pc[u] \notin SendLabels
        BY <1>0, <1>5, <2>1, <3>2, <3>3
      <3> QED
        BY <1>3, <2>1, <2>2, <2>3, <2>5, <3>4, AloneQuiet
    <2> QED
      BY <2>4, <2>5
  <1> QED
    BY <1>6, <1>7, <1>8, <1>9, <1>10, <1>11, <1>12, Steps
-----------------------------------------------------------------------------
(* accept on the wire *)

\* AcceptBeforeUser of a sequence.
AcceptFirstIn(s) == \A i \in 1..Len(s) :
    s[i][1] = "user" => \A k \in 1..PacketSize : \E j \in 1..i : s[j] = <<"accept", k>>

LEMMA AcceptFirstMeans ==
    ASSUME NEW w \in Seq(OutPieces)
    PROVE  (\A i \in 1..Len(w) : w[i][1] = "user" =>
               \A k \in 1..PacketSize : Contains(SubSeq(w, 1, i), <<"accept", k>>))
             <=> AcceptFirstIn(w)
  <1>1. ASSUME NEW i \in 1..Len(w), NEW e
        PROVE  Contains(SubSeq(w, 1, i), e) <=> \E j \in 1..i : w[j] = e
    <2>1. /\ i \in Nat /\ Len(SubSeq(w, 1, i)) = i
          /\ \A j \in 1..i : SubSeq(w, 1, i)[j] = w[j]
      OBVIOUS
    <2> QED
      BY <2>1 DEF Contains
  <1> QED
    BY <1>1 DEF AcceptFirstIn

LEMMA AcceptFirstMore ==
    ASSUME NEW s \in Seq(OutPieces), NEW u \in Seq(OutPieces), AcceptFirstIn(s),
           HasAll(s, "accept")
    PROVE  AcceptFirstIn(s \o u)
  <1> DEFINE r == s \o u
  <1>1. /\ Len(s) \in Nat /\ Len(r) \in Nat /\ \A i \in 1..Len(s) : r[i] = s[i]
    OBVIOUS
  <1> HIDE DEF r
  <1> SUFFICES ASSUME NEW i \in 1..Len(r), r[i][1] = "user", NEW k \in 1..PacketSize
               PROVE  \E j \in 1..i : r[j] = <<"accept", k>>
    BY DEF AcceptFirstIn, r
  <1>2. CASE i <= Len(s)
    <2>1. i \in 1..Len(s) /\ s[i][1] = "user"
      BY <1>1, <1>2
    <2>2. PICK j \in 1..i : s[j] = <<"accept", k>>
      BY <2>1 DEF AcceptFirstIn
    <2>3. j \in 1..Len(s)
      BY <1>1, <1>2
    <2> QED
      BY <1>1, <2>2, <2>3
  <1>3. CASE ~(i <= Len(s))
    <2>1. PICK j \in 1..Len(s) : s[j] = <<"accept", k>>
      BY DEF HasAll
    <2>2. j \in 1..i
      BY <1>1, <1>3
    <2> QED
      BY <1>1, <2>1, <2>2
  <1> QED
    BY <1>1, <1>2, <1>3

LEMMA AcceptFirstStep ==
    ASSUME DataTypes, DataTypes', Control, WaitFirst, ~PartialSend, AcceptBeforeUser,
           Up => UpInv, StreamInv', [Next]_vars,
           Up => (state = "active" => HasAll(wire, "accept")) /\ (Solo => Alone)
    PROVE  AcceptBeforeUser'
  <1>0. wire \in Seq(OutPieces) /\ queued \in Seq(OutPieces) /\ wire' \in Seq(OutPieces)
    BY DEF DataTypes, BufTypes
  <1>1. AcceptFirstIn(wire)
    BY <1>0, AcceptFirstMeans DEF AcceptBeforeUser
  <1>2. AcceptFirstIn(wire')
    <2>1. CASE wire' = wire
      BY <1>1, <2>1
    <2>2. ASSUME NEW t \in Threads, Delivers(t) PROVE AcceptFirstIn(wire')
      <3>1. PICK n \in Portions(held[t]) : wire' = wire \o SubSeq(held[t], 1, n)
        BY <2>2 DEF Delivers
      <3> DEFINE u == SubSeq(held[t], 1, n)
      <3>2. u \in Seq(OutPieces)
        <4>1. held[t] \in Seq(OutPieces)
          BY BufferType
        <4>2. n \in Nat /\ n <= Len(held[t])
          BY <4>1, PortionsType
        <4> QED
          BY <4>1, <4>2, SplitAt
      <3> HIDE DEF u
      <3>3. CASE state = "active"
        <4>1. HasAll(wire, "accept")
          BY <2>2, <3>3 DEF Delivers
        <4>2. AcceptFirstIn(wire \o u)
          BY <1>0, <1>1, <3>2, <4>1, AcceptFirstMore
        <4> QED
          BY <3>1, <4>2 DEF u
      <3>4. CASE state # "active"
        <4>1. ~mixed' /\ queued' = queued /\ ~HasSome(queued, "user")
          BY <2>2, <3>4 DEF Delivers, Alone, Solo, UpInv, AcceptPath
        <4>2. IsPrefix(wire', queued)
          BY <4>1 DEF StreamInv
        <4> DEFINE w == wire'
        <4>3. Len(w) <= Len(queued) /\ \A i \in 1..Len(w) : w[i] = queued[i]
          BY <1>0, <4>2, PrefixMeans
        <4>4. Len(w) \in Nat /\ Len(queued) \in Nat
          BY <1>0
        <4> HIDE DEF w
        <4>5. \A i \in 1..Len(w) : i \in 1..Len(queued)
          BY <4>3, <4>4
        <4>6. \A i \in 1..Len(w) : w[i][1] # "user"
          BY <4>1, <4>3, <4>5 DEF HasSome
        <4> QED
          BY <4>6 DEF AcceptFirstIn, w
      <3> QED
        BY <3>3, <3>4
    <2> QED
      BY <2>1, <2>2, WireStep DEF Queues
  <1> QED
    BY <1>0, <1>2, AcceptFirstMeans DEF AcceptBeforeUser

\* When the client becomes active, all it has queued is on the wire.
LEMMA ReceivedStep ==
    ASSUME DataTypes, Control, Shut, Waited, Up, Up', UpInv, [Next]_vars,
           ~mixed => Stream, Solo => Alone, state = "active" => HasAll(wire, "accept"),
           state' = "active"
    PROVE  HasAll(wire, "accept")'
  <1>1. CASE state = "active"
    <2>1. CASE wire' = wire
      BY <1>1, <2>1
    <2>2. ASSUME NEW t \in Threads, Delivers(t) PROVE HasAll(wire, "accept")'
      <3>1. PICK n \in Portions(held[t]) : wire' = wire \o SubSeq(held[t], 1, n)
        BY <2>2 DEF Delivers
      <3> DEFINE u == SubSeq(held[t], 1, n)
      <3>2. wire \in Seq(OutPieces) /\ held[t] \in Seq(OutPieces)
        BY BufferType
      <3>3. n \in Nat /\ n <= Len(held[t])
        BY <3>2, PortionsType
      <3>4. u \in Seq(OutPieces)
        BY <3>2, <3>3, SplitAt
      <3> HIDE DEF u
      <3>5. HasAll(wire \o u, "accept")
        BY <1>1, <3>2, <3>4, HasMore
      <3> QED
        BY <3>1, <3>5 DEF u
    <2> QED
      BY <2>1, <2>2, WireStep DEF Queues
  <1>2. CASE state # "active"
    <2>0. /\ "net" \in Threads /\ "proc" \in Threads
          /\ \A t \in Threads : t = "net" \/ t = "proc" \/ t \in Apps
      BY DEF Threads
    <2>1. Accepted
      <3> USE DEF connVars, bufVars, loopVars, appVars, srvVars, dataVars
      <3>1. CASE HandleStep
        BY <1>2, <3>1 DEF HandleStep, ProcRound, TakeHello, Typed, Inited, TakeHandshake,
           Accepting, MarkAccept, Accepted, Announce, TakeUser, TakeCloseConn, Taking
      <3>2. CASE RoundStep
        BY <1>2, <3>2, RoundMoves
      <3>3. CASE SrvStep \/ UNCHANGED vars
        BY <1>2, <3>3 DEF SrvStep, SrvLeave, SrvSend, vars
      <3>4. ASSUME NEW t \in Threads, SendStep(t) PROVE FALSE
        BY <1>2, <3>4, SendMoves
      <3>5. ASSUME NEW t \in {"net", "proc"}, CloseStep(t) PROVE FALSE
        BY <1>2, <2>0, <3>5 DEF CloseStep, CloseNotify, CloseSocket, CloseUnregister,
           CloseCallback, CloseSetState
      <3>6. ASSUME NEW a \in Apps, CallStep(a) PROVE FALSE
        BY <1>2, <3>6, CallMoves
      <3> QED
        BY <3>1, <3>2, <3>3, <3>4, <3>5, <3>6, Steps
    <2>2. pc["proc"] = "accepted" /\ UNCHANGED wire
      BY <2>1 DEF Accepted, bufVars
    <2>3. Alone /\ Stream /\ HasAll(queued, "accept") /\ joined = {}
      BY <1>2, <2>2 DEF Solo, Alone, UpInv, AcceptPath
    <2>4. ASSUME NEW t \in Threads PROVE pc[t] \notin Busy
      <3>1. CASE t \in Apps
        BY <2>3, <3>1 DEF Waited, Busy, SendLabels
      <3>2. CASE t \in {"net", "proc"}
        BY <2>2, <2>3, <3>2 DEF Alone, NetIdle, Busy
      <3> QED
        BY <2>0, <3>1, <3>2
    <2>5. writeBuf = <<>> /\ wire \o writeBuf = queued
      BY <2>3, <2>4 DEF Alone, Drained, Stream, Whole, Busy
    <2>6. wire = queued
      <3>1. wire \in Seq(OutPieces)
        BY BufferType
      <3>2. wire \o <<>> = wire
        BY <3>1, ConcatFacts
      <3> QED
        BY <2>5, <3>2
    <2> QED
      BY <2>2, <2>3, <2>6
  <1> QED
    BY <1>1, <1>2

LEMMA SoleStep ==
    ASSUME WaitFirst, ~PartialSend, TypeInv, TypeInv', OrderInv, StreamInv, StreamInv', SoleInv,
           [Next]_vars
    PROVE  SoleInv'
  <1>0. DataTypes /\ DataTypes' /\ Control
    BY TypeParts DEF TypeInv, TypeOK, DataTypes, ThreadTypes
  <1>1. AcceptBeforeUser'
    BY <1>0, AcceptFirstStep DEF OrderInv, SoleInv
  <1>2. ASSUME Up' PROVE (state' = "active" => HasAll(wire, "accept")') /\ (Solo' => Alone')
    <2>1. Up
      BY <1>2, UpStays
    <2>2. Shut /\ Waited /\ UpInv
      BY <2>1 DEF OrderInv
    <2>3. ~mixed => Stream
      BY <2>1 DEF StreamInv
    <2>4. (state = "active" => HasAll(wire, "accept")) /\ (Solo => Alone)
      BY <2>1 DEF SoleInv
    <2>5. state' = "active" => HasAll(wire, "accept")'
      BY <1>0, <1>2, <2>1, <2>2, <2>3, <2>4, ReceivedStep
    <2>6. Solo' => Alone'
      BY <1>0, <1>2, <2>1, <2>2, <2>3, <2>4, AloneStep
    <2> QED
      BY <2>5, <2>6
  <1>3. ASSUME OneAtATime PROVE ~mixed'
    <2>1. CASE Up'
      BY <1>2, <1>3, <2>1 DEF Solo, Alone
    <2>2. CASE ~Up'
      <3>1. mixed' = mixed
        BY <1>0, <2>2, WireStep, Zenon DEF Delivers, Queues
      <3> QED
        BY <1>3, <3>1 DEF SoleInv
    <2> QED
      BY <2>1, <2>2
  <1> QED
    BY <1>1, <1>2, <1>3 DEF SoleInv

LEMMA SoleInit == Init => SoleInv
  <1> SUFFICES ASSUME Init PROVE SoleInv
    OBVIOUS
  <1>1. \A t \in Threads : pc[t] \in {"loop", "top", "idle"}
    BY DEF Init, Threads
  <1>2. /\ writeBuf = <<>> /\ wire = <<>> /\ Len(<<>>) = 0 /\ state = "hellowait" /\ ~mixed
        /\ pc["net"] = "loop" /\ interest = "r" /\ ready = {}
    BY DEF Init, Threads
  <1>3. AcceptBeforeUser
    BY <1>2 DEF AcceptBeforeUser
  <1>4. Alone
    BY <1>1, <1>2 DEF Alone, NetIdle, OneSends, Drained, TakesAll, SendLabels
  <1> QED
    BY <1>2, <1>3, <1>4 DEF SoleInv

LEMMA SoleAlways ==
    ASSUME WaitFirst = TRUE, PartialSend = FALSE
    PROVE  Spec => []SoleInv
  <1>1. Init => SoleInv
    BY SoleInit
  <1>2. /\ TypeInv /\ TypeInv' /\ OrderInv /\ StreamInv /\ StreamInv' /\ SoleInv /\ [Next]_vars
        => SoleInv'
    BY SoleStep
  <1> QED
    BY <1>1, <1>2, TypeAlways, OrderAlways, StreamAlways, PTL DEF Spec

\* If send() takes all it is given, and the application sends from one thread,
\* after wait_for_connection, and not from its packet handler: no two threads ever
\* have a copy of _write_buf in hand at once while the connection is there,
\* although nothing guards it.
THEOREM OneWriterOnly ==
    ASSUME WaitFirst = TRUE, PartialSend = FALSE, OneAtATime
    PROVE  Spec => []OneWriter
  <1>1. SoleInv => OneWriter
    BY DEF SoleInv, OneWriter
  <1> QED
    BY <1>1, SoleAlways, PTL

\* If send() takes all it is given, and every application thread calls
\* wait_for_connection before it sends: no byte of an application packet reaches
\* the server before all of accept, however many threads and packet handlers send,
\* and even if their writes to _write_buf get in each other's way.
THEOREM AcceptFirst ==
    ASSUME WaitFirst = TRUE, PartialSend = FALSE
    PROVE  Spec => []AcceptBeforeUser
  <1>1. SoleInv => AcceptBeforeUser
    BY DEF SoleInv
  <1> QED
    BY <1>1, SoleAlways, PTL
=============================================================================
