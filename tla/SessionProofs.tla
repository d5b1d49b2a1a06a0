---------------------------- MODULE SessionProofs ----------------------------
(* A connection from end to end: types, pings, closing reasons, and the       *)
(* refinement of Link.                                                        *)
EXTENDS SessionProps, TLAPS

-----------------------------------------------------------------------------
(* Type correctness *)

Pcs == [snet : {"ready", "drained", "retire"}, sapp : {"ready", "mark"},
        sproc : {"ready", "answer", "mark"},
        cproc : {"ready", "init", "pong", "finish", "dead"},
        capp : {"waiting", "ready", "answered", "timedout"}]
SetupTypes == target \in Targets /\ types \in TypeSets /\ match \in BOOLEAN
              /\ missing \in {"closeconnection", "ignore"}
PipeTypes == wire \in [Sides -> Seq(Packets)] /\ inq \in [Sides -> Seq(Packets)]
             /\ writeq \in Seq(Packets)
EndTypes == /\ sock \in [Sides -> {"none", "open", "closed"}] /\ sock["client"] # "none"
            /\ state \in [Sides -> {"init", "hellowait", "waittype", "wait1", "active", "closed"}]
            /\ state["server"] # "hellowait" /\ state["client"] # "init"
            /\ stype \in {"notset"} \cup Targets /\ pc \in Pcs /\ established \subseteq Sides
FlagTypes == /\ reset \in [Sides -> BOOLEAN] /\ alive \in [Sides -> BOOLEAN]
             /\ mark \in [Sides -> BOOLEAN]
             /\ armed \in BOOLEAN /\ interest \in BOOLEAN /\ data \in BOOLEAN
             /\ pong \in BOOLEAN /\ bye \in BOOLEAN /\ heard \in BOOLEAN
CallTypes == calls \in [Sides -> Nat] /\ \A s \in Sides : calls[s] \in 0..MaxCalls[s]

\* The client's IDs: the handshake can move every name it shares with the server.
IdsInv == /\ OneToOne(ids) /\ \A n \in DOMAIN ids : ids[n] \in UserIds
          /\ \A n \in DOMAIN ids \cap DOMAIN ServerIds : \A m \in DOMAIN ids :
                ids[m] = ServerIds[n] => m = n
TypeInv == SetupTypes /\ PipeTypes /\ EndTypes /\ FlagTypes /\ CallTypes /\ IdsInv

USE DEF setup, net, server, client, ends, hist, At, Goto

LEMMA SidesFacts == /\ "client" \in Sides /\ "server" \in Sides
                    /\ Other("client") = "server" /\ Other("server") = "client"
                    /\ \A s \in Sides : Other(s) \in Sides /\ Other(s) # s
  BY DEF Sides, Other

LEMMA ServerIdsFacts == /\ OneToOne(ServerIds)
                        /\ \A n \in DOMAIN ServerIds : ServerIds[n] \in UserIds
  BY IdsAssumption DEF UserIds

LEMMA UserPackets == UserIds \subseteq Packets /\ Ping \in UserIds /\ Pong \in UserIds
  BY DEF Packets, UserIds, Ping, Pong

LEMMA TypeInit == Init => TypeInv
  <1> SUFFICES ASSUME Init PROVE TypeInv
    OBVIOUS
  <1> USE DEF Init
  <1>1. SetupTypes
    BY SessionAssumption DEF SetupTypes
  <1>2. PipeTypes
    BY DEF PipeTypes
  <1>3. EndTypes
    BY DEF EndTypes, Sides, Pcs
  <1>4. FlagTypes
    BY DEF FlagTypes
  <1>5. CallTypes
    BY SessionAssumption DEF CallTypes, NoCalls
  <1>6. IdsInv
    BY IdsAssumption DEF IdsInv, UserIds
  <1> QED
    BY <1>1, <1>2, <1>3, <1>4, <1>5, <1>6 DEF TypeInv

\* The actions, with their groups expanded.
LEMMA Steps ==
    ASSUME Next
    PROVE  \/ Accept \/ (\E s \in Sides : NetRead(s) \/ NetEof(s) \/ Crash(s) \/ ResetArrives(s))
           \/ NetWrite \/ NetDrained \/ NetRetire
           \/ TakeStale \/ TakeSetType \/ TakeAccepted \/ ServerTakeCloseConn
           \/ ServerTakeUser \/ TakePing \/ AnswerPing
           \/ (\E t \in {"sproc", "sapp"} : ServerMark(t))
           \/ TakeHello \/ InitClassic \/ InitPing \/ InitCustom \/ TakeHandshake
           \/ ClientTakeCloseConn \/ ClientTakeUser \/ TakePong \/ NotifyPong \/ FinishPong
           \/ WaitReturns \/ PingTimesOut \/ ClientAppSends \/ ClientAppCloses
           \/ ServerAppSends \/ ServerAppCloses
  BY SidesFacts DEF Next, ServerNet, ServerProc, ClientNet, ClientProc, Applications

\* What sending and closing does to the types.
LEMMA ServerSendsTypes ==
    ASSUME PipeTypes, FlagTypes, NEW p \in Packets, ServerSends(p)
    PROVE  writeq' \in Seq(Packets) /\ armed' \in BOOLEAN
  <1>1. writeq' \in Seq(Packets)
    BY DEF ServerSends, PipeTypes
  <1>2. armed' = TRUE \/ armed' = armed
    BY DEF ServerSends
  <1> QED
    BY <1>1, <1>2, Zenon DEF FlagTypes

LEMMA ClientSendsTypes ==
    ASSUME PipeTypes, FlagTypes, NEW p \in Packets, ClientSends(p)
    PROVE  wire' \in [Sides -> Seq(Packets)] /\ reset' \in [Sides -> BOOLEAN]
           /\ interest' \in BOOLEAN
  <1>1. wire' \in [Sides -> Seq(Packets)]
    <2>1. Append(wire["server"], p) \in Seq(Packets)
      BY SidesFacts DEF PipeTypes
    <2>2. wire' = wire \/ wire' = [wire EXCEPT !["server"] = Append(wire["server"], p)]
      BY DEF ClientSends
    <2> QED
      BY <2>1, <2>2 DEF PipeTypes
  <1>2. reset' \in [Sides -> BOOLEAN]
    <2>1. reset' = reset \/ reset' = [reset EXCEPT !["client"] = TRUE]
      BY DEF ClientSends
    <2> QED
      BY <2>1 DEF FlagTypes
  <1>3. interest' = interest \/ interest' = (interest /\ ~mark["client"])
    BY DEF ClientSends
  <1> QED
    BY <1>1, <1>2, <1>3, Zenon DEF FlagTypes

LEMMA ShutTypes ==
    ASSUME PipeTypes, FlagTypes, EndTypes, NEW s \in Sides, Shut(s)
    PROVE  /\ wire' \in [Sides -> Seq(Packets)] /\ reset' \in [Sides -> BOOLEAN]
           /\ sock' \in [Sides -> {"none", "open", "closed"}] /\ sock'["client"] # "none"
  <1>1. wire' \in [Sides -> Seq(Packets)]
    BY DEF Shut, PipeTypes
  <1>2. reset' \in [Sides -> BOOLEAN]
    BY SidesFacts DEF Shut, FlagTypes
  <1>3. sock' \in [Sides -> {"none", "open", "closed"}] /\ sock'["client"] # "none"
    BY SidesFacts DEF Shut, EndTypes
  <1> QED
    BY <1>1, <1>2, <1>3

LEMMA TakesTypes ==
    ASSUME PipeTypes, NEW ps, ServerTakes(ps) \/ ClientTakes(ps)
    PROVE  inq' \in [Sides -> Seq(Packets)]
  <1>1. \A s \in Sides : inq[s] # <<>> => Tail(inq[s]) \in Seq(Packets)
    BY DEF PipeTypes
  <1>2. \E s \in Sides : inq[s] # <<>> /\ inq' = [inq EXCEPT ![s] = Tail(inq[s])]
    BY SidesFacts DEF ServerTakes, ClientTakes
  <1> QED
    BY <1>1, <1>2 DEF PipeTypes

LEMMA PacketsFacts == /\ Hello \in Packets /\ SetType \in Packets /\ Handshake \in Packets
                      /\ Accepted \in Packets /\ CloseConn \in Packets
  BY DEF Packets

LEMMA PipeStep ==
    ASSUME TypeInv, Next
    PROVE  PipeTypes'
  <1> USE TypeInv DEF TypeInv
  <1>1. CASE Accept \/ (\E s \in Sides : NetRead(s) \/ NetEof(s) \/ Crash(s) \/ ResetArrives(s))
    <2>1. CASE Accept
      <3>1. <<Hello>> \in Seq(Packets)
        BY PacketsFacts
      <3> QED
        BY <2>1, <3>1 DEF Accept, PipeTypes
    <2>2. ASSUME NEW s \in Sides, NetRead(s) PROVE PipeTypes'
      <3>1. wire[s] \in Seq(Packets) /\ wire[s] # <<>> /\ inq[s] \in Seq(Packets)
        BY <2>2 DEF NetRead, PipeTypes
      <3>2. Tail(wire[s]) \in Seq(Packets) /\ Append(inq[s], Head(wire[s])) \in Seq(Packets)
        BY <3>1
      <3>3. /\ wire' = [wire EXCEPT ![s] = Tail(wire[s])] /\ UNCHANGED writeq
            /\ inq' = [inq EXCEPT ![s] = Append(inq[s], Head(wire[s]))]
        BY <2>2 DEF NetRead
      <3> QED
        BY <3>2, <3>3 DEF PipeTypes
    <2>3. ASSUME NEW s \in Sides, NetEof(s) PROVE PipeTypes'
      <3>1. wire' \in [Sides -> Seq(Packets)]
        BY <2>3, ShutTypes DEF NetEof, Close
      <3> QED
        BY <2>3, <3>1 DEF NetEof, PipeTypes
    <2>4. ASSUME NEW s \in Sides, Crash(s) PROVE PipeTypes'
      <3>1. wire' \in [Sides -> Seq(Packets)]
        BY <2>4, ShutTypes DEF Crash
      <3>2. inq' = [inq EXCEPT ![s] = <<>>] /\ UNCHANGED writeq /\ <<>> \in Seq(Packets)
        BY <2>4 DEF Crash
      <3> QED
        BY <3>1, <3>2 DEF PipeTypes
    <2>5. ASSUME NEW s \in Sides, ResetArrives(s) PROVE PipeTypes'
      BY <2>5 DEF ResetArrives, PipeTypes
    <2> QED
      BY <1>1, <2>1, <2>2, <2>3, <2>4, <2>5
  <1>2. CASE NetWrite
    <2>1. writeq # <<>> => Tail(writeq) \in Seq(Packets) /\ Head(writeq) \in Packets
      BY DEF PipeTypes
    <2>2. \A p \in Packets : Append(wire["client"], p) \in Seq(Packets)
      BY SidesFacts DEF PipeTypes
    <2>3. UNCHANGED inq /\ (UNCHANGED <<writeq, wire>> \/ (writeq # <<>> /\ writeq' = Tail(writeq)
             /\ (wire' = wire \/ wire' = [wire EXCEPT !["client"] = Append(wire["client"], Head(writeq))])))
      BY <1>2 DEF NetWrite
    <2> QED
      BY <2>1, <2>2, <2>3 DEF PipeTypes
  <1>3. CASE NetDrained \/ NetRetire \/ InitClassic \/ InitCustom \/ NotifyPong \/ WaitReturns
             \/ PingTimesOut \/ (\E t \in {"sproc", "sapp"} : ServerMark(t))
    <2>1. UNCHANGED <<inq, writeq>>
      BY <1>3 DEF NetDrained, NetRetire, InitClassic, InitCustom, NotifyPong, WaitReturns,
         PingTimesOut, ServerMark
    <2>2. UNCHANGED wire \/ Shut("server")
      BY <1>3 DEF NetDrained, NetRetire, InitClassic, InitCustom, NotifyPong, WaitReturns,
         PingTimesOut, ServerMark, Close
    <2> QED
      BY <2>1, <2>2, ShutTypes, SidesFacts DEF PipeTypes
  <1>4. CASE TakeStale \/ TakeSetType \/ TakeAccepted \/ ServerTakeCloseConn \/ ServerTakeUser
             \/ TakePing
    <2>1. inq' \in [Sides -> Seq(Packets)]
      BY <1>4, TakesTypes DEF TakeStale, TakeSetType, TakeAccepted, ServerTakeCloseConn,
         ServerTakeUser, TakePing
    <2>2. wire' \in [Sides -> Seq(Packets)]
      <3>1. UNCHANGED wire \/ Shut("server")
        BY <1>4 DEF TakeStale, TakeSetType, TakeAccepted, ServerTakeCloseConn, ServerTakeUser,
           TakePing, Close
      <3> QED
        BY <3>1, ShutTypes, SidesFacts DEF PipeTypes
    <2>3. writeq' \in Seq(Packets)
      <3>1. UNCHANGED writeq \/ \E p \in {Handshake, CloseConn} : ServerSends(p)
        BY <1>4 DEF TakeStale, TakeSetType, TakeAccepted, ServerTakeCloseConn, ServerTakeUser,
           TakePing
      <3> QED
        BY <3>1, ServerSendsTypes, PacketsFacts DEF PipeTypes
    <2> QED
      BY <2>1, <2>2, <2>3 DEF PipeTypes
  <1>5. CASE AnswerPing \/ ServerAppSends \/ ServerAppCloses
    <2>1. UNCHANGED <<inq, wire>>
      BY <1>5 DEF AnswerPing, ServerAppSends, ServerAppCloses
    <2>2. \E p \in Packets : ServerSends(p)
      BY <1>5, ServerIdsFacts, UserPackets, PacketsFacts DEF AnswerPing, ServerAppSends,
         ServerAppCloses, Common
    <2> QED
      BY <2>1, <2>2, ServerSendsTypes DEF PipeTypes
  <1>6. CASE TakeHello \/ TakeHandshake \/ ClientTakeCloseConn \/ ClientTakeUser \/ TakePong
    <2>1. inq' \in [Sides -> Seq(Packets)]
      BY <1>6, TakesTypes DEF TakeHello, TakeHandshake, ClientTakeCloseConn, ClientTakeUser, TakePong
    <2>2. wire' \in [Sides -> Seq(Packets)]
      <3>1. UNCHANGED wire \/ Shut("client")
            \/ \E p \in {SetType, Accepted, CloseConn} : ClientSends(p)
        BY <1>6 DEF TakeHello, TakeHandshake, ClientTakeCloseConn, ClientTakeUser, TakePong,
           ClientCloses, Close
      <3> QED
        BY <3>1, ShutTypes, ClientSendsTypes, SidesFacts, PacketsFacts DEF PipeTypes
    <2>3. UNCHANGED writeq
      BY <1>6 DEF TakeHello, TakeHandshake, ClientTakeCloseConn, ClientTakeUser, TakePong
    <2> QED
      BY <2>1, <2>2, <2>3 DEF PipeTypes
  <1>7. CASE InitPing \/ FinishPong \/ ClientAppSends \/ ClientAppCloses
    <2>1. UNCHANGED <<inq, writeq>>
      BY <1>7 DEF InitPing, FinishPong, ClientAppSends, ClientAppCloses
    <2>2. \E p \in Packets : ClientSends(p)
      BY <1>7, UserPackets, PacketsFacts DEF InitPing, FinishPong, ClientAppSends,
         ClientAppCloses, ClientCloses, Common, IdsInv
    <2> QED
      BY <2>1, <2>2, ClientSendsTypes DEF PipeTypes
  <1> QED
    BY <1>1, <1>2, <1>3, <1>4, <1>5, <1>6, <1>7, Steps

LEMMA EndStep ==
    ASSUME TypeInv, Next
    PROVE  EndTypes'
  <1> USE TypeInv DEF TypeInv, EndTypes
  <1>0. ASSUME NEW s \in Sides, Shut(s), state' = state \/ state' = [state EXCEPT ![s] = "closed"],
               UNCHANGED <<stype, pc, established>>
        PROVE  EndTypes'
    <2>1. sock' \in [Sides -> {"none", "open", "closed"}] /\ sock'["client"] # "none"
      BY <1>0, ShutTypes
    <2>2. /\ state' \in [Sides -> {"init", "hellowait", "waittype", "wait1", "active", "closed"}]
          /\ state'["server"] # "hellowait" /\ state'["client"] # "init"
      <3>1. CASE state' = [state EXCEPT ![s] = "closed"]
        BY <3>1, SidesFacts
      <3>2. CASE state' = state
        BY <3>2
      <3> QED
        BY <1>0, <3>1, <3>2
    <2> QED
      BY <1>0, <2>1, <2>2
  <1> USE SidesFacts
  <1>1. CASE \E s \in Sides : NetEof(s) \/ Crash(s)
    BY <1>0, <1>1 DEF NetEof, Crash, Close
  <1>2. CASE ServerTakeCloseConn \/ ClientTakeCloseConn
    BY <1>0, <1>2 DEF ServerTakeCloseConn, ClientTakeCloseConn, Close
  <1>3. CASE \E s \in Sides : NetRead(s) \/ ResetArrives(s)
    BY <1>3 DEF NetRead, ResetArrives
  <1>4. CASE Accept \/ NetWrite \/ NetDrained
    <2>1. pc' \in Pcs
      BY <1>4 DEF Accept, NetWrite, NetDrained, Pcs
    <2> QED
      BY <1>4, <2>1 DEF Accept, NetWrite, NetDrained
  <1>5. CASE NetRetire
    <2>1. pc' \in Pcs
      BY <1>5 DEF NetRetire, Pcs
    <2>2. sock' \in [Sides -> {"none", "open", "closed"}] /\ sock'["client"] # "none"
      <3>1. UNCHANGED sock \/ Shut("server")
        BY <1>5 DEF NetRetire, Close
      <3> QED
        BY <3>1, ShutTypes
    <2> QED
      BY <1>5, <2>1, <2>2 DEF NetRetire, Close
  <1>6. CASE TakeStale \/ TakeSetType \/ ServerTakeUser
    BY <1>6 DEF TakeStale, TakeSetType, ServerTakeUser, SetupTypes
  <1>7. CASE TakeAccepted \/ TakePing \/ AnswerPing \/ \E t \in {"sproc", "sapp"} : ServerMark(t)
    <2>1. pc' \in Pcs
      BY <1>7 DEF TakeAccepted, TakePing, AnswerPing, ServerMark, Pcs
    <2> QED
      BY <1>7, <2>1 DEF TakeAccepted, TakePing, AnswerPing, ServerMark
  <1>8. CASE TakeHello \/ InitClassic \/ InitPing \/ InitCustom \/ TakeHandshake
    <2>1. pc' \in Pcs
      BY <1>8 DEF TakeHello, InitClassic, InitPing, InitCustom, TakeHandshake, Pcs
    <2> QED
      BY <1>8, <2>1 DEF TakeHello, InitClassic, InitPing, InitCustom, TakeHandshake
  <1>9. CASE ClientTakeUser \/ TakePong \/ NotifyPong \/ FinishPong
    <2>1. pc' \in Pcs
      BY <1>9 DEF ClientTakeUser, TakePong, NotifyPong, FinishPong, Pcs
    <2> QED
      BY <1>9, <2>1 DEF ClientTakeUser, TakePong, NotifyPong, FinishPong
  <1>10. CASE WaitReturns \/ PingTimesOut \/ ClientAppSends \/ ClientAppCloses \/ ServerAppSends
              \/ ServerAppCloses
    <2>1. pc' \in Pcs
      BY <1>10 DEF WaitReturns, PingTimesOut, ClientAppSends, ClientAppCloses, ServerAppSends,
         ServerAppCloses, Pcs
    <2> QED
      BY <1>10, <2>1 DEF WaitReturns, PingTimesOut, ClientAppSends, ClientAppCloses,
         ServerAppSends, ServerAppCloses
  <1> QED
    BY <1>1, <1>2, <1>3, <1>4, <1>5, <1>6, <1>7, <1>8, <1>9, <1>10, Steps

LEMMA FlagStep ==
    ASSUME TypeInv, Next
    PROVE  FlagTypes'
  <1> USE TypeInv, SidesFacts DEF TypeInv
  <1>1. reset' \in [Sides -> BOOLEAN]
    <2>1. \/ UNCHANGED reset \/ (\E s \in Sides : Shut(s)) \/ (\E p \in Packets : ClientSends(p))
          \/ reset' = [reset EXCEPT !["server"] = TRUE]
      <3> USE DEF ClientCloses, Close
      <3>1. CASE Accept \/ \E s \in Sides : NetRead(s) \/ NetEof(s) \/ Crash(s) \/ ResetArrives(s)
        BY <3>1 DEF Accept, NetRead, NetEof, Crash, ResetArrives
      <3>2. CASE NetWrite \/ NetDrained \/ NetRetire \/ InitClassic \/ InitCustom \/ NotifyPong
                 \/ WaitReturns \/ PingTimesOut \/ (\E t \in {"sproc", "sapp"} : ServerMark(t))
        BY <3>2 DEF NetWrite, NetDrained, NetRetire, InitClassic, InitCustom, NotifyPong,
           WaitReturns, PingTimesOut, ServerMark
      <3>3. CASE TakeStale \/ TakeSetType \/ TakeAccepted \/ ServerTakeCloseConn \/ ServerTakeUser
                 \/ TakePing \/ AnswerPing \/ ServerAppSends \/ ServerAppCloses
        BY <3>3 DEF TakeStale, TakeSetType, TakeAccepted, ServerTakeCloseConn, ServerTakeUser,
           TakePing, AnswerPing, ServerAppSends, ServerAppCloses
      <3>4. CASE TakeHello \/ TakeHandshake \/ ClientTakeCloseConn \/ ClientTakeUser \/ TakePong
        BY <3>4, PacketsFacts DEF TakeHello, TakeHandshake, ClientTakeCloseConn, ClientTakeUser,
           TakePong
      <3>5. CASE InitPing \/ FinishPong \/ ClientAppSends \/ ClientAppCloses
        BY <3>5, PacketsFacts, UserPackets DEF InitPing, FinishPong, ClientAppSends,
           ClientAppCloses, Common, IdsInv
      <3> QED
        BY <3>1, <3>2, <3>3, <3>4, <3>5, Steps
    <2>2. \A s \in Sides : Shut(s) => reset' \in [Sides -> BOOLEAN]
      BY ShutTypes
    <2>3. \A p \in Packets : ClientSends(p) => reset' \in [Sides -> BOOLEAN]
      BY ClientSendsTypes
    <2> QED
      BY <2>1, <2>2, <2>3 DEF FlagTypes
  <1>2. alive' \in [Sides -> BOOLEAN]
    <2>1. UNCHANGED alive \/ \E s \in Sides : alive' = [alive EXCEPT ![s] = FALSE]
      BY Steps DEF Accept, NetRead, NetEof, Crash, ResetArrives, NetWrite, NetDrained, NetRetire,
         TakeStale, TakeSetType, TakeAccepted, ServerTakeCloseConn, ServerTakeUser, TakePing,
         AnswerPing, ServerMark, TakeHello, InitClassic, InitPing, InitCustom, TakeHandshake,
         ClientTakeCloseConn, ClientTakeUser, TakePong, NotifyPong, FinishPong, WaitReturns,
         PingTimesOut, ClientAppSends, ClientAppCloses, ServerAppSends, ServerAppCloses
    <2> QED
      BY <2>1 DEF FlagTypes
  <1>3. mark' \in [Sides -> BOOLEAN]
    <2>1. \/ UNCHANGED mark \/ (mark' = [mark EXCEPT !["client"] = TRUE])
          \/ mark' = [mark EXCEPT !["server"] = @ \/ sock["server"] = "open"]
      BY Steps DEF Accept, NetRead, NetEof, Crash, ResetArrives, NetWrite, NetDrained, NetRetire,
         TakeStale, TakeSetType, TakeAccepted, ServerTakeCloseConn, ServerTakeUser, TakePing,
         AnswerPing, ServerMark, TakeHello, InitClassic, InitPing, InitCustom, TakeHandshake,
         ClientTakeCloseConn, ClientTakeUser, TakePong, NotifyPong, FinishPong, WaitReturns,
         PingTimesOut, ClientAppSends, ClientAppCloses, ServerAppSends, ServerAppCloses,
         ClientCloses
    <2> QED
      BY <2>1 DEF FlagTypes
  <1>4. armed' \in BOOLEAN
    <2>1. UNCHANGED armed \/ armed' = TRUE \/ armed' = FALSE
      BY Steps DEF Accept, NetRead, NetEof, Crash, ResetArrives, NetWrite, NetDrained, NetRetire,
         TakeStale, TakeSetType, TakeAccepted, ServerTakeCloseConn, ServerTakeUser, TakePing,
         AnswerPing, ServerMark, TakeHello, InitClassic, InitPing, InitCustom, TakeHandshake,
         ClientTakeCloseConn, ClientTakeUser, TakePong, NotifyPong, FinishPong, WaitReturns,
         PingTimesOut, ClientAppSends, ClientAppCloses, ServerAppSends, ServerAppCloses,
         ServerSends
    <2> QED
      BY <2>1, Zenon DEF FlagTypes
  <1>5. interest' \in BOOLEAN
    <2>1. UNCHANGED interest \/ interest' = (interest /\ ~mark["client"])
      BY Steps DEF Accept, NetRead, NetEof, Crash, ResetArrives, NetWrite, NetDrained, NetRetire,
         TakeStale, TakeSetType, TakeAccepted, ServerTakeCloseConn, ServerTakeUser, TakePing,
         AnswerPing, ServerMark, TakeHello, InitClassic, InitPing, InitCustom, TakeHandshake,
         ClientTakeCloseConn, ClientTakeUser, TakePong, NotifyPong, FinishPong, WaitReturns,
         PingTimesOut, ClientAppSends, ClientAppCloses, ServerAppSends, ServerAppCloses,
         ClientCloses, ClientSends
    <2> QED
      BY <2>1, Zenon DEF FlagTypes
  <1>6. /\ UNCHANGED data \/ data' = TRUE
        /\ UNCHANGED pong \/ pong' = TRUE
        /\ UNCHANGED bye \/ bye' = TRUE
        /\ UNCHANGED heard \/ heard' = TRUE
    BY Steps DEF Accept, NetRead, NetEof, Crash, ResetArrives, NetWrite, NetDrained, NetRetire,
       TakeStale, TakeSetType, TakeAccepted, ServerTakeCloseConn, ServerTakeUser, TakePing,
       AnswerPing, ServerMark, TakeHello, InitClassic, InitPing, InitCustom, TakeHandshake,
       ClientTakeCloseConn, ClientTakeUser, TakePong, NotifyPong, FinishPong, WaitReturns,
       PingTimesOut, ClientAppSends, ClientAppCloses, ServerAppSends, ServerAppCloses
  <1>7. data' \in BOOLEAN /\ pong' \in BOOLEAN /\ bye' \in BOOLEAN /\ heard' \in BOOLEAN
    BY <1>6, Zenon DEF FlagTypes
  <1> QED
    BY <1>1, <1>2, <1>3, <1>4, <1>5, <1>7 DEF FlagTypes

LEMMA RestStep ==
    ASSUME TypeInv, Next
    PROVE  SetupTypes' /\ CallTypes' /\ IdsInv'
  <1> USE TypeInv DEF TypeInv
  <1>1. SetupTypes'
    <2>1. UNCHANGED setup
      BY Steps DEF Accept, NetRead, NetEof, Crash, ResetArrives, NetWrite, NetDrained, NetRetire,
         TakeStale, TakeSetType, TakeAccepted, ServerTakeCloseConn, ServerTakeUser, TakePing,
         AnswerPing, ServerMark, TakeHello, InitClassic, InitPing, InitCustom, TakeHandshake,
         ClientTakeCloseConn, ClientTakeUser, TakePong, NotifyPong, FinishPong, WaitReturns,
         PingTimesOut, ClientAppSends, ClientAppCloses, ServerAppSends, ServerAppCloses
    <2> QED
      BY <2>1 DEF SetupTypes
  <1>2. CallTypes'
    <2>1. UNCHANGED calls \/ \E s \in Sides : MayCall(s) /\ Called(s)
      BY Steps, SidesFacts DEF Accept, NetRead, NetEof, Crash, ResetArrives, NetWrite, NetDrained,
         NetRetire, TakeStale, TakeSetType, TakeAccepted, ServerTakeCloseConn, ServerTakeUser,
         TakePing, AnswerPing, ServerMark, TakeHello, InitClassic, InitPing, InitCustom,
         TakeHandshake, ClientTakeCloseConn, ClientTakeUser, TakePong, NotifyPong, FinishPong,
         WaitReturns, PingTimesOut, ClientAppSends, ClientAppCloses, ServerAppSends, ServerAppCloses
    <2>2. ASSUME NEW s \in Sides, MayCall(s), Called(s) PROVE CallTypes'
      <3>1. calls[s] < MaxCalls[s] /\ MaxCalls[s] \in Nat
        BY <2>2, SessionAssumption DEF MayCall
      <3> QED
        BY <2>2, <3>1 DEF Called, CallTypes
    <2> QED
      BY <2>1, <2>2 DEF CallTypes
  <1>3. IdsInv'
    <2>1. UNCHANGED ids \/ ids' = Synced
      BY Steps DEF Accept, NetRead, NetEof, Crash, ResetArrives, NetWrite, NetDrained, NetRetire,
         TakeStale, TakeSetType, TakeAccepted, ServerTakeCloseConn, ServerTakeUser, TakePing,
         AnswerPing, ServerMark, TakeHello, InitClassic, InitPing, InitCustom, TakeHandshake,
         ClientTakeCloseConn, ClientTakeUser, TakePong, NotifyPong, FinishPong, WaitReturns,
         PingTimesOut, ClientAppSends, ClientAppCloses, ServerAppSends, ServerAppCloses
    <2>2. CASE ids' = Synced
      BY <2>2, ServerIdsFacts DEF Synced, IdsInv, OneToOne
    <2> QED
      BY <2>1, <2>2 DEF IdsInv
  <1> QED
    BY <1>1, <1>2, <1>3

LEMMA TypeStep == TypeInv /\ [Next]_vars => TypeInv'
  <1>1. ASSUME TypeInv, UNCHANGED vars PROVE TypeInv'
    BY <1>1 DEF vars, TypeInv, SetupTypes, PipeTypes, EndTypes, FlagTypes, CallTypes, IdsInv
  <1>2. ASSUME TypeInv, Next PROVE TypeInv'
    BY <1>2, PipeStep, EndStep, FlagStep, RestStep DEF TypeInv
  <1> QED
    BY <1>1, <1>2

LEMMA TypeAlways == Spec => []TypeInv
  BY TypeInit, TypeStep, PTL DEF Spec

\* Every variable of both ends keeps its type, for any registries, connection
\* types and bounds; that the client's names stay one-to-one rests on the server's
\* IDs not clashing with others of the client.
THEOREM TypeCorrect == Spec => []TypeOK
  <1>1. TypeInv => TypeOK
    BY DEF TypeInv, SetupTypes, PipeTypes, EndTypes, FlagTypes, CallTypes, IdsInv, TypeOK, Pcs, Sides
  <1> QED
    BY <1>1, TypeAlways, PTL

-----------------------------------------------------------------------------
(* What pingServer finds when it is answered *)

\* The proc thread notifies after on_pong, and wait_for_pong returns after that.
PongInv == /\ AnsweredHasData
           /\ pong => data
           /\ pc.cproc = "pong" => data

LEMMA PongStep == TypeInv /\ PongInv /\ [Next]_vars => PongInv'
  <1> SUFFICES ASSUME TypeInv, PongInv, [Next]_vars PROVE PongInv'
    OBVIOUS
  <1> USE DEF TypeInv, EndTypes, Pcs
  <1>1. CASE UNCHANGED vars
    BY <1>1 DEF vars, PongInv, AnsweredHasData
  <1>2. ASSUME Next
        PROVE  /\ data => data'
               /\ pong' => pong \/ pc.cproc = "pong"
               /\ pc'.cproc = "pong" => pc.cproc = "pong" \/ data'
               /\ pc'.capp = "answered" => pc.capp = "answered" \/ pong
    <2>1. CASE Accept \/ NetWrite \/ NetDrained \/ NetRetire
               \/ (\E s \in Sides : NetRead(s) \/ NetEof(s) \/ Crash(s) \/ ResetArrives(s))
      BY <2>1 DEF Accept, NetWrite, NetDrained, NetRetire, NetRead, NetEof, Crash, ResetArrives
    <2>2. CASE TakeStale \/ TakeSetType \/ TakeAccepted \/ ServerTakeCloseConn \/ ServerTakeUser
               \/ TakePing \/ AnswerPing \/ (\E t \in {"sproc", "sapp"} : ServerMark(t))
      BY <2>2 DEF TakeStale, TakeSetType, TakeAccepted, ServerTakeCloseConn, ServerTakeUser,
         TakePing, AnswerPing, ServerMark
    <2>3. CASE TakeHello \/ InitClassic \/ InitPing \/ InitCustom \/ TakeHandshake
               \/ ClientTakeCloseConn \/ ClientTakeUser
      BY <2>3 DEF TakeHello, InitClassic, InitPing, InitCustom, TakeHandshake,
         ClientTakeCloseConn, ClientTakeUser
    <2>4. CASE TakePong \/ NotifyPong \/ FinishPong
      BY <2>4 DEF TakePong, NotifyPong, FinishPong
    <2>5. CASE WaitReturns \/ PingTimesOut \/ ClientAppSends \/ ClientAppCloses
               \/ ServerAppSends \/ ServerAppCloses
      BY <2>5 DEF WaitReturns, PingTimesOut, ClientAppSends, ClientAppCloses, ServerAppSends,
         ServerAppCloses
    <2> QED
      BY <1>2, <2>1, <2>2, <2>3, <2>4, <2>5, Steps
  <1> QED
    BY <1>1, <1>2 DEF PongInv, AnsweredHasData

\* pingServer never finds the answer without its data: on_pong has run before
\* wait_for_pong can return, whatever the server and the network do.
THEOREM PongHasData == Spec => []AnsweredHasData
  <1>1. Init => PongInv
    BY DEF Init, PongInv, AnsweredHasData
  <1>2. PongInv => AnsweredHasData
    BY DEF PongInv
  <1> QED
    BY <1>1, <1>2, PongStep, TypeAlways, PTL DEF Spec

-----------------------------------------------------------------------------
(* The reason of a closing server *)

In(p, q) == \E i \in 1..Len(q) : q[i] = p

LEMMA InAppend ==
    ASSUME NEW S, NEW q \in Seq(S), NEW r \in S, NEW p
    PROVE  In(p, Append(q, r)) <=> In(p, q) \/ p = r
  <1>1. Len(Append(q, r)) = Len(q) + 1 /\ Len(q) \in Nat
    OBVIOUS
  <1>2. \A i \in 1..Len(q) : Append(q, r)[i] = q[i]
    OBVIOUS
  <1>3. Append(q, r)[Len(q) + 1] = r
    OBVIOUS
  <1> QED
    BY <1>1, <1>2, <1>3 DEF In

LEMMA InTail ==
    ASSUME NEW S, NEW q \in Seq(S), q # <<>>, NEW p
    PROVE  In(p, q) <=> In(p, Tail(q)) \/ p = Head(q)
  <1>1. Len(Tail(q)) = Len(q) - 1 /\ Len(q) \in Nat /\ Len(q) > 0 /\ Head(q) = q[1]
    OBVIOUS
  <1>2. \A i \in 1..Len(Tail(q)) : Tail(q)[i] = q[i + 1]
    OBVIOUS
  <1>3. ASSUME NEW i \in 1..Len(q), q[i] = p PROVE In(p, Tail(q)) \/ p = Head(q)
    <2>1. CASE i = 1
      BY <1>1, <1>3, <2>1
    <2>2. CASE i # 1
      <3>1. i - 1 \in 1..Len(Tail(q)) /\ (i - 1) + 1 = i
        BY <1>1, <2>2
      <3> QED
        BY <1>2, <1>3, <3>1 DEF In
    <2> QED
      BY <2>1, <2>2
  <1>4. ASSUME In(p, Tail(q)) PROVE In(p, q)
    <2>1. PICK i \in 1..Len(Tail(q)) : Tail(q)[i] = p
      BY <1>4 DEF In
    <2>2. i + 1 \in 1..Len(q) /\ q[i + 1] = p
      BY <1>1, <1>2, <2>1
    <2> QED
      BY <2>2 DEF In
  <1>5. p = Head(q) => In(p, q)
    BY <1>1 DEF In
  <1> QED
    BY <1>3, <1>4, <1>5 DEF In

LEMMA InEmpty == \A p : ~In(p, <<>>)
  BY DEF In

\* The client has the reason, or will read it.
Told == heard \/ In(CloseConn, wire["client"]) \/ In(CloseConn, inq["client"])
\* It will read nothing more, or TCP may have dropped what it has not read.
Lost == sock["client"] # "open" \/ reset["client"]
\* The mark is set, or a thread is about to set it.
Marking == mark["server"] \/ pc.sapp = "mark" \/ pc.sproc = "mark"

\* The reason is ahead of the mark: queued before it is set, sent before the
\* server closes because of it.
ReasonInv == /\ bye /\ ~Lost => Told
             /\ Marking /\ sock["server"] # "closed" /\ ~Lost
                   => Told \/ In(CloseConn, writeq)
             /\ sock["server"] = "none" => ~Marking

LEMMA CodesDiffer == /\ CloseConn \notin {Hello, SetType, Handshake, Accepted, Ping, Pong}
                     /\ CloseConn \notin UserIds
  BY DEF CloseConn, Hello, SetType, Handshake, Accepted, Ping, Pong, UserIds

\* What the reason of the server goes through: nothing but TCP loses it.
Keeps == /\ Lost => Lost'
         /\ ~Lost' => (Told => Told')
         /\ ~Lost' /\ sock["server"] # "none" =>
               (In(CloseConn, writeq) => Told' \/ In(CloseConn, writeq'))

LEMMA KeepsSame ==
    ASSUME UNCHANGED <<sock, wire, inq, writeq, heard, reset>>
    PROVE  Keeps
  BY DEF Keeps, Lost, Told

LEMMA KeepsQueued ==
    ASSUME TypeInv, NEW p \in Packets, ServerSends(p), UNCHANGED <<sock, wire, heard, reset>>,
           inq'["client"] = inq["client"]
    PROVE  /\ Keeps
           /\ sock["server"] = "open" => In(p, writeq')
  <1>1. \A r : In(r, Append(writeq, p)) <=> In(r, writeq) \/ r = p
    BY InAppend DEF TypeInv, PipeTypes
  <1> QED
    BY <1>1 DEF Keeps, Lost, Told, ServerSends

LEMMA KeepsSent ==
    ASSUME TypeInv, NEW p \in Packets, ClientSends(p), UNCHANGED <<sock, writeq, heard>>,
           inq'["client"] = inq["client"]
    PROVE  Keeps
  <1>1. wire'["client"] = wire["client"]
    BY SidesFacts DEF ClientSends, TypeInv, PipeTypes
  <1>2. reset["client"] => reset'["client"]
    BY SidesFacts DEF ClientSends, TypeInv, FlagTypes
  <1> QED
    BY <1>1, <1>2 DEF Keeps, Lost, Told

LEMMA KeepsShut ==
    ASSUME TypeInv, NEW s \in Sides, Shut(s), UNCHANGED <<writeq, heard>>,
           s = "server" => inq'["client"] = inq["client"]
    PROVE  Keeps
  <1>1. CASE s = "client"
    <2>1. sock'["client"] = "closed"
      BY <1>1, SidesFacts DEF Shut, TypeInv, EndTypes
    <2> QED
      BY <2>1 DEF Keeps, Lost
  <1>2. CASE s = "server"
    <2>1. wire'["client"] = wire["client"] /\ sock'["client"] = sock["client"]
      BY <1>2, SidesFacts DEF Shut, TypeInv, EndTypes, PipeTypes
    <2>2. reset["client"] => reset'["client"]
      BY <1>2, SidesFacts DEF Shut, TypeInv, FlagTypes
    <2> QED
      BY <1>2, <2>1, <2>2 DEF Keeps, Lost, Told
  <1> QED
    BY <1>1, <1>2 DEF Sides

\* The client's proc thread takes a packet, not the reason.
LEMMA TakesKeep ==
    ASSUME TypeInv, NEW ps, ClientTakes(ps), CloseConn \notin ps
    PROVE  In(CloseConn, inq["client"]) => In(CloseConn, inq'["client"])
  <1>1. inq["client"] \in Seq(Packets) /\ inq["client"] # <<>>
        /\ inq'["client"] = Tail(inq["client"]) /\ Head(inq["client"]) \in ps
    BY SidesFacts DEF ClientTakes, First, TypeInv, PipeTypes
  <1> QED
    BY <1>1, InTail

LEMMA KeepsStep ==
    ASSUME TypeInv, Next
    PROVE  Keeps
  <1> USE SidesFacts
  <1>1. CASE Accept
    BY <1>1 DEF Accept, Keeps, Lost, Told, TypeInv, EndTypes
  <1>2. ASSUME NEW s \in Sides, NetRead(s) PROVE Keeps
    <2>1. inq[s] \in Seq(Packets) /\ wire[s] \in Seq(Packets) /\ wire[s] # <<>>
          /\ Head(wire[s]) \in Packets
      BY <1>2 DEF NetRead, TypeInv, PipeTypes
    <2>2. In(CloseConn, wire[s]) \/ In(CloseConn, inq[s])
             => In(CloseConn, Tail(wire[s])) \/ In(CloseConn, Append(inq[s], Head(wire[s])))
      BY <2>1, InAppend, InTail
    <2> QED
      BY <1>2, <2>2 DEF NetRead, Keeps, Lost, Told, TypeInv, PipeTypes
  <1>3. ASSUME NEW s \in Sides, NetEof(s) PROVE Keeps
    BY <1>3, KeepsShut DEF NetEof, Close
  <1>4. ASSUME NEW s \in Sides, Crash(s) PROVE Keeps
    BY <1>4, KeepsShut DEF Crash, TypeInv, PipeTypes
  <1>5. ASSUME NEW s \in Sides, ResetArrives(s) PROVE Keeps
    <2>1. s = "client" => Lost'
      BY <1>5 DEF ResetArrives, Lost
    <2>2. s # "client" => wire'["client"] = wire["client"]
      BY <1>5 DEF ResetArrives, TypeInv, PipeTypes
    <2> QED
      BY <1>5, <2>1, <2>2 DEF ResetArrives, Keeps, Lost, Told
  <1>6. CASE NetWrite
    <2>1. UNCHANGED <<sock, inq, heard>> /\ reset'["client"] = reset["client"]
      BY <1>6 DEF NetWrite, TypeInv, FlagTypes
    <2>2. CASE writeq = <<>>
      BY <1>6, <2>1, <2>2 DEF NetWrite, Keeps, Lost, Told
    <2>3. CASE writeq # <<>> /\ sock["client"] = "open"
      <3>1. writeq \in Seq(Packets) /\ wire["client"] \in Seq(Packets) /\ Head(writeq) \in Packets
        BY <2>3 DEF TypeInv, PipeTypes
      <3>2. writeq' = Tail(writeq) /\ wire'["client"] = Append(wire["client"], Head(writeq))
        BY <1>6, <2>3 DEF NetWrite, TypeInv, PipeTypes
      <3> QED
        BY <2>1, <2>3, <3>1, <3>2, InTail, InAppend DEF Keeps, Lost, Told
    <2> QED
      BY <2>1, <2>2, <2>3 DEF Keeps, Lost
  <1>7. CASE NetDrained \/ InitClassic \/ InitCustom \/ NotifyPong \/ WaitReturns
             \/ PingTimesOut \/ (\E t \in {"sproc", "sapp"} : ServerMark(t))
    BY <1>7, KeepsSame DEF NetDrained, InitClassic, InitCustom, NotifyPong, WaitReturns,
       PingTimesOut, ServerMark
  <1>8. CASE NetRetire
    BY <1>8, KeepsSame, KeepsShut DEF NetRetire, Close
  <1>9. CASE TakeStale \/ TakeSetType \/ TakeAccepted \/ ServerTakeCloseConn \/ ServerTakeUser
             \/ TakePing
    <2>1. inq'["client"] = inq["client"]
      BY <1>9 DEF TakeStale, TakeSetType, TakeAccepted, ServerTakeCloseConn, ServerTakeUser,
         TakePing, ServerTakes, TypeInv, PipeTypes
    <2>2. UNCHANGED heard
      BY <1>9 DEF TakeStale, TakeSetType, TakeAccepted, ServerTakeCloseConn, ServerTakeUser,
         TakePing
    <2>3. CASE ServerTakeCloseConn
      BY <2>1, <2>3, KeepsShut DEF ServerTakeCloseConn, Close
    <2>4. CASE ~ServerTakeCloseConn
      <3>1. UNCHANGED <<sock, wire, reset>>
        BY <1>9, <2>4 DEF TakeStale, TakeSetType, TakeAccepted, ServerTakeUser, TakePing
      <3>2. UNCHANGED writeq \/ \E p \in {Handshake, CloseConn} : ServerSends(p)
        BY <1>9, <2>4 DEF TakeStale, TakeSetType, TakeAccepted, ServerTakeUser, TakePing
      <3>3. CASE UNCHANGED writeq
        BY <2>1, <2>2, <3>1, <3>3 DEF Keeps, Lost, Told
      <3> QED
        BY <2>1, <2>2, <3>1, <3>2, <3>3, KeepsQueued, PacketsFacts
    <2> QED
      BY <2>3, <2>4
  <1>10. CASE AnswerPing \/ ServerAppSends \/ ServerAppCloses
    <2>1. UNCHANGED <<sock, wire, inq, heard, reset>>
      BY <1>10 DEF AnswerPing, ServerAppSends, ServerAppCloses
    <2>2. \E p \in Packets : ServerSends(p)
      BY <1>10, ServerIdsFacts, UserPackets, PacketsFacts DEF AnswerPing, ServerAppSends,
         ServerAppCloses, Common
    <2> QED
      BY <2>1, <2>2, KeepsQueued
  <1>11. CASE TakeHello \/ TakeHandshake \/ ClientTakeUser \/ TakePong
    <2>1. In(CloseConn, inq["client"]) => In(CloseConn, inq'["client"])
      BY <1>11, TakesKeep, CodesDiffer DEF TakeHello, TakeHandshake, ClientTakeUser, TakePong
    <2>2. UNCHANGED <<sock, heard, writeq>>
      BY <1>11 DEF TakeHello, TakeHandshake, ClientTakeUser, TakePong
    <2>3. UNCHANGED <<wire, reset>> \/ \E p \in Packets : ClientSends(p)
      BY <1>11, PacketsFacts DEF TakeHello, TakeHandshake, ClientTakeUser, TakePong, ClientCloses
    <2>4. wire'["client"] = wire["client"] /\ (reset["client"] => reset'["client"])
      BY <2>3 DEF ClientSends, TypeInv, PipeTypes, FlagTypes
    <2> QED
      BY <2>1, <2>2, <2>4 DEF Keeps, Lost, Told
  <1>12. CASE ClientTakeCloseConn
    BY <1>12, KeepsShut DEF ClientTakeCloseConn, Close, Keeps, Lost, Shut, TypeInv, EndTypes
  <1>13. CASE InitPing \/ FinishPong \/ ClientAppSends \/ ClientAppCloses
    <2>1. UNCHANGED <<sock, inq, heard, writeq>>
      BY <1>13 DEF InitPing, FinishPong, ClientAppSends, ClientAppCloses
    <2>2. \E p \in Packets : ClientSends(p)
      BY <1>13, UserPackets, PacketsFacts DEF InitPing, FinishPong, ClientAppSends,
         ClientAppCloses, ClientCloses, Common, TypeInv, IdsInv
    <2> QED
      BY <2>1, <2>2, KeepsSent
  <1> QED
    BY <1>1, <1>2, <1>3, <1>4, <1>5, <1>6, <1>7, <1>8, <1>9, <1>10, <1>11, <1>12, <1>13, Steps

LEMMA ReasonStep == TypeInv /\ ReasonInv /\ [Next]_vars => ReasonInv'
  <1> SUFFICES ASSUME TypeInv, ReasonInv, [Next]_vars PROVE ReasonInv'
    OBVIOUS
  <1> USE SidesFacts
  <1>1. CASE UNCHANGED vars
    BY <1>1 DEF vars, ReasonInv, Lost, Told, Marking
  <1>2. ASSUME Next
        PROVE  bye' => bye \/ (Marking /\ sock["server"] = "open" /\ writeq = <<>>)
    BY <1>2, Steps DEF Accept, NetRead, NetEof, Crash, ResetArrives, NetWrite, NetDrained,
       NetRetire, TakeStale, TakeSetType, TakeAccepted, ServerTakeCloseConn, ServerTakeUser,
       TakePing, AnswerPing, ServerMark, TakeHello, InitClassic, InitPing, InitCustom,
       TakeHandshake, ClientTakeCloseConn, ClientTakeUser, TakePong, NotifyPong, FinishPong,
       WaitReturns, PingTimesOut, ClientAppSends, ClientAppCloses, ServerAppSends,
       ServerAppCloses, Marking
  <1>3. ASSUME Next
        PROVE  /\ sock'["server"] = "none" => sock["server"] = "none"
               /\ sock["server"] = "closed" => sock'["server"] = "closed"
               /\ sock["server"] = "none" => ~Marking'
               /\ Marking' /\ sock["server"] = "open" => Marking \/ In(CloseConn, writeq')
    <2> USE DEF TypeInv, EndTypes, FlagTypes, Pcs, Marking, ReasonInv
    <2>1. CASE Accept \/ NetWrite \/ NetDrained \/ NetRetire
      BY <1>3, <2>1 DEF Accept, NetWrite, NetDrained, NetRetire, Close, Shut
    <2>2. CASE \E s \in Sides : NetRead(s) \/ NetEof(s) \/ Crash(s) \/ ResetArrives(s)
      BY <1>3, <2>2 DEF NetRead, NetEof, Crash, ResetArrives, Close, Shut
    <2>3. CASE TakeStale \/ TakeSetType \/ ServerTakeCloseConn \/ ServerTakeUser
               \/ TakePing \/ AnswerPing
      BY <1>3, <2>3 DEF TakeStale, TakeSetType, ServerTakeCloseConn, ServerTakeUser,
         TakePing, AnswerPing, Close, Shut
    <2>4. CASE TakeAccepted \/ ServerAppCloses
      <3>1. UNCHANGED sock /\ sock["server"] = "open"
        BY <2>4 DEF TakeAccepted, ServerAppCloses
      <3>2. ServerSends(CloseConn) \/ UNCHANGED <<pc, mark>>
        BY <2>4 DEF TakeAccepted, ServerAppCloses
      <3>3. CASE ServerSends(CloseConn)
        <4>1. In(CloseConn, Append(writeq, CloseConn))
          BY InAppend, PacketsFacts DEF PipeTypes
        <4>2. writeq' = Append(writeq, CloseConn)
          BY <3>1, <3>3 DEF ServerSends
        <4> HIDE DEF Marking, TypeInv
        <4> QED
          BY <3>1, <4>1, <4>2
      <3>4. CASE UNCHANGED <<pc, mark>>
        <4>1. Marking' => Marking
          BY <3>4, Zenon
        <4> QED
          BY <3>1, <4>1
      <3> QED
        BY <3>2, <3>3, <3>4
    <2>5. ASSUME NEW t \in {"sproc", "sapp"}, ServerMark(t)
          PROVE  UNCHANGED sock /\ (Marking' => Marking)
      BY <2>5 DEF ServerMark
    <2>6. CASE TakeHello \/ InitClassic \/ InitPing \/ InitCustom \/ TakeHandshake
      BY <1>3, <2>6 DEF TakeHello, InitClassic, InitPing, InitCustom, TakeHandshake, ClientCloses
    <2>7. CASE ClientTakeCloseConn \/ ClientTakeUser \/ TakePong \/ NotifyPong \/ FinishPong
      BY <1>3, <2>7 DEF ClientTakeCloseConn, ClientTakeUser, TakePong, NotifyPong, FinishPong,
         ClientCloses, Close, Shut
    <2>8. CASE WaitReturns \/ PingTimesOut \/ ClientAppSends \/ ClientAppCloses \/ ServerAppSends
      BY <1>3, <2>8 DEF WaitReturns, PingTimesOut, ClientAppSends, ClientAppCloses,
         ServerAppSends, ClientCloses
    <2> QED
      BY <1>3, <2>1, <2>2, <2>3, <2>4, <2>5, <2>6, <2>7, <2>8, Steps
  <1>4. ASSUME Next PROVE ReasonInv'
    <2>1. sock["server"] \in {"none", "open", "closed"}
      BY DEF TypeInv, EndTypes
    <2> QED
      BY <1>2, <1>3, <1>4, <2>1, KeepsStep, InEmpty DEF ReasonInv, Keeps
  <1> QED
    BY <1>1, <1>4

\* close_connection at the server loses no reason: when the server has closed
\* because of its mark, the client has the reason or will read it, unless its own
\* socket is closed or TCP has dropped what it had not read.
THEOREM ReasonReaches == Spec => []ReasonArrives
  <1>1. Init => ReasonInv
    BY SidesFacts DEF Init, ReasonInv, Marking
  <1>2. ReasonInv => ReasonArrives
    BY DEF ReasonInv, ReasonArrives, Told, Lost, In
  <1> QED
    BY <1>1, <1>2, ReasonStep, TypeAlways, PTL DEF Spec

-----------------------------------------------------------------------------
(* The ends, each on its own *)

Is(s) == s \in established

\* Where the client is in the handshake, and what it has told its application.
ClientEnd ==
    /\ state["client"] = "closed" => sock["client"] = "closed"
    /\ state["client"] = "hellowait" => ~Is("client") /\ pc.cproc # "init"
    /\ state["client"] = "wait1" => ~Is("client") /\ target = "classic"
    /\ state["client"] = "active" => Is("client")
    /\ pc.cproc = "init" => (Is("client") <=> target = "ping")
    /\ pc.capp = "ready" => target # "ping" /\ (Is("client") \/ sock["client"] = "closed")
    /\ Is("client") /\ target # "ping" =>
          target = "classic" /\ \A n \in DOMAIN ids \cap DOMAIN ServerIds : ids[n] = ServerIds[n]

\* Where the server is.
ServerEnd ==
    /\ state["server"] = "closed" => sock["server"] = "closed"
    /\ sock["server"] = "none" => state["server"] = "init" /\ writeq = <<>>
    /\ sock["server"] = "open" => state["server"] # "init"
    /\ Is("server") => state["server"] \in {"active", "closed"}
    /\ state["server"] = "active" => Is("server")
    /\ state["server"] \in {"wait1", "active"} => stype = target
    /\ stype # "notset" => stype = target /\ target \in types
    /\ stype = "ping" => Is("server")
    /\ pc.sproc = "answer" => stype = "ping"
    /\ sock["server"] = "open" /\ target = "ping" => state["server"] \in {"waittype", "active"}

\* TCP refuses packets on behalf of an end that is closed.
RefusedByClosed == \A s \in Sides : reset[s] => sock[Other(s)] = "closed"

EndInv == ClientEnd /\ ServerEnd /\ RefusedByClosed

LEMMA Targeted == TypeInv => /\ target \in {"classic", "ping", "custom"}
                             /\ target \in types => target \in {"classic", "ping"}
  BY SessionAssumption DEF TypeInv, SetupTypes

LEMMA SetupSame ==
    ASSUME Next
    PROVE  UNCHANGED setup
  BY Steps DEF Accept, NetRead, NetEof, Crash, ResetArrives, NetWrite, NetDrained, NetRetire,
     TakeStale, TakeSetType, TakeAccepted, ServerTakeCloseConn, ServerTakeUser, TakePing,
     AnswerPing, ServerMark, TakeHello, InitClassic, InitPing, InitCustom, TakeHandshake,
     ClientTakeCloseConn, ClientTakeUser, TakePong, NotifyPong, FinishPong, WaitReturns,
     PingTimesOut, ClientAppSends, ClientAppCloses, ServerAppSends, ServerAppCloses

LEMMA EndInit == Init => EndInv
  BY SidesFacts DEF Init, EndInv, ClientEnd, ServerEnd, RefusedByClosed, Is

LEMMA ClientEndStep ==
    ASSUME TypeInv, ClientEnd, Next
    PROVE  ClientEnd'
  <1> USE TypeInv, ClientEnd, SidesFacts DEF ClientEnd, TypeInv, EndTypes, Pcs, Is
  <1>1. CASE Accept \/ NetWrite \/ NetDrained \/ NetRetire
             \/ (\E s \in Sides : NetRead(s) \/ NetEof(s) \/ Crash(s) \/ ResetArrives(s))
    BY <1>1 DEF Accept, NetWrite, NetDrained, NetRetire, NetRead, NetEof, Crash, ResetArrives,
       Close, Shut
  <1>2. CASE TakeStale \/ TakeSetType \/ TakeAccepted \/ ServerTakeCloseConn \/ ServerTakeUser
             \/ TakePing \/ AnswerPing \/ (\E t \in {"sproc", "sapp"} : ServerMark(t))
    BY <1>2 DEF TakeStale, TakeSetType, TakeAccepted, ServerTakeCloseConn, ServerTakeUser,
       TakePing, AnswerPing, ServerMark, Close, Shut
  <1>3. CASE TakeHello
    BY <1>3 DEF TakeHello, ClientTakes, ClientCloses
  <1>4. CASE InitClassic \/ InitPing \/ InitCustom
    BY <1>4 DEF InitClassic, InitPing, InitCustom
  <1>5. CASE TakeHandshake
    BY <1>5 DEF TakeHandshake, ClientTakes, ClientCloses, Synced
  <1>6. CASE ClientTakeCloseConn \/ ClientTakeUser \/ TakePong \/ NotifyPong \/ FinishPong
    BY <1>6 DEF ClientTakeCloseConn, ClientTakeUser, TakePong, NotifyPong, FinishPong, Close, Shut
  <1>7. CASE WaitReturns \/ PingTimesOut \/ ClientAppSends \/ ClientAppCloses
             \/ ServerAppSends \/ ServerAppCloses
    BY <1>7 DEF WaitReturns, PingTimesOut, ClientAppSends, ClientAppCloses, ServerAppSends,
       ServerAppCloses
  <1> QED
    BY <1>1, <1>2, <1>3, <1>4, <1>5, <1>6, <1>7, Steps

LEMMA ServerEndStep ==
    ASSUME TypeInv, ServerEnd, Next
    PROVE  ServerEnd'
  <1> USE TypeInv, ServerEnd, SidesFacts DEF ServerEnd, TypeInv, EndTypes, Pcs, Is
  <1>1. CASE Accept \/ NetWrite \/ NetDrained
    BY <1>1 DEF Accept, NetWrite, NetDrained
  <1>2. CASE NetRetire \/ (\E s \in Sides : NetRead(s) \/ NetEof(s) \/ Crash(s) \/ ResetArrives(s))
    BY <1>2 DEF NetRetire, NetRead, NetEof, Crash, ResetArrives, Close, Shut
  <1>3. CASE TakeSetType
    BY <1>3, Targeted DEF TakeSetType
  <1>4. CASE TakeStale \/ TakeAccepted \/ ServerTakeCloseConn \/ ServerTakeUser
    BY <1>4 DEF TakeStale, TakeAccepted, ServerTakeCloseConn, ServerTakeUser, ServerTakes,
       ServerSends, Close, Shut
  <1>5. CASE TakePing \/ AnswerPing \/ (\E t \in {"sproc", "sapp"} : ServerMark(t))
    BY <1>5 DEF TakePing, AnswerPing, ServerMark, ServerSends
  <1>6. CASE TakeHello \/ InitClassic \/ InitPing \/ InitCustom \/ TakeHandshake
    BY <1>6 DEF TakeHello, InitClassic, InitPing, InitCustom, TakeHandshake
  <1>7. CASE ClientTakeCloseConn \/ ClientTakeUser \/ TakePong \/ NotifyPong \/ FinishPong
    BY <1>7 DEF ClientTakeCloseConn, ClientTakeUser, TakePong, NotifyPong, FinishPong, Close, Shut
  <1>8. CASE WaitReturns \/ PingTimesOut \/ ClientAppSends \/ ClientAppCloses
             \/ ServerAppSends \/ ServerAppCloses
    BY <1>8 DEF WaitReturns, PingTimesOut, ClientAppSends, ClientAppCloses, ServerAppSends,
       ServerAppCloses, ServerSends
  <1> QED
    BY <1>1, <1>2, <1>3, <1>4, <1>5, <1>6, <1>7, <1>8, Steps

LEMMA RefusedStep ==
    ASSUME TypeInv, RefusedByClosed, Next
    PROVE  RefusedByClosed'
  <1> USE TypeInv, RefusedByClosed, SidesFacts DEF RefusedByClosed, TypeInv, EndTypes, FlagTypes, Sides
  <1>1. \A s \in Sides : sock[s] = "closed" => sock'[s] = "closed"
    BY Steps DEF Accept, NetRead, NetEof, Crash, ResetArrives, NetWrite, NetDrained, NetRetire,
       TakeStale, TakeSetType, TakeAccepted, ServerTakeCloseConn, ServerTakeUser, TakePing,
       AnswerPing, ServerMark, TakeHello, InitClassic, InitPing, InitCustom, TakeHandshake,
       ClientTakeCloseConn, ClientTakeUser, TakePong, NotifyPong, FinishPong, WaitReturns,
       PingTimesOut, ClientAppSends, ClientAppCloses, ServerAppSends, ServerAppCloses, Close, Shut
  <1>2. \A s \in Sides : reset'[s] => reset[s] \/ sock'[Other(s)] = "closed"
    <2>1. CASE Accept \/ NetWrite \/ NetDrained \/ NetRetire
               \/ (\E s \in Sides : NetRead(s) \/ NetEof(s) \/ Crash(s) \/ ResetArrives(s))
      BY <2>1 DEF Accept, NetWrite, NetDrained, NetRetire, NetRead, NetEof, Crash, ResetArrives,
         Close, Shut
    <2>2. CASE TakeStale \/ TakeSetType \/ TakeAccepted \/ ServerTakeCloseConn \/ ServerTakeUser
               \/ TakePing \/ AnswerPing \/ (\E t \in {"sproc", "sapp"} : ServerMark(t))
      BY <2>2 DEF TakeStale, TakeSetType, TakeAccepted, ServerTakeCloseConn, ServerTakeUser,
         TakePing, AnswerPing, ServerMark, Close, Shut
    <2>3. CASE TakeHello \/ InitClassic \/ InitPing \/ InitCustom \/ TakeHandshake
      BY <2>3 DEF TakeHello, InitClassic, InitPing, InitCustom, TakeHandshake, ClientSends,
         ClientCloses
    <2>4. CASE ClientTakeCloseConn \/ ClientTakeUser \/ TakePong \/ NotifyPong \/ FinishPong
      BY <2>4 DEF ClientTakeCloseConn, ClientTakeUser, TakePong, NotifyPong, FinishPong,
         ClientSends, ClientCloses, Close, Shut
    <2>5. CASE WaitReturns \/ PingTimesOut \/ ClientAppSends \/ ClientAppCloses
               \/ ServerAppSends \/ ServerAppCloses
      BY <2>5 DEF WaitReturns, PingTimesOut, ClientAppSends, ClientAppCloses, ServerAppSends,
         ServerAppCloses, ClientSends, ClientCloses
    <2> QED
      BY <2>1, <2>2, <2>3, <2>4, <2>5, Steps
  <1> QED
    BY <1>1, <1>2

LEMMA EndStays == TypeInv /\ EndInv /\ [Next]_vars => EndInv'
  <1>1. ASSUME EndInv, UNCHANGED vars PROVE EndInv'
    BY <1>1 DEF vars, EndInv, ClientEnd, ServerEnd, RefusedByClosed, Is
  <1> QED
    BY <1>1, ClientEndStep, ServerEndStep, RefusedStep DEF EndInv

-----------------------------------------------------------------------------
(* Packets of applications in a queue *)

\* The packets of applications in q carry, in order, what is in S after its first
\* i up to its first j; R relates IDs to names.  The function counts along q.
Run(R, q, S, i, j) == \E c \in [0..Len(q) -> 0..j] :
    /\ c[0] = i /\ c[Len(q)] = j
    /\ \A k \in 1..Len(q) : IF q[k] \in UserIds
                            THEN c[k] = c[k - 1] + 1 /\ <<q[k], S[c[k]]>> \in R
                            ELSE c[k] = c[k - 1]

LEMMA RunEmpty ==
    ASSUME NEW R, NEW S, NEW i \in Nat
    PROVE  Run(R, <<>>, S, i, i)
  <1> DEFINE c == [x \in 0..0 |-> i]
  <1>1. c \in [0..0 -> 0..i] /\ c[0] = i
    OBVIOUS
  <1>2. Len(<<>>) = 0 /\ 1..0 = {}
    OBVIOUS
  <1> HIDE DEF c
  <1>3. \A k \in 1..0 : FALSE
    BY <1>2
  <1> QED
    BY <1>1, <1>2, <1>3 DEF Run

LEMMA RunRange ==
    ASSUME NEW R, NEW S, NEW T, NEW q \in Seq(T), NEW i, NEW j \in Nat, Run(R, q, S, i, j)
    PROVE  i \in Nat /\ i <= j
  BY DEF Run

LEMMA RunOther ==
    ASSUME NEW R, NEW S, NEW T, NEW q \in Seq(T), NEW p \in T, p \notin UserIds,
           NEW i, NEW j \in Nat, Run(R, q, S, i, j)
    PROVE  Run(R, Append(q, p), S, i, j)
  <1>1. PICK c \in [0..Len(q) -> 0..j] :
           /\ c[0] = i /\ c[Len(q)] = j
           /\ \A k \in 1..Len(q) : IF q[k] \in UserIds
                                   THEN c[k] = c[k - 1] + 1 /\ <<q[k], S[c[k]]>> \in R
                                   ELSE c[k] = c[k - 1]
    BY DEF Run
  <1> DEFINE n == Len(q)
             r == Append(q, p)
             d == [x \in 0..(n + 1) |-> IF x = n + 1 THEN j ELSE c[x]]
  <1>2. n \in Nat /\ Len(r) = n + 1 /\ r[n + 1] = p /\ \A k \in 1..n : r[k] = q[k]
    OBVIOUS
  <1>3. d \in [0..Len(r) -> 0..j] /\ d[0] = i /\ d[Len(r)] = j
    BY <1>1, <1>2
  <1>4. ASSUME NEW k \in 1..Len(r)
        PROVE  IF r[k] \in UserIds THEN d[k] = d[k - 1] + 1 /\ <<r[k], S[d[k]]>> \in R
                                   ELSE d[k] = d[k - 1]
    <2>1. CASE k = n + 1
      BY <1>1, <1>2, <2>1
    <2>2. CASE k # n + 1
      BY <1>1, <1>2, <2>2
    <2> QED
      BY <2>1, <2>2
  <1> HIDE DEF d, r
  <1> QED
    BY <1>3, <1>4 DEF Run, r

LEMMA RunUser ==
    ASSUME NEW R, NEW S, NEW T, NEW q \in Seq(T), NEW p \in T, p \in UserIds,
           NEW i, NEW j \in Nat, Run(R, q, S, i, j), <<p, S[j + 1]>> \in R
    PROVE  Run(R, Append(q, p), S, i, j + 1)
  <1>1. PICK c \in [0..Len(q) -> 0..j] :
           /\ c[0] = i /\ c[Len(q)] = j
           /\ \A k \in 1..Len(q) : IF q[k] \in UserIds
                                   THEN c[k] = c[k - 1] + 1 /\ <<q[k], S[c[k]]>> \in R
                                   ELSE c[k] = c[k - 1]
    BY DEF Run
  <1> DEFINE n == Len(q)
             r == Append(q, p)
             d == [x \in 0..(n + 1) |-> IF x = n + 1 THEN j + 1 ELSE c[x]]
  <1>2. n \in Nat /\ Len(r) = n + 1 /\ r[n + 1] = p /\ \A k \in 1..n : r[k] = q[k]
    OBVIOUS
  <1>3. d \in [0..Len(r) -> 0..(j + 1)] /\ d[0] = i /\ d[Len(r)] = j + 1
    BY <1>1, <1>2
  <1>4. ASSUME NEW k \in 1..Len(r)
        PROVE  IF r[k] \in UserIds THEN d[k] = d[k - 1] + 1 /\ <<r[k], S[d[k]]>> \in R
                                   ELSE d[k] = d[k - 1]
    <2>1. CASE k = n + 1
      BY <1>1, <1>2, <2>1
    <2>2. CASE k # n + 1
      BY <1>1, <1>2, <2>2
    <2> QED
      BY <2>1, <2>2
  <1> HIDE DEF d, r
  <1> QED
    BY <1>3, <1>4 DEF Run, r

LEMMA RunTail ==
    ASSUME NEW R, NEW S, NEW T, NEW q \in Seq(T), q # <<>>, NEW i, NEW j \in Nat,
           Run(R, q, S, i, j)
    PROVE  /\ Head(q) \notin UserIds => Run(R, Tail(q), S, i, j)
           /\ Head(q) \in UserIds => /\ i + 1 <= j /\ <<Head(q), S[i + 1]>> \in R
                                     /\ Run(R, Tail(q), S, i + 1, j)
  <1>1. PICK c \in [0..Len(q) -> 0..j] :
           /\ c[0] = i /\ c[Len(q)] = j
           /\ \A k \in 1..Len(q) : IF q[k] \in UserIds
                                   THEN c[k] = c[k - 1] + 1 /\ <<q[k], S[c[k]]>> \in R
                                   ELSE c[k] = c[k - 1]
    BY DEF Run
  <1> DEFINE n == Len(q)
             r == Tail(q)
             d == [x \in 0..(n - 1) |-> c[x + 1]]
  <1>2. n \in Nat /\ n > 0 /\ Len(r) = n - 1 /\ Head(q) = q[1] /\ \A k \in 1..(n - 1) : r[k] = q[k + 1]
    OBVIOUS
  <1>3. d \in [0..Len(r) -> 0..j] /\ d[0] = c[1] /\ d[Len(r)] = j
    BY <1>1, <1>2
  <1>4. ASSUME NEW k \in 1..Len(r)
        PROVE  IF r[k] \in UserIds THEN d[k] = d[k - 1] + 1 /\ <<r[k], S[d[k]]>> \in R
                                   ELSE d[k] = d[k - 1]
    <2>1. k \in 1..(n - 1) /\ k + 1 \in 1..n /\ k - 1 \in 0..(n - 1) /\ k \in 0..(n - 1)
      BY <1>2
    <2>2. d[k] = c[k + 1] /\ d[k - 1] = c[k] /\ r[k] = q[k + 1]
      BY <1>2, <2>1
    <2>3. IF q[k + 1] \in UserIds THEN c[k + 1] = c[k] + 1 /\ <<q[k + 1], S[c[k + 1]]>> \in R
                                  ELSE c[k + 1] = c[k]
      BY <1>1, <2>1
    <2> QED
      BY <2>2, <2>3
  <1>5. Run(R, r, S, c[1], j)
    <2> HIDE DEF d, r
    <2> QED
      BY <1>3, <1>4 DEF Run
  <1>6. 1 \in 1..n /\ c[1] \in 0..j /\ c[1 - 1] = i
    BY <1>1, <1>2
  <1> QED
    BY <1>1, <1>2, <1>5, <1>6

LEMMA RunGrow ==
    ASSUME NEW R, NEW U, NEW S \in Seq(U), NEW T, NEW q \in Seq(T), NEW i, NEW j \in Nat,
           j <= Len(S), Run(R, q, S, i, j), NEW u \in U
    PROVE  Run(R, q, Append(S, u), i, j)
  <1>1. PICK c \in [0..Len(q) -> 0..j] :
           /\ c[0] = i /\ c[Len(q)] = j
           /\ \A k \in 1..Len(q) : IF q[k] \in UserIds
                                   THEN c[k] = c[k - 1] + 1 /\ <<q[k], S[c[k]]>> \in R
                                   ELSE c[k] = c[k - 1]
    BY DEF Run
  <1>2. \A m \in 1..Len(S) : Append(S, u)[m] = S[m]
    OBVIOUS
  <1>3. ASSUME NEW k \in 1..Len(q), q[k] \in UserIds
        PROVE  c[k] \in 1..Len(S)
    <2>1. Len(q) \in Nat /\ Len(S) \in Nat /\ k \in 0..Len(q) /\ k - 1 \in 0..Len(q)
      OBVIOUS
    <2>2. c[k] \in 0..j /\ c[k - 1] \in 0..j /\ c[k] = c[k - 1] + 1
      BY <1>1, <1>3, <2>1
    <2> QED
      BY <2>1, <2>2
  <1> QED
    BY <1>1, <1>2, <1>3 DEF Run

-----------------------------------------------------------------------------
(* What a step does to the packets on their way to the client *)

\* The IDs of a connection's packets, and their names, on their way to s.
Naming(s) == IF target = "ping"
             THEN {IF s = "server" THEN <<Ping, "ping">> ELSE <<Pong, "pong">>}
             ELSE {<<ServerIds[n], n>> : n \in Common}

Same(s) == wire'[s] = wire[s] /\ inq'[s] = inq[s] /\ got'[s] = got[s]

CQuiet == Same("client") /\ UNCHANGED writeq /\ sent'["server"] = sent["server"]
CAccept == /\ Same("client") /\ sent'["server"] = sent["server"]
           /\ sock["server"] = "none" /\ writeq' = <<Hello>>
CSays == /\ Same("client") /\ sent'["server"] = sent["server"]
         /\ \E p \in {Handshake, CloseConn} :
               writeq' = Append(writeq, p) /\ (p = Handshake => state'["server"] = "wait1")
CWrites == /\ Same("client") /\ Is("server") /\ sock["server"] = "open"
           /\ \E n, p : /\ <<p, n>> \in Naming("client")
                        /\ writeq' = Append(writeq, p)
                        /\ sent'["server"] = Append(sent["server"], n)
CMoves == /\ inq'["client"] = inq["client"] /\ got'["client"] = got["client"]
          /\ sent'["server"] = sent["server"]
          /\ writeq # <<>> /\ writeq' = Tail(writeq) /\ sock["server"] = "open"
          /\ IF sock["client"] = "closed" THEN wire'["client"] = wire["client"]
             ELSE wire'["client"] = Append(wire["client"], Head(writeq))
CReads == /\ got'["client"] = got["client"] /\ sent'["server"] = sent["server"] /\ UNCHANGED writeq
          /\ wire["client"] # <<>> /\ wire'["client"] = Tail(wire["client"])
          /\ inq'["client"] = Append(inq["client"], Head(wire["client"]))
CLoses == /\ got'["client"] = got["client"] /\ sent'["server"] = sent["server"] /\ UNCHANGED writeq
          /\ sock'["client"] = "closed" \/ sock["server"] = "closed"
          /\ wire'["client"] = <<>>
          /\ \/ inq'["client"] \in {inq["client"], <<>>}
             \/ /\ inq["client"] # <<>> /\ Head(inq["client"]) \notin UserIds
                /\ inq'["client"] = Tail(inq["client"])
CTakes == /\ got'["client"] = got["client"] /\ sent'["server"] = sent["server"] /\ UNCHANGED writeq
          /\ wire'["client"] = wire["client"]
          /\ inq["client"] # <<>> /\ Head(inq["client"]) \notin UserIds
          /\ inq'["client"] = Tail(inq["client"])
CGets == /\ sent'["server"] = sent["server"] /\ UNCHANGED writeq /\ wire'["client"] = wire["client"]
         /\ inq["client"] # <<>> /\ Head(inq["client"]) \in UserIds
         /\ inq'["client"] = Tail(inq["client"])
         /\ \/ /\ target = "classic"
               /\ got'["client"] = IF Known(ids, Head(inq["client"]))
                                   THEN Append(got["client"], NameOf(ids, Head(inq["client"])))
                                   ELSE got["client"]
            \/ target = "ping" /\ got'["client"] = Append(got["client"], "pong")

\* Lists are functions on both ends: a step looks at one of them.
HistTypes == LET S == Seq(DOMAIN ids \cup DOMAIN ServerIds \cup {"ping", "pong"})
             IN  sent \in [Sides -> S] /\ got \in [Sides -> S]

LEMMA NotUser == {Hello, SetType, Handshake, Accepted, CloseConn} \cap UserIds = {}
  BY DEF Hello, SetType, Handshake, Accepted, CloseConn, UserIds

\* Every step does one of nine things to what is on its way to the client.
LEMMA ClientBound ==
    ASSUME TypeInv, EndInv, HistTypes, Next
    PROVE  \/ CQuiet \/ CAccept \/ CSays \/ CWrites \/ CMoves \/ CReads \/ CLoses
           \/ CTakes \/ CGets
  <1> USE SidesFacts DEF HistTypes, TypeInv, PipeTypes, Same
  <1> DEFINE Result == CQuiet \/ CAccept \/ CSays \/ CWrites \/ CMoves \/ CReads \/ CLoses
                       \/ CTakes \/ CGets
  <1>1. CASE Accept
    BY <1>1 DEF Accept, CAccept
  <1>2. ASSUME NEW s \in Sides, NetRead(s) PROVE Result
    <2>1. CASE s = "client"
      BY <1>2, <2>1 DEF NetRead, CReads
    <2>2. CASE s = "server"
      BY <1>2, <2>2 DEF NetRead, CQuiet
    <2> QED
      BY <2>1, <2>2 DEF Sides
  <1>3. ASSUME NEW s \in Sides, NetEof(s) \/ Crash(s) \/ ResetArrives(s) PROVE Result
    <2>1. CASE s = "client"
      BY <1>3, <2>1 DEF NetEof, Crash, ResetArrives, Close, Shut, CLoses, EndInv,
         RefusedByClosed, EndTypes
    <2>2. CASE s = "server"
      BY <1>3, <2>2 DEF NetEof, Crash, ResetArrives, Close, Shut, CQuiet
    <2> QED
      BY <2>1, <2>2 DEF Sides
  <1>4. CASE NetWrite
    <2>1. CASE writeq = <<>>
      BY <1>4, <2>1 DEF NetWrite, CQuiet
    <2>2. CASE writeq # <<>>
      BY <1>4, <2>2 DEF NetWrite, CMoves
    <2> QED
      BY <2>1, <2>2
  <1>5. CASE NetDrained \/ NetRetire \/ InitClassic \/ InitCustom \/ NotifyPong \/ WaitReturns
             \/ PingTimesOut \/ (\E t \in {"sproc", "sapp"} : ServerMark(t))
    BY <1>5 DEF NetDrained, NetRetire, InitClassic, InitCustom, NotifyPong, WaitReturns,
       PingTimesOut, ServerMark, Close, Shut, CQuiet
  <1>6. CASE TakeStale \/ ServerTakeUser \/ TakePing \/ ServerTakeCloseConn
    BY <1>6 DEF TakeStale, ServerTakeUser, TakePing, ServerTakeCloseConn, ServerTakes, Gets,
       Close, Shut, CQuiet
  <1>7. CASE TakeSetType
    <2>1. Same("client") /\ sent'["server"] = sent["server"]
      BY <1>7 DEF TakeSetType, ServerTakes
    <2>2. UNCHANGED writeq \/ (writeq' = Append(writeq, Handshake) /\ state'["server"] = "wait1")
      BY <1>7 DEF TakeSetType, ServerSends, EndTypes
    <2> QED
      BY <2>1, <2>2 DEF CQuiet, CSays
  <1>8. CASE TakeAccepted
    <2>1. Same("client") /\ sent'["server"] = sent["server"]
      BY <1>8 DEF TakeAccepted, ServerTakes
    <2>2. UNCHANGED writeq \/ writeq' = Append(writeq, CloseConn)
      BY <1>8 DEF TakeAccepted, ServerSends
    <2>3. CloseConn # Handshake
      BY CodesDiffer
    <2> QED
      BY <2>1, <2>2, <2>3 DEF CQuiet, CSays
  <1>9. CASE AnswerPing
    <2>1. Same("client") /\ Is("server") /\ target = "ping"
      BY <1>9 DEF AnswerPing, EndInv, ServerEnd
    <2>2. CASE sock["server"] = "open"
      BY <1>9, <2>1, <2>2 DEF AnswerPing, ServerSends, Logs, CWrites, Naming
    <2>3. CASE sock["server"] # "open"
      BY <1>9, <2>1, <2>3 DEF AnswerPing, ServerSends, CQuiet
    <2> QED
      BY <2>2, <2>3
  <1>10. CASE ServerAppSends
    <2>1. Same("client") /\ Is("server") /\ target = "classic" /\ sock["server"] = "open"
      BY <1>10 DEF ServerAppSends, EndInv, ServerEnd
    <2>2. PICK n \in Common : ServerSends(ServerIds[n]) /\ Logs("server", n)
      BY <1>10 DEF ServerAppSends
    <2> QED
      BY <2>1, <2>2 DEF ServerSends, Logs, CWrites, Naming
  <1>11. CASE ServerAppCloses
    BY <1>11, CodesDiffer DEF ServerAppCloses, ServerSends, CSays
  <1>12. CASE TakeHello \/ TakeHandshake
    BY <1>12, NotUser DEF TakeHello, TakeHandshake, ClientTakes, First, ClientCloses,
       ClientSends, CTakes
  <1>13. CASE ClientTakeCloseConn
    BY <1>13, NotUser DEF ClientTakeCloseConn, ClientTakes, First, Close, Shut, CLoses, EndTypes
  <1>14. CASE ClientTakeUser
    BY <1>14 DEF ClientTakeUser, ClientTakes, First, Gets, CGets
  <1>15. CASE TakePong
    BY <1>15, UserPackets DEF TakePong, ClientTakes, First, Gets, CGets, ClientCloses, ClientSends
  <1>16. CASE InitPing \/ FinishPong \/ ClientAppSends \/ ClientAppCloses
    BY <1>16 DEF InitPing, FinishPong, ClientAppSends, ClientAppCloses, ClientCloses,
       ClientSends, Logs, CQuiet
  <1> QED
    BY <1>1, <1>2, <1>3, <1>4, <1>5, <1>6, <1>7, <1>8, <1>9, <1>10, <1>11, <1>12, <1>13,
       <1>14, <1>15, <1>16, Steps

LEMMA DomainSame ==
    ASSUME Next
    PROVE  DOMAIN ids' = DOMAIN ids
  BY Steps DEF Accept, NetRead, NetEof, Crash, ResetArrives, NetWrite, NetDrained, NetRetire,
     TakeStale, TakeSetType, TakeAccepted, ServerTakeCloseConn, ServerTakeUser, TakePing,
     AnswerPing, ServerMark, TakeHello, InitClassic, InitPing, InitCustom, TakeHandshake, Synced,
     ClientTakeCloseConn, ClientTakeUser, TakePong, NotifyPong, FinishPong, WaitReturns,
     PingTimesOut, ClientAppSends, ClientAppCloses, ServerAppSends, ServerAppCloses

LEMMA NamingSame ==
    ASSUME Next
    PROVE  \A s \in Sides : Naming(s)' = Naming(s)
  <1>1. target' = target /\ DOMAIN ids' = DOMAIN ids
    BY DomainSame, SetupSame
  <1> QED
    BY <1>1 DEF Naming, Common

\* What was sent and got are names.
LEMMA HistStep ==
    ASSUME TypeInv, HistTypes, Next
    PROVE  HistTypes'
  <1> DEFINE T == DOMAIN ids \cup DOMAIN ServerIds \cup {"ping", "pong"}
  <1>1. sent \in [Sides -> Seq(T)] /\ got \in [Sides -> Seq(T)]
    BY DEF HistTypes
  <1>2. ASSUME NEW s \in Sides, NEW n \in T
        PROVE  (Logs(s, n) => sent' \in [Sides -> Seq(T)])
               /\ (Gets(s, n) => got' \in [Sides -> Seq(T)])
    <2>1. Append(sent[s], n) \in Seq(T) /\ Append(got[s], n) \in Seq(T)
      BY <1>1
    <2> QED
      BY <1>1, <2>1 DEF Logs, Gets
  <1>3. \A p : /\ Known(ids, p) => NameOf(ids, p) \in T
               /\ Known(ServerIds, p) => NameOf(ServerIds, p) \in T
    BY DEF Known, NameOf
  <1>4. "ping" \in T /\ "pong" \in T /\ \A n \in Common : n \in T
    BY DEF Common
  <1> HIDE DEF T
  <1> DEFINE Result == sent' \in [Sides -> Seq(T)] /\ got' \in [Sides -> Seq(T)]
  <1>5. ASSUME UNCHANGED <<sent, got>> PROVE Result
    BY <1>1, <1>5
  <1>6. ASSUME AnswerPing \/ InitPing \/ ServerAppSends \/ ClientAppSends PROVE Result
    <2>1. UNCHANGED got
      BY <1>6 DEF AnswerPing, InitPing, ServerAppSends, ClientAppSends
    <2>2. UNCHANGED sent \/ (\E s \in Sides, n \in T : Logs(s, n))
      BY <1>4, <1>6, SidesFacts DEF AnswerPing, InitPing, ServerAppSends, ClientAppSends
    <2> QED
      BY <1>1, <1>2, <2>1, <2>2
  <1>7. ASSUME ServerTakeUser \/ ClientTakeUser \/ TakePing \/ TakePong PROVE Result
    <2>1. UNCHANGED sent
      BY <1>7 DEF ServerTakeUser, ClientTakeUser, TakePing, TakePong
    <2>2. UNCHANGED got \/ (\E s \in Sides, n \in T : Gets(s, n))
      BY <1>3, <1>4, <1>7, SidesFacts DEF ServerTakeUser, ClientTakeUser, TakePing, TakePong
    <2> QED
      BY <1>1, <1>2, <2>1, <2>2
  <1>8. Result
    BY <1>5, <1>6, <1>7, Steps DEF Accept, NetRead, NetEof, Crash, ResetArrives, NetWrite,
     NetDrained, NetRetire, TakeStale, TakeSetType, TakeAccepted, ServerTakeCloseConn,
     ServerMark, TakeHello, InitClassic, InitCustom, TakeHandshake, ClientTakeCloseConn,
     NotifyPong, FinishPong, WaitReturns, PingTimesOut, ClientAppCloses, ServerAppCloses
  <1> QED
    BY <1>8, DomainSame DEF HistTypes, T

-----------------------------------------------------------------------------
(* What a step does to the packets on their way to the server *)

\* What makes the server established: the connection type of a ping connection,
\* the client's answer to the handshake.
Key == IF target = "ping" THEN SetType ELSE Accepted

\* The client sends p, if it has a socket.
Delivers(p) == wire'["server"] = IF sock["client"] = "open" THEN Append(wire["server"], p)
                                                            ELSE wire["server"]
Kept == got'["server"] = got["server"] /\ sent'["client"] = sent["client"]

SQuiet == Same("server") /\ Kept /\ UNCHANGED established
SSays == /\ Kept /\ inq'["server"] = inq["server"] /\ UNCHANGED established
         /\ \E p \in {SetType, CloseConn} \ {Key} : Delivers(p)
SGreets == /\ Kept /\ inq'["server"] = inq["server"] /\ established' = established \cup {"client"}
           /\ Delivers(Key) /\ (target # "ping" => In(Handshake, inq["client"]))
SWrites == /\ got'["server"] = got["server"] /\ inq'["server"] = inq["server"]
           /\ UNCHANGED established /\ Is("client") /\ sock["client"] = "open"
           /\ \E n, p : /\ <<p, n>> \in Naming("server")
                        /\ wire'["server"] = Append(wire["server"], p)
                        /\ sent'["client"] = Append(sent["client"], n)
SReads == /\ Kept /\ UNCHANGED established
          /\ wire["server"] # <<>> /\ wire'["server"] = Tail(wire["server"])
          /\ inq'["server"] = Append(inq["server"], Head(wire["server"]))
SLoses == /\ Kept /\ UNCHANGED established /\ inq'["server"] = inq["server"]
          /\ sock["client"] = "closed" /\ wire'["server"] = <<>>
STakes == /\ Kept /\ UNCHANGED established /\ wire'["server"] = wire["server"]
          /\ inq["server"] # <<>> /\ Head(inq["server"]) \notin UserIds \cup {Key}
          /\ inq'["server"] = Tail(inq["server"])
STakesKey == /\ Kept /\ wire'["server"] = wire["server"]
             /\ inq["server"] # <<>> /\ Head(inq["server"]) = Key
             /\ inq'["server"] = Tail(inq["server"])
             /\ \/ established' = established \cup {"server"}
                \/ UNCHANGED established /\ Is("server")
                \/ /\ UNCHANGED established /\ target # "ping"
                   /\ state["server"] \notin {"wait1", "active"}
SGets == /\ UNCHANGED established /\ wire'["server"] = wire["server"]
         /\ sent'["client"] = sent["client"]
         /\ inq["server"] # <<>> /\ Head(inq["server"]) \in UserIds
         /\ inq'["server"] = Tail(inq["server"])
         /\ \/ /\ stype # "ping" /\ sock["server"] = "open"
               /\ got'["server"] = IF stype = "classic" /\ Known(ServerIds, Head(inq["server"]))
                                   THEN Append(got["server"], NameOf(ServerIds, Head(inq["server"])))
                                   ELSE got["server"]
            \/ stype = "ping" /\ got'["server"] = Append(got["server"], "ping")

LEMMA KeyFacts == /\ Key \in Packets /\ Key \notin UserIds /\ CloseConn # Key
                  /\ Key \in {SetType, Accepted}
                  /\ Key # Hello /\ Key # Handshake
  BY NotUser DEF Key, Packets, SetType, Accepted, CloseConn, Hello, Handshake

\* The client sends p, to a server that is not closed.
LEMMA ClientSendsDelivers ==
    ASSUME TypeInv, NEW p, ClientSends(p), sock["server"] # "closed"
    PROVE  Delivers(p) /\ wire'["client"] = wire["client"]
  BY SidesFacts DEF TypeInv, PipeTypes, ClientSends, Delivers

\* Every step does one of nine things to what is on its way to the server, while it
\* has a socket and knows the connection type.
LEMMA ServerBound ==
    ASSUME TypeInv, EndInv, HistTypes, Next, sock'["server"] # "closed", target \in types
    PROVE  \/ SQuiet \/ SSays \/ SGreets \/ SWrites \/ SReads \/ SLoses
           \/ STakes \/ STakesKey \/ SGets
  <1> USE SidesFacts DEF HistTypes, TypeInv, PipeTypes, Same, Kept
  <1> DEFINE Result == SQuiet \/ SSays \/ SGreets \/ SWrites \/ SReads \/ SLoses
                       \/ STakes \/ STakesKey \/ SGets
  <1>0. target \in {"classic", "ping"}
    BY Targeted
  <1>1. CASE Accept \/ NetWrite \/ NetDrained
    BY <1>1 DEF Accept, NetWrite, NetDrained, SQuiet
  <1>2. CASE NetRetire
    BY <1>2 DEF NetRetire, Close, Shut, SQuiet, EndTypes
  <1>3. ASSUME NEW s \in Sides, NetRead(s) PROVE Result
    <2>1. CASE s = "client"
      BY <1>3, <2>1 DEF NetRead, SQuiet
    <2>2. CASE s = "server"
      BY <1>3, <2>2 DEF NetRead, SReads
    <2> QED
      BY <2>1, <2>2 DEF Sides
  <1>4. ASSUME NEW s \in Sides, NetEof(s) \/ Crash(s) PROVE Result
    <2>1. CASE s = "client"
      BY <1>4, <2>1 DEF NetEof, Crash, Close, Shut, SQuiet
    <2>2. CASE s = "server"
      BY <1>4, <2>2 DEF NetEof, Crash, Close, Shut, EndTypes
    <2> QED
      BY <2>1, <2>2 DEF Sides
  <1>5. ASSUME NEW s \in Sides, ResetArrives(s) PROVE Result
    <2>1. CASE s = "client"
      BY <1>5, <2>1 DEF ResetArrives, SQuiet
    <2>2. CASE s = "server"
      BY <1>5, <2>2 DEF ResetArrives, SLoses, EndInv, RefusedByClosed
    <2> QED
      BY <2>1, <2>2 DEF Sides
  <1>6. CASE InitClassic \/ InitCustom \/ NotifyPong \/ WaitReturns \/ PingTimesOut
             \/ (\E t \in {"sproc", "sapp"} : ServerMark(t)) \/ ServerAppCloses
             \/ ClientTakeCloseConn \/ ClientTakeUser
    BY <1>6 DEF InitClassic, InitCustom, NotifyPong, WaitReturns, PingTimesOut, ServerMark,
       ServerAppCloses, ClientTakeCloseConn, ClientTakeUser, ClientTakes, Gets, Close, Shut, SQuiet
  <1>7. CASE AnswerPing \/ ServerAppSends
    BY <1>7 DEF AnswerPing, ServerAppSends, Logs, SQuiet
  <1>8. CASE TakeStale \/ ServerTakeCloseConn
    BY <1>8 DEF TakeStale, ServerTakeCloseConn, Close, Shut, EndTypes
  <1>9. CASE TakeSetType
    <2>1. /\ Kept /\ wire'["server"] = wire["server"] /\ inq["server"] # <<>>
          /\ Head(inq["server"]) = SetType /\ inq'["server"] = Tail(inq["server"])
      BY <1>9 DEF TakeSetType, ServerTakes, First
    <2>2. CASE target = "classic"
      <3>1. UNCHANGED established
        BY <1>9, <2>2 DEF TakeSetType
      <3>2. SetType \notin UserIds \cup {Key}
        BY <2>2, NotUser DEF Key, SetType, Accepted
      <3> QED
        BY <2>1, <3>1, <3>2 DEF STakes
    <2>3. CASE target = "ping"
      <3>1. SetType = Key
        BY <2>3 DEF Key
      <3>2. established' = established \cup {"server"} \/ (UNCHANGED established /\ Is("server"))
        BY <1>9, <2>3 DEF TakeSetType, EndInv, ServerEnd
      <3> QED
        BY <2>1, <3>1, <3>2 DEF STakesKey
    <2> QED
      BY <1>0, <2>2, <2>3
  <1>10. CASE TakeAccepted
    <2>1. /\ Kept /\ wire'["server"] = wire["server"] /\ inq["server"] # <<>>
          /\ Head(inq["server"]) = Accepted /\ inq'["server"] = Tail(inq["server"])
      BY <1>10 DEF TakeAccepted, ServerTakes, First
    <2>2. established' = established \cup {"server"}
          \/ (UNCHANGED established /\ state["server"] # "wait1")
      BY <1>10 DEF TakeAccepted
    <2>3. CASE target = "classic"
      <3>1. Accepted = Key
        BY <2>3 DEF Key
      <3>2. state["server"] = "active" => Is("server")
        BY DEF EndInv, ServerEnd
      <3> QED
        BY <2>1, <2>2, <2>3, <3>1, <3>2 DEF STakesKey
    <2>4. CASE target = "ping"
      <3>1. Accepted \notin UserIds \cup {Key}
        BY <2>4, NotUser DEF Key, SetType, Accepted
      <3>2. sock["server"] = "open" /\ state["server"] # "wait1"
        BY <1>10, <2>4 DEF TakeAccepted, EndInv, ServerEnd
      <3>3. UNCHANGED established
        BY <1>10, <3>2 DEF TakeAccepted
      <3> QED
        BY <2>1, <3>1, <3>3 DEF STakes
    <2> QED
      BY <1>0, <2>3, <2>4
  <1>11. CASE ServerTakeUser
    BY <1>11 DEF ServerTakeUser, ServerTakes, First, Gets, SGets
  <1>12. CASE TakePing
    BY <1>12, UserPackets DEF TakePing, ServerTakes, First, Gets, SGets
  <1>13. CASE TakeHello
    <2>0. Kept /\ inq'["server"] = inq["server"] /\ sock["server"] # "closed"
      BY <1>13 DEF TakeHello, ClientTakes
    <2>1. CASE state["client"] # "hellowait"
      BY <1>13, <2>0, <2>1 DEF TakeHello, SQuiet
    <2>2. CASE state["client"] = "hellowait" /\ ~match
      BY <1>13, <2>0, <2>2, KeyFacts, ClientSendsDelivers DEF TakeHello, ClientCloses, SSays
    <2>3. CASE state["client"] = "hellowait" /\ match /\ target = "ping"
      BY <1>13, <2>0, <2>3, ClientSendsDelivers DEF TakeHello, SGreets, Key
    <2>4. CASE state["client"] = "hellowait" /\ match /\ target = "classic"
      <3>1. SetType \in {SetType, CloseConn} \ {Key}
        BY <2>4 DEF Key, SetType, Accepted
      <3> QED
        BY <1>13, <2>0, <2>4, <3>1, ClientSendsDelivers DEF TakeHello, SSays
    <2> QED
      BY <1>0, <2>1, <2>2, <2>3, <2>4
  <1>14. CASE TakeHandshake
    <2>0. Kept /\ inq'["server"] = inq["server"] /\ sock["server"] # "closed"
      BY <1>14 DEF TakeHandshake, ClientTakes
    <2>1. CASE ClientCloses /\ UNCHANGED established
      BY <2>0, <2>1, KeyFacts, ClientSendsDelivers DEF ClientCloses, SSays
    <2>2. CASE state["client"] = "wait1" /\ ClientSends(Accepted)
               /\ established' = established \cup {"client"}
      <3>1. Key = Accepted
        BY <2>2 DEF Key, EndInv, ClientEnd
      <3>2. In(Handshake, inq["client"])
        <4>1. inq["client"] # <<>> /\ Head(inq["client"]) = Handshake
          BY <1>14 DEF TakeHandshake, ClientTakes, First
        <4> QED
          BY <4>1 DEF In
      <3> QED
        BY <2>0, <2>2, <3>1, <3>2, ClientSendsDelivers DEF SGreets
    <2> QED
      BY <1>14, <2>1, <2>2 DEF TakeHandshake
  <1>15. CASE TakePong \/ FinishPong \/ ClientAppCloses
    <2>0. Kept /\ inq'["server"] = inq["server"] /\ sock["server"] # "closed"
          /\ UNCHANGED established /\ ClientSends(CloseConn)
      BY <1>15 DEF TakePong, FinishPong, ClientAppCloses, ClientTakes, ClientCloses, Gets
    <2> QED
      BY <2>0, KeyFacts, ClientSendsDelivers DEF SSays
  <1>16. CASE InitPing
    <2>0. got'["server"] = got["server"] /\ inq'["server"] = inq["server"]
          /\ sock["server"] # "closed" /\ UNCHANGED established /\ ClientSends(Ping)
          /\ target = "ping"
      BY <1>16 DEF InitPing
    <2>1. CASE sock["client"] = "open"
      <3>1. Is("client") /\ <<Ping, "ping">> \in Naming("server")
        BY <1>16 DEF InitPing, EndInv, ClientEnd, Naming
      <3> QED
        BY <1>16, <2>0, <2>1, <3>1, ClientSendsDelivers DEF InitPing, Logs, SWrites, Delivers
    <2>2. CASE sock["client"] # "open"
      BY <1>16, <2>0, <2>2, ClientSendsDelivers DEF InitPing, SQuiet, Delivers
    <2> QED
      BY <2>1, <2>2
  <1>17. CASE ClientAppSends
    <2>1. PICK n \in Common : ClientSends(ids[n]) /\ Logs("client", n)
      BY <1>17 DEF ClientAppSends
    <2>2. sock["client"] = "open" /\ Is("client") /\ target = "classic"
          /\ sock["server"] # "closed"
      BY <1>0, <1>17 DEF ClientAppSends, EndInv, ClientEnd
    <2>3. <<ids[n], n>> \in Naming("server")
      BY <2>2 DEF Naming, Common, EndInv, ClientEnd
    <2> QED
      BY <1>17, <2>1, <2>2, <2>3, ClientSendsDelivers DEF ClientAppSends, Logs, SWrites, Delivers
  <1> QED
    BY <1>1, <1>2, <1>3, <1>4, <1>5, <1>6, <1>7, <1>8, <1>9, <1>10, <1>11, <1>12, <1>13,
       <1>14, <1>15, <1>16, <1>17, Steps

-----------------------------------------------------------------------------
(* The handshake comes before everything else *)

\* What no step takes back.
LEMMA Stays ==
    ASSUME TypeInv, EndInv, Next
    PROVE  /\ \A s \in Sides : sock[s] = "closed" => sock'[s] = "closed"
           /\ \A s \in Sides : Is(s) => Is(s)'
           /\ sock'["server"] # "closed" /\ state["server"] \in {"wait1", "active"} =>
                 state'["server"] \in {"wait1", "active"}
  <1> USE SidesFacts DEF TypeInv, EndTypes, Is, Sides
  <1>1. CASE Accept \/ NetWrite \/ NetDrained \/ NetRetire
             \/ (\E s \in Sides : NetRead(s) \/ NetEof(s) \/ Crash(s) \/ ResetArrives(s))
    BY <1>1 DEF Accept, NetWrite, NetDrained, NetRetire, NetRead, NetEof, Crash, ResetArrives,
       Close, Shut, EndInv, ServerEnd
  <1>2. CASE TakeStale \/ TakeSetType \/ TakeAccepted \/ ServerTakeCloseConn \/ ServerTakeUser
             \/ TakePing \/ AnswerPing \/ (\E t \in {"sproc", "sapp"} : ServerMark(t))
    BY <1>2 DEF TakeStale, TakeSetType, TakeAccepted, ServerTakeCloseConn, ServerTakeUser,
       TakePing, AnswerPing, ServerMark, Close, Shut
  <1>3. CASE TakeHello \/ InitClassic \/ InitPing \/ InitCustom \/ TakeHandshake
    BY <1>3 DEF TakeHello, InitClassic, InitPing, InitCustom, TakeHandshake
  <1>4. CASE ClientTakeCloseConn \/ ClientTakeUser \/ TakePong \/ NotifyPong \/ FinishPong
    BY <1>4 DEF ClientTakeCloseConn, ClientTakeUser, TakePong, NotifyPong, FinishPong, Close, Shut
  <1>5. CASE WaitReturns \/ PingTimesOut \/ ClientAppSends \/ ClientAppCloses
             \/ ServerAppSends \/ ServerAppCloses
    BY <1>5 DEF WaitReturns, PingTimesOut, ClientAppSends, ClientAppCloses, ServerAppSends,
       ServerAppCloses
  <1> QED
    BY <1>1, <1>2, <1>3, <1>4, <1>5, Steps

\* The server is established by a packet, while its socket is open.
LEMMA NewServer ==
    ASSUME TypeInv, EndInv, Next, ~Is("server"), Is("server")'
    PROVE  sock'["server"] # "closed" /\ target \in types
  <1>1. TakeSetType \/ TakeAccepted
    <2> USE DEF Is
    <2>1. ~(Accept \/ NetWrite \/ NetDrained \/ NetRetire
            \/ (\E s \in Sides : NetRead(s) \/ NetEof(s) \/ Crash(s) \/ ResetArrives(s)))
      BY DEF Accept, NetWrite, NetDrained, NetRetire, NetRead, NetEof, Crash, ResetArrives
    <2>2. ~(TakeStale \/ ServerTakeCloseConn \/ ServerTakeUser \/ TakePing \/ AnswerPing
            \/ (\E t \in {"sproc", "sapp"} : ServerMark(t)))
      BY DEF TakeStale, ServerTakeCloseConn, ServerTakeUser, TakePing, AnswerPing, ServerMark
    <2>3. ~(TakeHello \/ InitClassic \/ InitPing \/ InitCustom \/ TakeHandshake)
      BY DEF TakeHello, InitClassic, InitPing, InitCustom, TakeHandshake
    <2>4. ~(ClientTakeCloseConn \/ ClientTakeUser \/ TakePong \/ NotifyPong \/ FinishPong)
      BY DEF ClientTakeCloseConn, ClientTakeUser, TakePong, NotifyPong, FinishPong
    <2>5. ~(WaitReturns \/ PingTimesOut \/ ClientAppSends \/ ClientAppCloses
            \/ ServerAppSends \/ ServerAppCloses)
      BY DEF WaitReturns, PingTimesOut, ClientAppSends, ClientAppCloses, ServerAppSends,
         ServerAppCloses
    <2> QED
      BY <2>1, <2>2, <2>3, <2>4, <2>5, Steps
  <1>2. target \in Targets /\ "notset" \notin Targets
    BY SessionAssumption DEF TypeInv, SetupTypes
  <1>3. CASE TakeSetType
    BY <1>3 DEF TakeSetType, Is
  <1>4. CASE TakeAccepted
    <2>1. state["server"] = "wait1" /\ UNCHANGED sock /\ sock["server"] = "open"
      BY <1>4 DEF TakeAccepted, Is
    <2> QED
      BY <1>2, <2>1 DEF EndInv, ServerEnd
  <1> QED
    BY <1>1, <1>3, <1>4

\* Applications send when their end is established.
SentInv == \A s \in Sides : sent[s] # <<>> => Is(s)

\* Nothing is sent by an end that is not established.
LEMMA SentStep ==
    ASSUME TypeInv, EndInv, HistTypes, SentInv, Next
    PROVE  SentInv'
  <1> USE SidesFacts DEF HistTypes
  <1>1. CASE UNCHANGED sent
    BY <1>1, Stays DEF SentInv
  <1>2. CASE AnswerPing \/ ServerAppSends
    <2>1. Is("server")
      BY <1>2 DEF AnswerPing, ServerAppSends, EndInv, ServerEnd
    <2>2. sent'["client"] = sent["client"]
      BY <1>2 DEF AnswerPing, ServerAppSends, Logs
    <2>3. Is("server")' /\ (Is("client") => Is("client")')
      BY <2>1, Stays
    <2> QED
      BY <2>2, <2>3 DEF SentInv, Sides, Is
  <1>3. CASE InitPing \/ ClientAppSends
    <2>1. UNCHANGED sent \/ Is("client")
      BY <1>3 DEF InitPing, ClientAppSends, EndInv, ClientEnd
    <2>2. sent'["server"] = sent["server"]
      BY <1>3 DEF InitPing, ClientAppSends, Logs
    <2>3. CASE Is("client")
      <3>1. Is("client")' /\ (Is("server") => Is("server")')
        BY <2>3, Stays
      <3> QED
        BY <2>2, <3>1 DEF SentInv, Sides, Is
    <2> QED
      BY <1>1, <2>1, <2>3
  <1> QED
    BY <1>1, <1>2, <1>3, Steps DEF Accept, NetRead, NetEof, Crash, ResetArrives, NetWrite,
       NetDrained, NetRetire, TakeStale, TakeSetType, TakeAccepted, ServerTakeCloseConn,
       ServerTakeUser, TakePing, ServerMark, TakeHello, InitClassic, InitCustom, TakeHandshake,
       ClientTakeCloseConn, ClientTakeUser, TakePong, NotifyPong, FinishPong, WaitReturns,
       PingTimesOut, ClientAppCloses, ServerAppCloses

LEMMA QueueAppend ==
    ASSUME NEW q \in Seq(Packets), NEW r \in Packets, NEW p
    PROVE  In(p, Append(q, r)) <=> In(p, q) \/ p = r
  BY InAppend

LEMMA QueueTail ==
    ASSUME NEW q \in Seq(Packets), q # <<>>, NEW p
    PROVE  /\ Head(q) \in Packets /\ Tail(q) \in Seq(Packets)
           /\ In(p, q) <=> In(p, Tail(q)) \/ p = Head(q)
  BY InTail

\* A handshake is on its way to the client, or the answer back.
Shaking == In(Handshake, writeq) \/ In(Handshake, wire["client"]) \/ In(Handshake, inq["client"])
Answering == In(Accepted, wire["server"]) \/ In(Accepted, inq["server"])

\* The server sends the handshake when it waits for the answer, and goes on with it.
ShakeInv == sock["server"] # "closed" /\ target \in types /\ (Shaking \/ Answering)
                => state["server"] \in {"wait1", "active"}

LEMMA ShakingStep ==
    ASSUME TypeInv, EndInv, HistTypes, Next, Shaking'
    PROVE  Shaking \/ state'["server"] = "wait1"
  <1> USE SidesFacts DEF TypeInv, PipeTypes, Shaking, Same
  <1>1. CASE CQuiet
    BY <1>1 DEF CQuiet
  <1>2. CASE CAccept
    <2>1. ~In(Handshake, <<Hello>>)
      <3>1. \A i \in 1..Len(<<Hello>>) : <<Hello>>[i] = Hello
        OBVIOUS
      <3>2. Hello # Handshake
        BY DEF Handshake, Hello
      <3> QED
        BY <3>1, <3>2 DEF In
    <2> QED
      BY <1>2, <2>1 DEF CAccept
  <1>3. CASE CSays
    <2>1. \/ writeq' = Append(writeq, Handshake) /\ state'["server"] = "wait1"
          \/ writeq' = Append(writeq, CloseConn)
      BY <1>3 DEF CSays
    <2>2. CloseConn \in Packets /\ CloseConn # Handshake
      BY PacketsFacts, CodesDiffer
    <2>3. In(Handshake, Append(writeq, CloseConn)) => In(Handshake, writeq)
      BY <2>2, QueueAppend
    <2> QED
      BY <1>3, <2>1, <2>3 DEF CSays
  <1>4. CASE CWrites
    <2>1. PICK n, p : <<p, n>> \in Naming("client") /\ writeq' = Append(writeq, p)
      BY <1>4 DEF CWrites
    <2>2. p \in UserIds
      BY <2>1, ServerIdsFacts, UserPackets DEF Naming, Common
    <2>3. p \in Packets /\ p # Handshake
      BY <2>2, UserPackets, NotUser
    <2>4. In(Handshake, writeq') => In(Handshake, writeq)
      BY <2>1, <2>3, QueueAppend
    <2> QED
      BY <1>4, <2>1, <2>4 DEF CWrites
  <1>5. CASE CMoves
    <2>1. /\ Head(writeq) \in Packets
          /\ In(Handshake, writeq) <=> In(Handshake, writeq') \/ Handshake = Head(writeq)
      BY <1>5, QueueTail DEF CMoves
    <2>2. In(Handshake, Append(wire["client"], Head(writeq))) <=>
             In(Handshake, wire["client"]) \/ Handshake = Head(writeq)
      BY <2>1, QueueAppend
    <2> QED
      BY <1>5, <2>1, <2>2 DEF CMoves
  <1>6. CASE CReads
    <2>1. /\ Head(wire["client"]) \in Packets
          /\ In(Handshake, wire["client"]) <=>
                In(Handshake, wire'["client"]) \/ Handshake = Head(wire["client"])
      BY <1>6, QueueTail DEF CReads
    <2>2. In(Handshake, inq'["client"]) <=>
             In(Handshake, inq["client"]) \/ Handshake = Head(wire["client"])
      BY <1>6, <2>1, QueueAppend DEF CReads
    <2> QED
      BY <1>6, <2>1, <2>2 DEF CReads
  <1>7. CASE CLoses \/ CTakes \/ CGets
    <2>1. inq["client"] # <<>> => (In(Handshake, Tail(inq["client"])) => In(Handshake, inq["client"]))
      BY QueueTail
    <2>2. /\ UNCHANGED writeq /\ wire'["client"] \in {wire["client"], <<>>}
          /\ inq'["client"] \in {inq["client"], <<>>}
             \/ (inq["client"] # <<>> /\ inq'["client"] = Tail(inq["client"]))
      BY <1>7 DEF CLoses, CTakes, CGets
    <2>3. In(Handshake, inq'["client"]) => In(Handshake, inq["client"])
      BY <2>1, <2>2, InEmpty
    <2>4. In(Handshake, wire'["client"]) => In(Handshake, wire["client"])
      BY <2>2, InEmpty
    <2> QED
      BY <2>2, <2>3, <2>4
  <1> QED
    BY <1>1, <1>2, <1>3, <1>4, <1>5, <1>6, <1>7, ClientBound

LEMMA AnsweringStep ==
    ASSUME TypeInv, EndInv, HistTypes, Next, sock'["server"] # "closed", target \in types,
           Answering'
    PROVE  Answering \/ Shaking
  <1> USE SidesFacts DEF TypeInv, PipeTypes, Answering, Same, Kept
  <1>1. CASE SQuiet
    BY <1>1 DEF SQuiet
  <1>2. CASE SSays
    <2>1. PICK p \in {SetType, CloseConn} \ {Key} : Delivers(p)
      BY <1>2 DEF SSays
    <2>2. p \in Packets /\ p # Accepted
      BY DEF Packets, SetType, CloseConn, Accepted
    <2>3. In(Accepted, wire'["server"]) => In(Accepted, wire["server"])
      BY <2>1, <2>2, QueueAppend DEF Delivers
    <2> QED
      BY <1>2, <2>3 DEF SSays
  <1>3. CASE SGreets
    <2>1. target = "ping" => Key # Accepted
      BY DEF Key, SetType, Accepted
    <2>2. In(Accepted, wire'["server"]) => In(Accepted, wire["server"]) \/ Key = Accepted
      BY <1>3, KeyFacts, QueueAppend DEF SGreets, Delivers
    <2> QED
      BY <1>3, <2>1, <2>2 DEF SGreets, Shaking
  <1>4. CASE SWrites
    <2>1. PICK n, p : <<p, n>> \in Naming("server") /\ wire'["server"] = Append(wire["server"], p)
      BY <1>4 DEF SWrites
    <2>2. p \in UserIds
      BY <2>1, ServerIdsFacts, UserPackets DEF Naming, Common
    <2>3. p \in Packets /\ p # Accepted
      BY <2>2, UserPackets, NotUser
    <2>4. In(Accepted, wire'["server"]) => In(Accepted, wire["server"])
      BY <2>1, <2>3, QueueAppend
    <2> QED
      BY <1>4, <2>4 DEF SWrites
  <1>5. CASE SReads
    <2>1. /\ Head(wire["server"]) \in Packets
          /\ In(Accepted, wire["server"]) <=>
                In(Accepted, wire'["server"]) \/ Accepted = Head(wire["server"])
      BY <1>5, QueueTail DEF SReads
    <2>2. In(Accepted, inq'["server"]) <=>
             In(Accepted, inq["server"]) \/ Accepted = Head(wire["server"])
      BY <1>5, <2>1, QueueAppend DEF SReads
    <2> QED
      BY <2>1, <2>2
  <1>6. CASE SLoses
    BY <1>6, InEmpty DEF SLoses
  <1>7. CASE STakes \/ STakesKey \/ SGets
    <2>1. /\ inq["server"] # <<>> /\ inq'["server"] = Tail(inq["server"])
          /\ wire'["server"] = wire["server"]
      BY <1>7 DEF STakes, STakesKey, SGets
    <2>2. In(Accepted, inq'["server"]) => In(Accepted, inq["server"])
      BY <2>1, QueueTail
    <2> QED
      BY <2>1, <2>2
  <1> QED
    BY <1>1, <1>2, <1>3, <1>4, <1>5, <1>6, <1>7, ServerBound

\* No handshake is on its way before the server waits for the answer.
LEMMA ShakeStep ==
    ASSUME TypeInv, EndInv, HistTypes, ShakeInv, Next
    PROVE  ShakeInv'
  <1> SUFFICES ASSUME sock'["server"] # "closed", target \in types, Shaking' \/ Answering'
               PROVE  state'["server"] \in {"wait1", "active"}
    BY SetupSame DEF ShakeInv
  <1>1. Shaking \/ Answering \/ state'["server"] = "wait1"
    BY ShakingStep, AnsweringStep
  <1>2. sock["server"] # "closed"
    BY Stays, SidesFacts
  <1> QED
    BY <1>1, <1>2, Stays DEF ShakeInv

-----------------------------------------------------------------------------
(* The server is established before it gets packets *)

\* Every packet of an application in q has the packet k before it.
Ordered(k, q) == \A i \in 1..Len(q) : q[i] \in UserIds => \E j \in 1..(i - 1) : q[j] = k

LEMMA OrderedAppend ==
    ASSUME NEW k, NEW q \in Seq(Packets), NEW r \in Packets, Ordered(k, q),
           r \notin UserIds \/ In(k, q)
    PROVE  Ordered(k, Append(q, r))
  <1> DEFINE n == Len(q)
             a == Append(q, r)
  <1>1. n \in Nat /\ Len(a) = n + 1 /\ a[n + 1] = r /\ \A i \in 1..n : a[i] = q[i]
    OBVIOUS
  <1>2. ASSUME NEW i \in 1..Len(a), a[i] \in UserIds PROVE \E j \in 1..(i - 1) : a[j] = k
    <2>1. CASE i = n + 1
      <3>1. PICK j \in 1..n : q[j] = k
        BY <1>1, <1>2, <2>1 DEF In
      <3>2. j \in 1..(i - 1) /\ a[j] = k
        BY <1>1, <2>1, <3>1
      <3> QED
        BY <3>2
    <2>2. CASE i # n + 1
      <3>1. i \in 1..n /\ a[i] = q[i]
        BY <1>1, <2>2
      <3>2. PICK j \in 1..(i - 1) : q[j] = k
        BY <1>2, <3>1 DEF Ordered
      <3>3. j \in 1..n /\ a[j] = k
        BY <1>1, <3>1, <3>2
      <3> QED
        BY <3>2, <3>3
    <2> QED
      BY <2>1, <2>2
  <1> QED
    BY <1>2 DEF Ordered

LEMMA OrderedTail ==
    ASSUME NEW k, NEW q \in Seq(Packets), q # <<>>, Ordered(k, q)
    PROVE  Head(q) \notin UserIds /\ (Head(q) # k => Ordered(k, Tail(q)))
  <1> DEFINE n == Len(q)
             t == Tail(q)
  <1>1. n \in Nat /\ n > 0 /\ Head(q) = q[1] /\ Len(t) = n - 1 /\ \A i \in 1..(n - 1) : t[i] = q[i + 1]
    OBVIOUS
  <1>2. Head(q) \notin UserIds
    BY <1>1 DEF Ordered
  <1>3. ASSUME Head(q) # k, NEW i \in 1..Len(t), t[i] \in UserIds
        PROVE  \E j \in 1..(i - 1) : t[j] = k
    <2>1. i \in 1..(n - 1) /\ i + 1 \in 1..n /\ q[i + 1] \in UserIds
      BY <1>1, <1>3
    <2>2. PICK j \in 1..((i + 1) - 1) : q[j] = k
      BY <2>1 DEF Ordered
    <2>3. j # 1
      BY <1>1, <1>3, <2>2
    <2>4. j - 1 \in 1..(i - 1) /\ j - 1 \in 1..(n - 1) /\ (j - 1) + 1 = j
      BY <2>1, <2>2, <2>3
    <2>5. t[j - 1] = k
      BY <1>1, <2>2, <2>4
    <2> QED
      BY <2>4, <2>5
  <1> QED
    BY <1>2, <1>3 DEF Ordered

LEMMA OrderedEmpty == \A k : Ordered(k, <<>>)
  BY DEF Ordered

\* The packet that makes the server established has been sent by an established
\* client, and comes before all packets of its application.
KeyTold == In(Key, wire["server"]) \/ In(Key, inq["server"]) => Is("client")
KeyFirst == /\ Ordered(Key, inq["server"])
            /\ In(Key, inq["server"]) \/ Ordered(Key, wire["server"])
            /\ \/ In(Key, inq["server"]) \/ In(Key, wire["server"])
               \/ ~Is("client") \/ sock["client"] = "closed"
KeyInv == /\ Is("server") => Is("client")
          /\ sock["server"] # "closed" /\ target \in types => KeyTold /\ (Is("server") \/ KeyFirst)

LEMMA KeySame == Next => Key' = Key
  BY SetupSame DEF Key

\* The packets of applications are no packets of the handshake.
LEMMA NamedIsUser ==
    ASSUME NEW s \in Sides, NEW n, NEW p, <<p, n>> \in Naming(s)
    PROVE  p \in UserIds /\ p \in Packets /\ p # Key
  <1>1. p \in UserIds
    BY ServerIdsFacts, UserPackets DEF Naming, Common
  <1> QED
    BY <1>1, UserPackets, KeyFacts

LEMMA KeyBound ==
    ASSUME TypeInv, EndInv, HistTypes, ShakeInv, KeyInv, Next, sock'["server"] # "closed",
           target \in types
    PROVE  /\ Is("server")' => Is("client")'
           /\ KeyTold' /\ (Is("server") \/ KeyFirst)'
  <1> USE SidesFacts DEF TypeInv, PipeTypes
  <1> DEFINE w == wire["server"]
             q == inq["server"]
             ww == wire'["server"]
             qq == inq'["server"]
  <1>0. /\ KeyTold /\ (Is("server") \/ KeyFirst) /\ (Is("server") => Is("client"))
        /\ w \in Seq(Packets) /\ q \in Seq(Packets) /\ Key \in Packets /\ Key \notin UserIds
    BY Stays, KeyFacts DEF KeyInv
  <1>1. /\ Is("client") => Is("client")'
        /\ Is("server") => Is("server")'
        /\ sock["client"] = "closed" => sock'["client"] = "closed"
    BY Stays
  <1> DEFINE Result == /\ Is("server")' => Is("client")'
                       /\ In(Key, ww) \/ In(Key, qq) => Is("client")'
                       /\ \/ Is("server")'
                          \/ /\ Ordered(Key, qq)
                             /\ In(Key, qq) \/ Ordered(Key, ww)
                             /\ \/ In(Key, qq) \/ In(Key, ww) \/ ~Is("client")'
                                \/ sock'["client"] = "closed"
  <1>2. SUFFICES Result
    BY KeySame DEF KeyTold, KeyFirst
  <1> HIDE DEF w, q, ww, qq
  <1>3. CASE SQuiet
    <2>1. ww = w /\ qq = q /\ UNCHANGED established
      BY <1>3 DEF SQuiet, Same, w, q, ww, qq
    <2> QED
      BY <1>0, <1>1, <2>1 DEF KeyTold, KeyFirst, Is, w, q
  <1>4. CASE SSays
    <2>1. PICK p \in {SetType, CloseConn} \ {Key} : Delivers(p)
      BY <1>4 DEF SSays
    <2>2. p \in Packets /\ p \notin UserIds /\ p # Key
      BY <2>1, NotUser, PacketsFacts
    <2>3. qq = q /\ UNCHANGED established /\ (ww = w \/ ww = Append(w, p))
      BY <1>4, <2>1 DEF SSays, Delivers, w, q, ww, qq
    <2>4. In(Key, ww) <=> In(Key, w)
      <3>1. In(Key, Append(w, p)) <=> In(Key, w)
        BY <1>0, <2>2, QueueAppend
      <3> QED
        BY <2>3, <3>1
    <2>5. Ordered(Key, w) => Ordered(Key, ww)
      BY <1>0, <2>2, <2>3, OrderedAppend
    <2> QED
      BY <1>0, <1>1, <2>3, <2>4, <2>5 DEF KeyTold, KeyFirst, Is, w, q
  <1>5. CASE SGreets
    <2>1. qq = q /\ Is("client")' /\ (Is("server")' <=> Is("server"))
          /\ IF sock["client"] = "open" THEN ww = Append(w, Key) ELSE ww = w
      BY <1>5 DEF SGreets, Delivers, Is, w, q, ww, qq
    <2>0. In(Key, Append(w, Key))
      BY <1>0, QueueAppend
    <2>2. In(Key, w) => In(Key, ww)
      BY <2>0, <2>1
    <2>3. Ordered(Key, w) => Ordered(Key, ww)
      BY <1>0, <2>1, OrderedAppend
    <2>4. In(Key, ww) \/ sock'["client"] = "closed"
      <3>1. sock["client"] = "open" \/ sock["client"] = "closed"
        BY DEF EndTypes
      <3> QED
        BY <1>1, <2>0, <2>1, <3>1
    <2> QED
      BY <1>0, <1>1, <2>1, <2>2, <2>3, <2>4 DEF KeyFirst, w, q
  <1>6. CASE SWrites
    <2>1. PICK n, p : <<p, n>> \in Naming("server") /\ ww = Append(w, p)
      BY <1>6 DEF SWrites, w, ww
    <2>2. p \in UserIds /\ p \in Packets /\ p # Key
      BY <2>1, NamedIsUser
    <2>3. qq = q /\ UNCHANGED established /\ Is("client") /\ sock["client"] = "open"
      BY <1>6 DEF SWrites, q, qq
    <2>4. In(Key, ww) <=> In(Key, w)
      BY <1>0, <2>1, <2>2, QueueAppend
    <2>5. Ordered(Key, w) /\ In(Key, w) => Ordered(Key, ww)
      BY <1>0, <2>1, <2>2, OrderedAppend
    <2> QED
      BY <1>0, <1>1, <2>3, <2>4, <2>5 DEF KeyFirst, Is, w, q
  <1>7. CASE SReads
    <2>1. w # <<>> /\ ww = Tail(w) /\ qq = Append(q, Head(w)) /\ UNCHANGED established
      BY <1>7 DEF SReads, w, q, ww, qq
    <2>2. /\ Head(w) \in Packets
          /\ In(Key, w) <=> In(Key, ww) \/ Key = Head(w)
      BY <1>0, <2>1, QueueTail
    <2>3. In(Key, qq) <=> In(Key, q) \/ Key = Head(w)
      BY <1>0, <2>1, <2>2, QueueAppend
    <2>4. Ordered(Key, w) => Head(w) \notin UserIds /\ (Head(w) # Key => Ordered(Key, ww))
      BY <1>0, <2>1, OrderedTail
    <2>5. Ordered(Key, q) /\ (Head(w) \notin UserIds \/ In(Key, q)) => Ordered(Key, qq)
      BY <1>0, <2>1, <2>2, OrderedAppend
    <2> QED
      BY <1>0, <1>1, <2>1, <2>2, <2>3, <2>4, <2>5 DEF KeyTold, KeyFirst, Is, w, q
  <1>8. CASE SLoses
    <2>1. ww = <<>> /\ qq = q /\ UNCHANGED established /\ sock["client"] = "closed"
      BY <1>8 DEF SLoses, w, q, ww, qq
    <2> QED
      BY <1>0, <1>1, <2>1, InEmpty, OrderedEmpty DEF KeyTold, KeyFirst, Is, w, q
  <1>9. CASE STakes \/ SGets
    <2>1. ww = w /\ q # <<>> /\ qq = Tail(q) /\ UNCHANGED established /\ Head(q) # Key
      BY <1>0, <1>9 DEF STakes, SGets, w, q, ww, qq
    <2>2. In(Key, q) <=> In(Key, qq)
      BY <1>0, <2>1, QueueTail
    <2>3. Ordered(Key, q) => Ordered(Key, qq)
      BY <1>0, <2>1, OrderedTail
    <2> QED
      BY <1>0, <1>1, <2>1, <2>2, <2>3 DEF KeyTold, KeyFirst, Is, w, q
  <1>10. CASE STakesKey
    <2>1. ww = w /\ q # <<>> /\ qq = Tail(q) /\ Head(q) = Key
      BY <1>10 DEF STakesKey, w, q, ww, qq
    <2>2. In(Key, q) /\ (In(Key, qq) => In(Key, q))
      BY <1>0, <2>1, QueueTail
    <2>3. Is("client")
      BY <1>0, <2>2 DEF KeyTold, q
    <2>4. Is("server")'
      <3>1. CASE target # "ping" /\ state["server"] \notin {"wait1", "active"}
        <4>1. Key = Accepted
          BY <3>1 DEF Key
        <4>2. sock["server"] # "closed"
          BY Stays
        <4> QED
          BY <2>2, <3>1, <4>1, <4>2 DEF ShakeInv, Answering, q
      <3> QED
        BY <1>1, <1>10, <3>1 DEF STakesKey, Is
    <2> QED
      BY <1>1, <2>3, <2>4
  <1> QED
    BY <1>3, <1>4, <1>5, <1>6, <1>7, <1>8, <1>9, <1>10, ServerBound

\* The packet that establishes the server stays ahead of the application's packets.
LEMMA KeyStep ==
    ASSUME TypeInv, EndInv, HistTypes, ShakeInv, KeyInv, Next
    PROVE  KeyInv'
  <1>1. CASE sock'["server"] # "closed" /\ target \in types
    BY <1>1, KeyBound DEF KeyInv
  <1>2. CASE ~(sock'["server"] # "closed" /\ target \in types)
    <2>1. Is("server")' => Is("server")
      BY <1>2, NewServer
    <2>2. Is("client") => Is("client")'
      BY Stays, SidesFacts
    <2> QED
      BY <1>2, <2>1, <2>2, SetupSame DEF KeyInv
  <1> QED
    BY <1>1, <1>2

-----------------------------------------------------------------------------
(* Packets on their way: received and not handled, or in the network *)

\* The packets received but not handled, q, and those in the network, w, carry
\* what is in S after its first i up to its first l.
Flow(R, q, w, S, i, l) == \E k \in Nat : Run(R, q, S, i, k) /\ Run(R, w, S, k, l)

LEMMA FlowRange ==
    ASSUME NEW R, NEW S, NEW q \in Seq(Packets), NEW w \in Seq(Packets), NEW i, NEW l \in Nat,
           Flow(R, q, w, S, i, l)
    PROVE  i \in Nat /\ i <= l
  <1>1. PICK k \in Nat : Run(R, q, S, i, k) /\ Run(R, w, S, k, l)
    BY DEF Flow
  <1>2. i \in Nat /\ i <= k
    BY <1>1, RunRange
  <1>3. k <= l
    BY <1>1, RunRange
  <1> QED
    BY <1>2, <1>3

LEMMA FlowNone ==
    ASSUME NEW R, NEW S, NEW i \in Nat
    PROVE  Flow(R, <<>>, <<>>, S, i, i)
  BY RunEmpty DEF Flow

\* The net thread moves a packet from the network to the queue.
LEMMA FlowRead ==
    ASSUME NEW R, NEW S, NEW q \in Seq(Packets), NEW w \in Seq(Packets), w # <<>>,
           NEW i, NEW l \in Nat, Flow(R, q, w, S, i, l)
    PROVE  Flow(R, Append(q, Head(w)), Tail(w), S, i, l)
  <1>1. PICK k \in Nat : Run(R, q, S, i, k) /\ Run(R, w, S, k, l)
    BY DEF Flow
  <1>2. Head(w) \in Packets
    OBVIOUS
  <1>3. CASE Head(w) \notin UserIds
    <2>1. Run(R, Tail(w), S, k, l)
      BY <1>1, <1>3, RunTail
    <2>2. Run(R, Append(q, Head(w)), S, i, k)
      BY <1>1, <1>2, <1>3, RunOther
    <2> QED
      BY <2>1, <2>2 DEF Flow
  <1>4. CASE Head(w) \in UserIds
    <2>1. <<Head(w), S[k + 1]>> \in R /\ Run(R, Tail(w), S, k + 1, l)
      BY <1>1, <1>4, RunTail
    <2>2. Run(R, Append(q, Head(w)), S, i, k + 1)
      BY <1>1, <1>2, <1>4, <2>1, RunUser
    <2>3. k + 1 \in Nat
      OBVIOUS
    <2> QED
      BY <2>1, <2>2, <2>3 DEF Flow
  <1> QED
    BY <1>3, <1>4

\* The proc thread takes a packet out of the queue: the next one that was sent.
LEMMA FlowTake ==
    ASSUME NEW R, NEW S, NEW q \in Seq(Packets), NEW w \in Seq(Packets), q # <<>>,
           NEW i, NEW l \in Nat, Flow(R, q, w, S, i, l)
    PROVE  /\ Head(q) \notin UserIds => Flow(R, Tail(q), w, S, i, l)
           /\ Head(q) \in UserIds => /\ i + 1 <= l /\ <<Head(q), S[i + 1]>> \in R
                                     /\ Flow(R, Tail(q), w, S, i + 1, l)
  <1>1. PICK k \in Nat : Run(R, q, S, i, k) /\ Run(R, w, S, k, l)
    BY DEF Flow
  <1>2. k <= l /\ i \in Nat
    <2>1. k <= l
      BY <1>1, RunRange
    <2>2. i \in Nat
      BY <1>1, RunRange
    <2> QED
      BY <2>1, <2>2
  <1>3. ASSUME Head(q) \notin UserIds PROVE Flow(R, Tail(q), w, S, i, l)
    <2>1. Run(R, Tail(q), S, i, k)
      BY <1>1, <1>3, RunTail
    <2> QED
      BY <1>1, <2>1 DEF Flow
  <1>4. ASSUME Head(q) \in UserIds
        PROVE  i + 1 <= l /\ <<Head(q), S[i + 1]>> \in R /\ Flow(R, Tail(q), w, S, i + 1, l)
    <2>1. i + 1 <= k /\ <<Head(q), S[i + 1]>> \in R /\ Run(R, Tail(q), S, i + 1, k)
      BY <1>1, <1>4, RunTail
    <2>2. i + 1 <= l
      BY <1>2, <2>1
    <2> QED
      BY <1>1, <2>1, <2>2 DEF Flow
  <1> QED
    BY <1>3, <1>4

\* A packet is put into the network.
LEMMA FlowAdd ==
    ASSUME NEW R, NEW S, NEW q \in Seq(Packets), NEW w \in Seq(Packets), NEW p \in Packets,
           NEW i, NEW l \in Nat, Flow(R, q, w, S, i, l)
    PROVE  /\ p \notin UserIds => Flow(R, q, Append(w, p), S, i, l)
           /\ p \in UserIds /\ <<p, S[l + 1]>> \in R => Flow(R, q, Append(w, p), S, i, l + 1)
  <1>1. PICK k \in Nat : Run(R, q, S, i, k) /\ Run(R, w, S, k, l)
    BY DEF Flow
  <1>2. ASSUME p \notin UserIds PROVE Run(R, Append(w, p), S, k, l)
    BY <1>1, <1>2, RunOther
  <1>3. ASSUME p \in UserIds, <<p, S[l + 1]>> \in R PROVE Run(R, Append(w, p), S, k, l + 1)
    BY <1>1, <1>3, RunUser
  <1> QED
    BY <1>1, <1>2, <1>3 DEF Flow

\* TCP loses what is in the network.
LEMMA FlowCut ==
    ASSUME NEW R, NEW S, NEW q \in Seq(Packets), NEW w \in Seq(Packets),
           NEW i, NEW l \in Nat, Flow(R, q, w, S, i, l)
    PROVE  \E m \in Nat : m <= l /\ Flow(R, q, <<>>, S, i, m)
  <1>1. PICK k \in Nat : Run(R, q, S, i, k) /\ Run(R, w, S, k, l)
    BY DEF Flow
  <1>2. k <= l
    BY <1>1, RunRange
  <1>3. Run(R, <<>>, S, k, k)
    BY RunEmpty
  <1> QED
    BY <1>1, <1>2, <1>3 DEF Flow

\* What has been sent grows at its end.
LEMMA FlowGrow ==
    ASSUME NEW R, NEW U, NEW S \in Seq(U), NEW u \in U,
           NEW q \in Seq(Packets), NEW w \in Seq(Packets),
           NEW i, NEW l \in Nat, l <= Len(S), Flow(R, q, w, S, i, l)
    PROVE  Flow(R, q, w, Append(S, u), i, l)
  <1>1. PICK k \in Nat : Run(R, q, S, i, k) /\ Run(R, w, S, k, l)
    BY DEF Flow
  <1>2. k <= Len(S)
    <2>1. k <= l
      BY <1>1, RunRange
    <2> QED
      BY <2>1
  <1>3. Run(R, q, Append(S, u), i, k)
    BY <1>1, <1>2, RunGrow
  <1>4. Run(R, w, Append(S, u), k, l)
    BY <1>1, RunGrow
  <1> QED
    BY <1>3, <1>4 DEF Flow

-----------------------------------------------------------------------------
(* Nothing is overtaken, doubled or taken for another packet *)

\* What is on its way to an end is what it has not got, up to what TCP lost; the
\* server's queue has the rest while both sockets are there.
ClientCount == \E l \in Nat :
    /\ l <= Len(sent["server"])
    /\ Flow(Naming("client"), inq["client"], wire["client"], sent["server"], Len(got["client"]), l)
    /\ sock["client"] = "open" /\ sock["server"] # "closed" =>
          Run(Naming("client"), writeq, sent["server"], l, Len(sent["server"]))
ServerCount == sock["server"] # "closed" /\ target \in types => \E l \in Nat :
    /\ l <= Len(sent["client"])
    /\ Flow(Naming("server"), inq["server"], wire["server"], sent["client"], Len(got["server"]), l)
    /\ sock["client"] = "open" => l = Len(sent["client"])

\* An end receives nothing, or the next packet that was sent to it.
Receives(s) == \/ got'[s] = got[s]
               \/ /\ Len(got[s]) < Len(sent[Other(s)])
                  /\ got'[s] = Append(got[s], sent[Other(s)][Len(got[s]) + 1])

\* Both registries have the names of what is sent; the client's as soon as the
\* server is established.
LEMMA NamesServer ==
    ASSUME target # "ping", NEW n, NEW p, <<p, n>> \in Naming("server")
    PROVE  Known(ServerIds, p) /\ NameOf(ServerIds, p) = n
  <1>1. n \in DOMAIN ServerIds /\ ServerIds[n] = p
    BY DEF Naming, Common
  <1>2. \A m \in DOMAIN ServerIds : ServerIds[m] = p => m = n
    BY <1>1, ServerIdsFacts DEF OneToOne
  <1> QED
    BY <1>1, <1>2 DEF Known, NameOf

LEMMA NamesClient ==
    ASSUME TypeInv, EndInv, KeyInv, SentInv, sent["server"] # <<>>, target # "ping",
           NEW n, NEW p, <<p, n>> \in Naming("client")
    PROVE  Known(ids, p) /\ NameOf(ids, p) = n
  <1>1. Is("client")
    BY SidesFacts DEF SentInv, KeyInv
  <1>2. n \in DOMAIN ids /\ ids[n] = p
    BY <1>1 DEF Naming, Common, EndInv, ClientEnd
  <1>3. \A m \in DOMAIN ids : ids[m] = p => m = n
    BY <1>2 DEF OneToOne, TypeInv, IdsInv
  <1> QED
    BY <1>2, <1>3 DEF Known, NameOf

LEMMA ClientCountStep ==
    ASSUME TypeInv, EndInv, HistTypes, KeyInv, SentInv, ClientCount, Next
    PROVE  ClientCount' /\ Receives("client")
  <1> USE SidesFacts
  <1> DEFINE T == DOMAIN ids \cup DOMAIN ServerIds \cup {"ping", "pong"}
             R == Naming("client")
             q == inq["client"]      qq == inq'["client"]
             w == wire["client"]     ww == wire'["client"]
             S == sent["server"]     SS == sent'["server"]
             g == got["client"]      gg == got'["client"]
             C == sock["client"] = "open" /\ sock["server"] # "closed"
             CC == sock'["client"] = "open" /\ sock'["server"] # "closed"
             Result == \E l \in Nat : /\ l <= Len(SS) /\ Flow(R, qq, ww, SS, Len(gg), l)
                                      /\ CC => Run(R, writeq', SS, l, Len(SS))
             Gets1 == gg = g \/ (Len(g) < Len(S) /\ gg = Append(g, S[Len(g) + 1]))
  <1>1. /\ q \in Seq(Packets) /\ w \in Seq(Packets) /\ writeq \in Seq(Packets)
        /\ S \in Seq(T) /\ g \in Seq(T)
    BY DEF TypeInv, PipeTypes, HistTypes
  <1>2. CC => C
    BY Stays DEF TypeInv, EndTypes
  <1>3. PICK l \in Nat : /\ l <= Len(S) /\ Flow(R, q, w, S, Len(g), l)
                         /\ C => Run(R, writeq, S, l, Len(S))
    BY DEF ClientCount
  <1>4. SUFFICES Result /\ Gets1
    BY NamingSame DEF ClientCount, Receives
  <1>5. Len(g) \in Nat /\ Len(S) \in Nat
    BY <1>1
  <1> HIDE DEF T, R, q, qq, w, ww, S, SS, g, gg, C, CC
  <1>6. CASE CQuiet
    <2>1. qq = q /\ ww = w /\ SS = S /\ gg = g /\ UNCHANGED writeq
      BY <1>6 DEF CQuiet, Same, q, qq, w, ww, S, SS, g, gg
    <2> QED
      BY <1>2, <1>3, <2>1
  <1>7. CASE CAccept
    <2>1. qq = q /\ ww = w /\ SS = S /\ gg = g /\ writeq = <<>> /\ writeq' = Append(<<>>, Hello)
      BY <1>7 DEF CAccept, Same, EndInv, ServerEnd, q, qq, w, ww, S, SS, g, gg
    <2>2. C => Run(R, writeq', S, l, Len(S))
      BY <1>1, <1>3, <1>5, <2>1, PacketsFacts, NotUser, RunOther
    <2> QED
      BY <1>2, <1>3, <2>1, <2>2
  <1>8. CASE CSays
    <2>1. qq = q /\ ww = w /\ SS = S /\ gg = g
          /\ (writeq' = Append(writeq, Handshake) \/ writeq' = Append(writeq, CloseConn))
      BY <1>8 DEF CSays, Same, q, qq, w, ww, S, SS, g, gg
    <2>2. C => /\ Run(R, Append(writeq, Handshake), S, l, Len(S))
               /\ Run(R, Append(writeq, CloseConn), S, l, Len(S))
      <3>1. Handshake \in Packets \ UserIds /\ CloseConn \in Packets \ UserIds
        BY PacketsFacts, NotUser
      <3> QED
        BY <1>1, <1>3, <1>5, <3>1, RunOther
    <2> QED
      BY <1>2, <1>3, <2>1, <2>2
  <1>9. CASE CWrites
    <2>1. PICK n, p : <<p, n>> \in R /\ writeq' = Append(writeq, p) /\ SS = Append(S, n)
      BY <1>9 DEF CWrites, R, S, SS
    <2>2. qq = q /\ ww = w /\ gg = g
      BY <1>9 DEF CWrites, Same, q, qq, w, ww, g, gg
    <2>3. p \in UserIds /\ p \in Packets
      BY <2>1, NamedIsUser DEF R
    <2>4. n \in T
      BY <2>1 DEF R, T, Naming, Common
    <2>5. /\ Len(SS) = Len(S) + 1 /\ l <= Len(SS) /\ SS[Len(S) + 1] = n
          /\ Flow(R, q, w, SS, Len(g), l)
      BY <1>1, <1>3, <1>5, <2>1, <2>4, FlowGrow
    <2>6. C => Run(R, writeq', SS, l, Len(S) + 1)
      <3>1. C => Run(R, writeq, SS, l, Len(S))
        BY <1>1, <1>3, <1>5, <2>1, <2>4, RunGrow
      <3>2. <<p, SS[Len(S) + 1]>> \in R
        BY <2>1, <2>5
      <3> QED
        BY <1>1, <1>5, <2>1, <2>3, <3>1, <3>2, RunUser
    <2> QED
      BY <1>2, <2>2, <2>5, <2>6
  <1>10. CASE CMoves
    <2>1. qq = q /\ SS = S /\ gg = g /\ writeq # <<>> /\ writeq' = Tail(writeq)
      BY <1>10 DEF CMoves, q, qq, S, SS, g, gg
    <2>2. CASE sock["client"] = "closed"
      <3>1. ww = w /\ ~CC
        BY <1>2, <1>10, <2>2 DEF CMoves, w, ww, C
      <3> QED
        BY <1>3, <2>1, <3>1
    <2>3. CASE sock["client"] # "closed"
      <3>1. ww = Append(w, Head(writeq)) /\ C
        BY <1>10, <2>3 DEF CMoves, w, ww, C, TypeInv, EndTypes
      <3>2. Head(writeq) \in Packets
        BY <1>1, <2>1
      <3>3. CASE Head(writeq) \notin UserIds
        <4>1. Run(R, writeq', S, l, Len(S))
          BY <1>1, <1>3, <1>5, <2>1, <3>1, <3>3, RunTail
        <4>2. Flow(R, q, ww, S, Len(g), l)
          BY <1>1, <1>3, <1>5, <3>1, <3>2, <3>3, FlowAdd
        <4> QED
          BY <1>3, <2>1, <4>1, <4>2
      <3>4. CASE Head(writeq) \in UserIds
        <4>1. /\ l + 1 <= Len(S) /\ <<Head(writeq), S[l + 1]>> \in R
              /\ Run(R, writeq', S, l + 1, Len(S))
          BY <1>1, <1>3, <1>5, <2>1, <3>1, <3>4, RunTail
        <4>2. Flow(R, q, ww, S, Len(g), l + 1)
          BY <1>1, <1>3, <1>5, <3>1, <3>2, <3>4, <4>1, FlowAdd
        <4>3. l + 1 \in Nat
          OBVIOUS
        <4> QED
          BY <2>1, <4>1, <4>2, <4>3
      <3> QED
        BY <3>3, <3>4
    <2> QED
      BY <2>2, <2>3
  <1>11. CASE CReads
    <2>1. /\ w # <<>> /\ ww = Tail(w) /\ qq = Append(q, Head(w)) /\ SS = S /\ gg = g
          /\ UNCHANGED writeq
      BY <1>11 DEF CReads, q, qq, w, ww, S, SS, g, gg
    <2>2. Flow(R, qq, ww, S, Len(g), l)
      BY <1>1, <1>3, <1>5, <2>1, FlowRead
    <2> QED
      BY <1>2, <1>3, <2>1, <2>2
  <1>12. CASE CLoses
    <2>1. /\ ww = <<>> /\ SS = S /\ gg = g /\ ~CC
          /\ qq = q \/ qq = <<>> \/ (q # <<>> /\ Head(q) \notin UserIds /\ qq = Tail(q))
      BY <1>2, <1>12 DEF CLoses, q, qq, ww, S, SS, g, gg, C, CC
    <2>2. PICK m \in Nat : m <= l /\ Flow(R, q, <<>>, S, Len(g), m)
      BY <1>1, <1>3, <1>5, FlowCut
    <2>3. <<>> \in Seq(Packets)
      OBVIOUS
    <2>4. CASE qq = q
      BY <1>3, <1>5, <2>1, <2>2, <2>4
    <2>5. CASE qq = <<>>
      <3>1. Flow(R, <<>>, <<>>, S, Len(g), Len(g))
        BY <1>5, FlowNone
      <3>2. Len(g) <= m
        BY <1>1, <2>2, <2>3, FlowRange
      <3> QED
        BY <1>3, <1>5, <2>1, <2>2, <2>5, <3>1, <3>2
    <2>6. CASE q # <<>> /\ Head(q) \notin UserIds /\ qq = Tail(q)
      <3>1. Flow(R, qq, <<>>, S, Len(g), m)
        BY <1>1, <1>5, <2>2, <2>3, <2>6, FlowTake
      <3> QED
        BY <1>3, <1>5, <2>1, <2>2, <3>1
    <2> QED
      BY <2>1, <2>4, <2>5, <2>6
  <1>13. CASE CTakes
    <2>1. /\ q # <<>> /\ Head(q) \notin UserIds /\ qq = Tail(q) /\ ww = w /\ SS = S /\ gg = g
          /\ UNCHANGED writeq
      BY <1>13 DEF CTakes, q, qq, w, ww, S, SS, g, gg
    <2>2. Flow(R, qq, ww, S, Len(g), l)
      BY <1>1, <1>3, <1>5, <2>1, FlowTake
    <2> QED
      BY <1>2, <1>3, <2>1, <2>2
  <1>14. CASE CGets
    <2>1. /\ q # <<>> /\ Head(q) \in UserIds /\ qq = Tail(q) /\ ww = w /\ SS = S
          /\ UNCHANGED writeq
      BY <1>14 DEF CGets, q, qq, w, ww, S, SS
    <2>2. /\ Len(g) + 1 <= l /\ <<Head(q), S[Len(g) + 1]>> \in R
          /\ Flow(R, qq, ww, S, Len(g) + 1, l)
      BY <1>1, <1>3, <1>5, <2>1, FlowTake
    <2>3. Len(g) < Len(S) /\ S # <<>>
      BY <1>1, <1>3, <1>5, <2>2
    <2>4. gg = Append(g, S[Len(g) + 1])
      <3>1. CASE target = "classic"
        <4>1. Known(ids, Head(q)) /\ NameOf(ids, Head(q)) = S[Len(g) + 1]
          BY <2>2, <2>3, <3>1, NamesClient DEF R, S
        <4> QED
          BY <1>14, <3>1, <4>1 DEF CGets, q, g, gg
      <3>2. CASE target = "ping"
        <4>1. S[Len(g) + 1] = "pong"
          BY <2>2, <3>2 DEF R, Naming
        <4> QED
          BY <1>14, <3>2, <4>1 DEF CGets, g, gg
      <3> QED
        BY <1>14, <3>1, <3>2 DEF CGets
    <2>5. Len(gg) = Len(g) + 1
      BY <1>1, <2>3, <2>4
    <2> QED
      BY <1>2, <1>3, <2>1, <2>2, <2>3, <2>4, <2>5
  <1> QED
    BY <1>6, <1>7, <1>8, <1>9, <1>10, <1>11, <1>12, <1>13, <1>14, ClientBound

LEMMA ServerCountBound ==
    ASSUME TypeInv, EndInv, HistTypes, KeyInv, ServerCount, Next, sock'["server"] # "closed",
           target \in types
    PROVE  /\ \E l \in Nat :
                 /\ l <= Len(sent'["client"])
                 /\ Flow(Naming("server"), inq'["server"], wire'["server"], sent'["client"],
                         Len(got'["server"]), l)
                 /\ sock'["client"] = "open" => l = Len(sent'["client"])
           /\ Receives("server")
  <1> USE SidesFacts
  <1> DEFINE T == DOMAIN ids \cup DOMAIN ServerIds \cup {"ping", "pong"}
             R == Naming("server")
             q == inq["server"]      qq == inq'["server"]
             w == wire["server"]     ww == wire'["server"]
             S == sent["client"]     SS == sent'["client"]
             g == got["server"]      gg == got'["server"]
             C == sock["client"] = "open"
             CC == sock'["client"] = "open"
             Result == \E l \in Nat : /\ l <= Len(SS) /\ Flow(R, qq, ww, SS, Len(gg), l)
                                      /\ CC => l = Len(SS)
             Gets1 == gg = g \/ (Len(g) < Len(S) /\ gg = Append(g, S[Len(g) + 1]))
  <1>1. /\ q \in Seq(Packets) /\ w \in Seq(Packets)
        /\ S \in Seq(T) /\ g \in Seq(T)
    BY DEF TypeInv, PipeTypes, HistTypes
  <1>2. CC => C
    BY Stays DEF TypeInv, EndTypes
  <1>3. PICK l \in Nat : l <= Len(S) /\ Flow(R, q, w, S, Len(g), l) /\ (C => l = Len(S))
    BY Stays DEF ServerCount
  <1>4. SUFFICES Result /\ Gets1
    BY DEF Receives
  <1>5. Len(g) \in Nat /\ Len(S) \in Nat
    BY <1>1
  <1> HIDE DEF T, R, q, qq, w, ww, S, SS, g, gg, C, CC
  <1>6. CASE SQuiet
    <2>1. qq = q /\ ww = w /\ SS = S /\ gg = g
      BY <1>6 DEF SQuiet, Same, Kept, q, qq, w, ww, S, SS, g, gg
    <2> QED
      BY <1>2, <1>3, <2>1
  <1>7. CASE SSays \/ SGreets
    <2>1. PICK p : p \in Packets /\ p \notin UserIds /\ Delivers(p)
      BY <1>7, KeyFacts, PacketsFacts, NotUser DEF SSays, SGreets
    <2>2. qq = q /\ SS = S /\ gg = g /\ (ww = w \/ ww = Append(w, p))
      BY <1>7, <2>1 DEF SSays, SGreets, Kept, Delivers, q, qq, w, ww, S, SS, g, gg
    <2>3. Flow(R, q, Append(w, p), S, Len(g), l)
      BY <1>1, <1>3, <1>5, <2>1, FlowAdd
    <2> QED
      BY <1>2, <1>3, <2>2, <2>3
  <1>8. CASE SWrites
    <2>1. PICK n, p : <<p, n>> \in R /\ ww = Append(w, p) /\ SS = Append(S, n)
      BY <1>8 DEF SWrites, R, w, ww, S, SS
    <2>2. qq = q /\ gg = g /\ l = Len(S)
      BY <1>3, <1>8 DEF SWrites, q, qq, g, gg, C
    <2>3. p \in UserIds /\ p \in Packets
      BY <2>1, NamedIsUser DEF R
    <2>4. n \in T
      BY <2>1 DEF R, T, Naming, Common
    <2>5. /\ Len(SS) = Len(S) + 1 /\ SS[Len(S) + 1] = n /\ Flow(R, q, w, SS, Len(g), l)
      BY <1>1, <1>3, <1>5, <2>1, <2>4, FlowGrow
    <2>6. <<p, SS[l + 1]>> \in R
      BY <2>1, <2>2, <2>5
    <2>7. Flow(R, q, ww, SS, Len(g), l + 1)
      BY <1>1, <1>5, <2>1, <2>3, <2>5, <2>6, FlowAdd
    <2>8. l + 1 \in Nat /\ l + 1 = Len(SS) /\ l + 1 <= Len(SS)
      BY <1>5, <2>2, <2>5
    <2> QED
      BY <2>2, <2>7, <2>8
  <1>9. CASE SReads
    <2>1. w # <<>> /\ ww = Tail(w) /\ qq = Append(q, Head(w)) /\ SS = S /\ gg = g
      BY <1>9 DEF SReads, Kept, q, qq, w, ww, S, SS, g, gg
    <2>2. Flow(R, qq, ww, S, Len(g), l)
      BY <1>1, <1>3, <1>5, <2>1, FlowRead
    <2> QED
      BY <1>2, <1>3, <2>1, <2>2
  <1>10. CASE SLoses
    <2>1. qq = q /\ ww = <<>> /\ SS = S /\ gg = g /\ ~CC
      BY <1>2, <1>10 DEF SLoses, Kept, q, qq, ww, S, SS, g, gg, C
    <2>2. PICK m \in Nat : m <= l /\ Flow(R, q, <<>>, S, Len(g), m)
      BY <1>1, <1>3, <1>5, FlowCut
    <2> QED
      BY <1>3, <1>5, <2>1, <2>2
  <1>11. CASE STakes \/ STakesKey
    <2>1. q # <<>> /\ Head(q) \notin UserIds /\ qq = Tail(q) /\ ww = w /\ SS = S /\ gg = g
      BY <1>11, KeyFacts DEF STakes, STakesKey, Kept, q, qq, w, ww, S, SS, g, gg
    <2>2. Flow(R, qq, ww, S, Len(g), l)
      BY <1>1, <1>3, <1>5, <2>1, FlowTake
    <2> QED
      BY <1>2, <1>3, <2>1, <2>2
  <1>12. CASE SGets
    <2>1. q # <<>> /\ Head(q) \in UserIds /\ qq = Tail(q) /\ ww = w /\ SS = S
      BY <1>12 DEF SGets, q, qq, w, ww, S, SS
    <2>2. /\ Len(g) + 1 <= l /\ <<Head(q), S[Len(g) + 1]>> \in R
          /\ Flow(R, qq, ww, S, Len(g) + 1, l)
      BY <1>1, <1>3, <1>5, <2>1, FlowTake
    <2>3. Len(g) < Len(S)
      BY <1>1, <1>3, <1>5, <2>2
    <2>4. Is("server")
      <3>1. ~KeyFirst
        BY <1>1, <2>1, OrderedTail DEF KeyFirst, q
      <3> QED
        BY <3>1, Stays DEF KeyInv
    <2>5. gg = Append(g, S[Len(g) + 1])
      <3>1. CASE stype = "ping"
        <4>1. target = "ping"
          BY <3>1 DEF EndInv, ServerEnd
        <4>2. S[Len(g) + 1] = "ping"
          BY <2>2, <4>1 DEF R, Naming
        <4> QED
          BY <1>12, <3>1, <4>2 DEF SGets, g, gg
      <3>2. CASE stype # "ping"
        <4>1. stype = target /\ stype = "classic"
          BY <1>12, <2>4, <3>2, Targeted DEF SGets, EndInv, ServerEnd
        <4>2. Known(ServerIds, Head(q)) /\ NameOf(ServerIds, Head(q)) = S[Len(g) + 1]
          BY <2>2, <4>1, NamesServer DEF R
        <4> QED
          BY <1>12, <3>2, <4>1, <4>2 DEF SGets, q, g, gg
      <3> QED
        BY <3>1, <3>2
    <2>6. Len(gg) = Len(g) + 1
      BY <1>1, <2>3, <2>5
    <2> QED
      BY <1>2, <1>3, <2>1, <2>2, <2>3, <2>5, <2>6
  <1> QED
    BY <1>6, <1>7, <1>8, <1>9, <1>10, <1>11, <1>12, ServerBound

\* An application of the server receives packets while the socket is open.
LEMMA NewGot ==
    ASSUME TypeInv, EndInv, HistTypes, Next, got'["server"] # got["server"]
    PROVE  sock'["server"] # "closed" /\ target \in types
  <1> USE SidesFacts DEF HistTypes
  <1>1. ServerTakeUser \/ TakePing
    <2>1. UNCHANGED got \/ ClientTakeUser \/ TakePong \/ ServerTakeUser \/ TakePing
      BY Steps DEF Accept, NetRead, NetEof, Crash, ResetArrives, NetWrite, NetDrained, NetRetire,
         TakeStale, TakeSetType, TakeAccepted, ServerTakeCloseConn, AnswerPing, ServerMark,
         TakeHello, InitClassic, InitPing, InitCustom, TakeHandshake, ClientTakeCloseConn,
         NotifyPong, FinishPong, WaitReturns, PingTimesOut, ClientAppSends, ClientAppCloses,
         ServerAppSends, ServerAppCloses
    <2>2. ~ClientTakeUser /\ ~TakePong
      BY DEF ClientTakeUser, TakePong, Gets
    <2> QED
      BY <2>1, <2>2
  <1>2. stype # "notset" /\ UNCHANGED sock /\ sock["server"] = "open"
    BY <1>1 DEF ServerTakeUser, TakePing
  <1> QED
    BY <1>2 DEF EndInv, ServerEnd

LEMMA ServerCountStep ==
    ASSUME TypeInv, EndInv, HistTypes, KeyInv, ServerCount, Next
    PROVE  ServerCount' /\ Receives("server")
  <1>1. CASE sock'["server"] # "closed" /\ target \in types
    BY <1>1, ServerCountBound, NamingSame, SidesFacts DEF ServerCount
  <1>2. CASE ~(sock'["server"] # "closed" /\ target \in types)
    BY <1>2, NewGot, SetupSame DEF ServerCount, Receives
  <1> QED
    BY <1>1, <1>2

\* What an end has got is the beginning of what was sent to it.
PrefixInv == \A s \in Sides : /\ Len(got[s]) <= Len(sent[Other(s)])
                              /\ \A i \in 1..Len(got[s]) : got[s][i] = sent[Other(s)][i]

\* An end sends a name, or nothing.
LEMMA SentGrows ==
    ASSUME HistTypes, Next, NEW s \in Sides
    PROVE  sent'[s] = sent[s] \/ \E n \in DOMAIN ids \cup DOMAIN ServerIds \cup {"ping", "pong"} :
                                    sent'[s] = Append(sent[s], n)
  <1> USE SidesFacts DEF HistTypes
  <1>1. CASE UNCHANGED sent
    BY <1>1
  <1> DEFINE T == DOMAIN ids \cup DOMAIN ServerIds \cup {"ping", "pong"}
  <1>2. CASE AnswerPing \/ InitPing \/ ServerAppSends \/ ClientAppSends
    <2>1. "ping" \in T /\ "pong" \in T /\ \A n \in Common : n \in T
      BY DEF Common
    <2> HIDE DEF T
    <2>2. UNCHANGED sent \/ (\E e \in Sides, n \in T : Logs(e, n))
      BY <1>2, <2>1 DEF AnswerPing, InitPing, ServerAppSends, ClientAppSends
    <2>3. ASSUME NEW e \in Sides, NEW n \in T, Logs(e, n)
          PROVE  sent'[s] = sent[s] \/ \E m \in T : sent'[s] = Append(sent[s], m)
      BY <2>3 DEF Logs
    <2> QED
      BY <1>1, <2>2, <2>3 DEF T
  <1> QED
    BY <1>1, <1>2, Steps DEF Accept, NetRead, NetEof, Crash, ResetArrives, NetWrite,
       NetDrained, NetRetire, TakeStale, TakeSetType, TakeAccepted, ServerTakeCloseConn,
       ServerTakeUser, TakePing, ServerMark, TakeHello, InitClassic, InitCustom, TakeHandshake,
       ClientTakeCloseConn, ClientTakeUser, TakePong, NotifyPong, FinishPong, WaitReturns,
       PingTimesOut, ClientAppCloses, ServerAppCloses

\* An end gets the next packet that was sent to it, or nothing.
LEMMA PrefixStep ==
    ASSUME HistTypes, PrefixInv, Next, Receives("client"), Receives("server")
    PROVE  PrefixInv'
  <1> SUFFICES ASSUME NEW s \in Sides
               PROVE  /\ Len(got'[s]) <= Len(sent'[Other(s)])
                      /\ \A i \in 1..Len(got'[s]) : got'[s][i] = sent'[Other(s)][i]
    BY DEF PrefixInv
  <1> DEFINE T == DOMAIN ids \cup DOMAIN ServerIds \cup {"ping", "pong"}
             S == sent[Other(s)]     SS == sent'[Other(s)]
             g == got[s]             gg == got'[s]
  <1>1. S \in Seq(T) /\ g \in Seq(T)
    BY SidesFacts DEF HistTypes
  <1>2. SS = S \/ \E n \in T : SS = Append(S, n)
    BY SentGrows, SidesFacts
  <1>3. gg = g \/ (Len(g) < Len(S) /\ gg = Append(g, S[Len(g) + 1]))
    BY DEF Receives, Sides
  <1>4. Len(g) <= Len(S) /\ \A i \in 1..Len(g) : g[i] = S[i]
    BY DEF PrefixInv
  <1> HIDE DEF T, S, SS, g, gg
  <1>5. Len(S) <= Len(SS) /\ \A i \in 1..Len(S) : SS[i] = S[i]
    BY <1>1, <1>2
  <1>6. Len(gg) <= Len(S) /\ \A i \in 1..Len(gg) : gg[i] = S[i]
    <2>1. CASE gg = g
      BY <1>4, <2>1
    <2>2. CASE Len(g) < Len(S) /\ gg = Append(g, S[Len(g) + 1])
      <3>1. Len(gg) = Len(g) + 1 /\ gg[Len(g) + 1] = S[Len(g) + 1]
            /\ \A i \in 1..Len(g) : gg[i] = g[i]
        BY <1>1, <2>2
      <3> QED
        BY <1>1, <1>4, <2>2, <3>1
    <2> QED
      BY <1>3, <2>1, <2>2
  <1>7. Len(gg) <= Len(SS) /\ \A i \in 1..Len(gg) : gg[i] = SS[i]
    <2>1. Len(gg) \in Nat /\ Len(S) \in Nat /\ Len(SS) \in Nat
      BY <1>1, <1>2, <1>3
    <2> QED
      BY <1>5, <1>6, <2>1
  <1> QED
    BY <1>7 DEF SS, gg

-----------------------------------------------------------------------------
(* The refinement of Link *)

LinkInv == /\ EndInv /\ HistTypes /\ SentInv /\ ShakeInv /\ KeyInv
           /\ ClientCount /\ ServerCount /\ PrefixInv

LEMMA LinkInit == Init => LinkInv
  <1> SUFFICES ASSUME Init PROVE LinkInv
    OBVIOUS
  <1> USE SidesFacts
  <1>1. /\ \A s \in Sides : /\ inq[s] = <<>> /\ wire[s] = <<>>
                            /\ sent[s] = <<>> /\ got[s] = <<>> /\ Len(sent[s]) = 0
        /\ writeq = <<>> /\ established = {} /\ 0 \in Nat /\ 0 <= 0
    BY DEF Init
  <1>2. EndInv
    BY EndInit
  <1>3. HistTypes
    <2>1. <<>> \in Seq(DOMAIN ids \cup DOMAIN ServerIds \cup {"ping", "pong"})
      OBVIOUS
    <2> QED
      BY <2>1 DEF Init, HistTypes
  <1>4. SentInv
    BY <1>1 DEF SentInv
  <1>5. ShakeInv
    BY <1>1, InEmpty DEF ShakeInv, Shaking, Answering
  <1>6. KeyInv
    BY <1>1, InEmpty, OrderedEmpty DEF KeyInv, KeyTold, KeyFirst, Is
  <1>7. ClientCount
    <2>1. Flow(Naming("client"), inq["client"], wire["client"], sent["server"], 0, 0)
      BY <1>1, FlowNone
    <2>2. Run(Naming("client"), writeq, sent["server"], 0, 0)
      BY <1>1, RunEmpty
    <2>3. Len(got["client"]) = 0 /\ Len(sent["server"]) = 0
      BY <1>1
    <2> QED
      BY <1>1, <2>1, <2>2, <2>3 DEF ClientCount
  <1>8. ServerCount
    <2>1. Flow(Naming("server"), inq["server"], wire["server"], sent["client"], 0, 0)
      BY <1>1, FlowNone
    <2>2. Len(got["server"]) = 0 /\ Len(sent["client"]) = 0
      BY <1>1
    <2> QED
      BY <1>1, <2>1, <2>2 DEF ServerCount
  <1>9. PrefixInv
    <2>1. \A s \in Sides : Len(got[s]) = 0 /\ Len(sent[Other(s)]) = 0
      BY <1>1
    <2> QED
      BY <2>1 DEF PrefixInv
  <1> QED
    BY <1>2, <1>3, <1>4, <1>5, <1>6, <1>7, <1>8, <1>9 DEF LinkInv

\* Together they are inductive.
LEMMA LinkStays == TypeInv /\ LinkInv /\ [Next]_vars => LinkInv'
  <1>1. ASSUME TypeInv, LinkInv, UNCHANGED vars PROVE LinkInv'
    <2>1. EndInv' /\ HistTypes' /\ SentInv' /\ ShakeInv'
      BY <1>1, EndStays DEF LinkInv, vars, HistTypes, SentInv, ShakeInv, Shaking, Answering, Is
    <2>2. KeyInv'
      BY <1>1 DEF LinkInv, vars, KeyInv, KeyTold, KeyFirst, Is, Key
    <2>3. \A s \in Sides : Naming(s)' = Naming(s)
      BY <1>1 DEF vars, Naming, Common
    <2>4. ClientCount' /\ ServerCount' /\ PrefixInv'
      BY <1>1, <2>3, SidesFacts DEF LinkInv, vars, ClientCount, ServerCount, PrefixInv
    <2> QED
      BY <2>1, <2>2, <2>4 DEF LinkInv
  <1>2. ASSUME TypeInv, LinkInv, Next PROVE LinkInv'
    <2>1. EndInv' /\ HistTypes' /\ SentInv' /\ ShakeInv' /\ KeyInv'
      BY <1>2, EndStays, HistStep, SentStep, ShakeStep, KeyStep DEF LinkInv
    <2>2. ClientCount' /\ ServerCount' /\ Receives("client") /\ Receives("server")
      BY <1>2, ClientCountStep, ServerCountStep DEF LinkInv
    <2> QED
      BY <1>2, <2>1, <2>2, PrefixStep DEF LinkInv
  <1> QED
    BY <1>1, <1>2

\* What a step looks like to the applications.
Names == DOMAIN ServerIds \cup {"ping", "pong"}
Closed == {s \in Sides : sock[s] = "closed"}
Closes == /\ UNCHANGED <<established, sent, got>>
          /\ \/ UNCHANGED sock
             \/ sock["server"] = "none" /\ sock' = [sock EXCEPT !["server"] = "open"]
             \/ \E s \in Sides : sock' = [sock EXCEPT ![s] = "closed"]
Greets == /\ UNCHANGED <<sent, got, sock>>
          /\ \E s \in Sides : /\ established' = established \cup {s}
                              /\ s = "server" => sock[s] # "closed"
Writes == /\ UNCHANGED <<established, got, sock>>
          /\ \E s \in Sides : /\ Is(s) /\ sock[s] # "closed"
                              /\ \E n \in Names : Logs(s, n)
Reads == /\ UNCHANGED <<established, sent, sock>>
         /\ \E s \in Sides : /\ s = "server" => sock[s] # "closed"
                             /\ \E n : Gets(s, n)

\* Every step closes, greets, writes or reads, or is none of the applications' business.
LEMMA StepKinds ==
    ASSUME TypeInv, EndInv, Next
    PROVE  Closes \/ Greets \/ Writes \/ Reads
  <1> USE SidesFacts
  <1>1. CASE Accept \/ NetWrite \/ NetDrained \/ NetRetire
             \/ (\E s \in Sides : NetRead(s) \/ NetEof(s) \/ Crash(s) \/ ResetArrives(s))
    BY <1>1 DEF Accept, NetWrite, NetDrained, NetRetire, NetRead, NetEof, Crash, ResetArrives,
       Close, Shut, Closes
  <1>2. CASE TakeStale \/ ServerTakeCloseConn \/ (\E t \in {"sproc", "sapp"} : ServerMark(t))
             \/ InitClassic \/ InitCustom \/ ClientTakeCloseConn \/ NotifyPong \/ FinishPong
             \/ WaitReturns \/ PingTimesOut \/ ClientAppCloses \/ ServerAppCloses
    BY <1>2 DEF TakeStale, ServerTakeCloseConn, ServerMark, InitClassic, InitCustom,
       ClientTakeCloseConn, NotifyPong, FinishPong, WaitReturns, PingTimesOut, ClientAppCloses,
       ServerAppCloses, Close, Shut, Closes
  <1>3. CASE TakeSetType \/ TakeAccepted
    <2>1. UNCHANGED <<sent, got, sock>> /\ sock["server"] = "open"
          /\ (UNCHANGED established \/ established' = established \cup {"server"})
      BY <1>3 DEF TakeSetType, TakeAccepted
    <2> QED
      BY <2>1 DEF Closes, Greets
  <1>4. CASE TakeHello \/ TakeHandshake
    <2>1. UNCHANGED <<sent, got, sock>>
          /\ (UNCHANGED established \/ established' = established \cup {"client"})
      BY <1>4 DEF TakeHello, TakeHandshake
    <2>2. "client" # "server"
      OBVIOUS
    <2> QED
      BY <2>1, <2>2 DEF Closes, Greets
  <1>5. CASE AnswerPing \/ ServerAppSends
    <2>1. UNCHANGED <<established, got, sock>> /\ Is("server")
      BY <1>5 DEF AnswerPing, ServerAppSends, EndInv, ServerEnd
    <2>2. UNCHANGED sent \/ (sock["server"] = "open" /\ \E n \in Names : Logs("server", n))
      BY <1>5 DEF AnswerPing, ServerAppSends, Common, Names
    <2> QED
      BY <2>1, <2>2 DEF Closes, Writes
  <1>6. CASE InitPing \/ ClientAppSends
    <2>1. UNCHANGED <<established, got, sock>>
      BY <1>6 DEF InitPing, ClientAppSends
    <2>2. Is("client") \/ sock["client"] # "open"
      BY <1>6 DEF InitPing, ClientAppSends, EndInv, ClientEnd
    <2>3. UNCHANGED sent \/ (sock["client"] = "open" /\ \E n \in Names : Logs("client", n))
      BY <1>6 DEF InitPing, ClientAppSends, Common, Names
    <2> QED
      BY <2>1, <2>2, <2>3 DEF Closes, Writes
  <1>7. CASE ServerTakeUser \/ TakePing
    <2>1. UNCHANGED <<established, sent, sock>> /\ sock["server"] = "open"
          /\ (UNCHANGED got \/ \E n : Gets("server", n))
      BY <1>7 DEF ServerTakeUser, TakePing
    <2> QED
      BY <2>1 DEF Closes, Reads
  <1>8. CASE ClientTakeUser \/ TakePong
    <2>1. UNCHANGED <<established, sent, sock>> /\ (UNCHANGED got \/ \E n : Gets("client", n))
      BY <1>8 DEF ClientTakeUser, TakePong
    <2>2. "client" # "server"
      OBVIOUS
    <2> QED
      BY <2>1, <2>2 DEF Closes, Reads
  <1> QED
    BY <1>1, <1>2, <1>3, <1>4, <1>5, <1>6, <1>7, <1>8, Steps

\* Link chooses the other side, Session computes it.
LEMMA LinkNames ==
    /\ Abstract!Sides = Sides
    /\ \A s \in Sides : Abstract!Other(s) = Other(s)
  <1>1. Abstract!Sides = Sides
    BY DEF Abstract!Sides, Sides
  <1>2. ASSUME NEW s \in Sides PROVE Abstract!Other(s) = Other(s)
    <2>1. \E o \in Sides : o # s
      BY SidesFacts
    <2>2. \A o \in Sides : o # s => o = Other(s)
      BY DEF Sides, Other
    <2> QED
      BY <1>1, <2>1, <2>2 DEF Abstract!Other
  <1> QED
    BY <1>1, <1>2

LEMMA ClosesLink ==
    ASSUME TypeInv, Closes
    PROVE  [Abstract!Next]_(Abstract!vars)
  <1> USE SidesFacts DEF TypeInv, EndTypes
  <1>1. CASE Closed' = Closed
    BY <1>1 DEF Closes, Closed, Abstract!vars
  <1>2. CASE Closed' # Closed
    <2>1. PICK s \in Sides : sock' = [sock EXCEPT ![s] = "closed"]
      BY <1>2 DEF Closes, Closed
    <2>2. s \notin Closed /\ Closed' = Closed \cup {s}
      BY <1>2, <2>1 DEF Closed
    <2>3. Abstract!Close(s)
      BY <2>2 DEF Closes, Closed, Abstract!Close
    <2> QED
      BY <2>3, LinkNames DEF Abstract!Next
  <1> QED
    BY <1>1, <1>2

LEMMA GreetsLink ==
    ASSUME TypeInv, KeyInv', Greets
    PROVE  [Abstract!Next]_(Abstract!vars)
  <1> USE SidesFacts
  <1>1. PICK s \in Sides : /\ established' = established \cup {s}
                           /\ s = "server" => sock[s] # "closed"
    BY DEF Greets
  <1>2. UNCHANGED <<sent, got>> /\ Closed' = Closed
    BY DEF Greets, Closed
  <1>3. CASE Is(s)
    <2>1. established' = established
      BY <1>1, <1>3 DEF Is
    <2> QED
      BY <1>2, <2>1 DEF Closed, Abstract!vars
  <1>4. CASE ~Is(s)
    <2>1. s = "server" => "client" \in established /\ s \notin Closed
      BY <1>1 DEF KeyInv, Is, Closed
    <2>2. Abstract!Establish(s)
      BY <1>1, <1>2, <1>4, <2>1 DEF Is, Closed, Abstract!Establish
    <2> QED
      BY <2>2, LinkNames DEF Abstract!Next
  <1> QED
    BY <1>3, <1>4

LEMMA WritesLink ==
    ASSUME Writes
    PROVE  [Abstract!Next]_(Abstract!vars)
  <1>1. PICK s \in Sides, n \in Names : Is(s) /\ sock[s] # "closed" /\ Logs(s, n)
    BY DEF Writes
  <1>2. UNCHANGED <<established, got>> /\ Closed' = Closed
    BY DEF Writes, Closed
  <1>3. Abstract!Send(s, n)
    BY <1>1, <1>2 DEF Is, Closed, Logs, Abstract!Send
  <1> QED
    BY <1>3, LinkNames DEF Abstract!Next, Names

\* Only an established end receives: its first packet comes after the handshake.
LEMMA ReaderIs ==
    ASSUME TypeInv, LinkInv, Next, NEW s \in Sides, got'[s] # got[s]
    PROVE  Is(s)
  <1> USE SidesFacts
  <1>1. Len(got[s]) < Len(sent[Other(s)])
    BY ClientCountStep, ServerCountStep DEF LinkInv, Receives, Sides
  <1>2. sent[Other(s)] # <<>>
    <2>1. Len(got[s]) \in Nat
      BY DEF LinkInv, HistTypes
    <2> QED
      BY <1>1, <2>1
  <1>3. Is(Other(s))
    BY <1>2 DEF LinkInv, SentInv
  <1>4. CASE s = "client"
    BY <1>3, <1>4 DEF LinkInv, KeyInv
  <1>5. CASE s = "server"
    <2>1. sock'["server"] # "closed" /\ target \in types
      BY <1>5, NewGot DEF LinkInv
    <2>2. SGets
      BY <1>5, <2>1, ServerBound DEF LinkInv, SQuiet, SSays, SGreets, SWrites, SReads, SLoses,
         STakes, STakesKey, Same, Kept
    <2>3. ~KeyFirst
      BY <2>2, OrderedTail DEF SGets, KeyFirst, TypeInv, PipeTypes
    <2>4. sock["server"] # "closed"
      BY <2>1, Stays DEF LinkInv
    <2> QED
      BY <1>5, <2>1, <2>3, <2>4 DEF LinkInv, KeyInv
  <1> QED
    BY <1>4, <1>5 DEF Sides

LEMMA ReadsLink ==
    ASSUME TypeInv, LinkInv, Next, Reads
    PROVE  [Abstract!Next]_(Abstract!vars)
  <1> USE SidesFacts
  <1>1. PICK s \in Sides : (s = "server" => sock[s] # "closed") /\ \E n : Gets(s, n)
    BY DEF Reads
  <1>2. UNCHANGED <<established, sent>> /\ Closed' = Closed
    BY DEF Reads, Closed
  <1> DEFINE T == DOMAIN ids \cup DOMAIN ServerIds \cup {"ping", "pong"}
             S == sent[Other(s)]
             g == got[s]
  <1>3. S \in Seq(T) /\ g \in Seq(T) /\ got \in [Sides -> Seq(T)]
    BY DEF LinkInv, HistTypes
  <1>4. PICK n : got' = [got EXCEPT ![s] = Append(@, n)]
    BY <1>1 DEF Gets
  <1>5. got'[s] = Append(g, n) /\ Len(Append(g, n)) = Len(g) + 1
    <2>1. got'[s] = Append(g, n)
      BY <1>3, <1>4
    <2> QED
      BY <1>3, <2>1
  <1>6. got'[s] # g
    <2>1. Len(g) \in Nat
      BY <1>3
    <2> QED
      BY <1>5, <2>1
  <1>7. Len(g) < Len(S) /\ Append(g, n) = Append(g, S[Len(g) + 1])
    BY <1>5, <1>6, ClientCountStep, ServerCountStep DEF LinkInv, Receives, Sides
  <1>8. \A i \in 1..Len(g) : g[i] = S[i]
    BY DEF LinkInv, PrefixInv
  <1>9. Is(s)
    BY <1>6, ReaderIs
  <1>10. Append(g, n) = SubSeq(S, 1, Len(g) + 1)
    <2> HIDE DEF T, S, g
    <2>1. Len(g) \in Nat /\ Len(S) \in Nat
      BY <1>3
    <2>2. S[Len(g) + 1] \in T
      BY <1>3, <1>7, <2>1
    <2> DEFINE a == Append(g, S[Len(g) + 1])
               b == SubSeq(S, 1, Len(g) + 1)
    <2>3. a \in Seq(T) /\ Len(a) = Len(g) + 1 /\ a[Len(g) + 1] = S[Len(g) + 1]
          /\ \A i \in 1..Len(g) : a[i] = g[i]
      BY <1>3, <2>1, <2>2
    <2>4. b \in Seq(T) /\ Len(b) = Len(g) + 1 /\ \A i \in 1..(Len(g) + 1) : b[i] = S[i]
      BY <1>3, <1>7, <2>1
    <2> HIDE DEF a, b
    <2>5. \A i \in 1..(Len(g) + 1) : a[i] = b[i]
      BY <1>8, <2>1, <2>3, <2>4
    <2>6. a = b
      BY <2>1, <2>3, <2>4, <2>5
    <2> QED
      BY <1>7, <2>6 DEF a, b
  <1>11. got' = [got EXCEPT ![s] = SubSeq(sent[Abstract!Other(s)], 1, Len(@) + 1)]
    BY <1>3, <1>4, <1>10, LinkNames
  <1>12. Abstract!Receive(s)
    BY <1>1, <1>2, <1>7, <1>9, <1>11, LinkNames DEF Is, Closed, Abstract!Receive
  <1> QED
    BY <1>12, LinkNames DEF Abstract!Next

\* However the two registries, the connection type and the ends of a connection
\* turn out, its applications see what Link promises.
THEOREM LinkImplemented == Spec => ImplementsLink
  <1>1. Init => Abstract!Init
    <2> SUFFICES ASSUME Init PROVE Abstract!Init
      OBVIOUS
    <2>1. Closed = {}
      BY DEF Init, Closed, Sides
    <2> QED
      BY <2>1, LinkNames DEF Init, Closed, Abstract!Init
  <1>2. TypeInv /\ LinkInv /\ LinkInv' /\ [Next]_vars => [Abstract!Next]_(Abstract!vars)
    <2>1. ASSUME UNCHANGED vars PROVE UNCHANGED Abstract!vars
      BY <2>1 DEF vars, Abstract!vars
    <2>2. ASSUME TypeInv, LinkInv, LinkInv', Next PROVE [Abstract!Next]_(Abstract!vars)
      BY <2>2, StepKinds, ClosesLink, GreetsLink, WritesLink, ReadsLink DEF LinkInv
    <2> QED
      BY <2>1, <2>2
  <1> QED
    BY <1>1, <1>2, LinkInit, LinkStays, TypeAlways, PTL DEF Spec, ImplementsLink, Abstract!Spec
=============================================================================
