-------------------------- MODULE LifecycleProofs --------------------------
(* One bind or connect succeeds, the loop starts on what it has made, join()
   waits, and addresses mean what the documentation says. *)
EXTENDS LifecycleProps, TLAPS

-----------------------------------------------------------------------------
(* Types *)

LEMMA AddressTypes ==
    ASSUME NEW arg, NEW cfg
    PROVE  Resolve(arg, cfg).result \in {"ok", "InvalidPort", "UnsupportedAddress"}
  BY DEF Resolve, Normalize, ParseAddress, CheckPort, Ok, Failed

LEMMA TypeInit == Init => TypeOK
  <1> SUFFICES ASSUME Init PROVE TypeOK
    OBVIOUS
  <1>1. addr.result \in {"none", "ok", "InvalidPort", "UnsupportedAddress"}
    BY DEF Init
  <1>2. pc \in [Threads -> Labels] /\ op \in [Threads -> AllOps \cup {"none", "proc"}]
    BY DEF Init, Labels
  <1>3. /\ waiting \in [Apps -> Workers \cup {None}]
        /\ outcome \in [Apps -> {"ok", "raised"}]
        /\ seen \in [Apps -> SUBSET Workers]
    BY DEF Init
  <1>4. /\ run \in BOOLEAN /\ bound \in BOOLEAN /\ classic \in BOOLEAN /\ started \in BOOLEAN
        /\ given \in [arg : Args, cfg : Configs]
    BY DEF Init
  <1>5. /\ pair \in Nat /\ wakeups \in Nat /\ watched \in Nat /\ opens \in Nat
        /\ calls \in 0..MaxCalls
        /\ sockLock = None /\ runThread = None /\ procThread = None
    BY LifecycleOps DEF Init
  <1> QED
    BY <1>1, <1>2, <1>3, <1>4, <1>5 DEF TypeOK

\* What a thread does to the socket and the loop.
LEMMA TypeRun ==
    ASSUME TypeOK, NEW t \in Threads, RunStep(t) \/ Traffic(t)
    PROVE  TypeOK'
  <1> USE DEF TypeOK, Threads, Goto, End, Return, Raise, Opened, Labels,
              madeVars, openVars, loopVars, threadVars, callVars
  <1>1. CASE Initialize(t)
    BY <1>1 DEF Initialize
  <1>2. CASE OpenTest(t) \/ OpenEnter(t)
    BY <1>2 DEF OpenTest, OpenEnter
  <1>3. CASE OpenPair(t)
    BY <1>3 DEF OpenPair
  <1>4. CASE OpenSocket(t)
    <2>1. pc' \in [Threads -> Labels] /\ outcome' \in [Apps -> {"ok", "raised"}]
      <3>1. Opened(t) \/ Raise(t)
        BY <1>4, Zenon DEF OpenSocket
      <3> QED
        BY <3>1
    <2>2. bound' \in BOOLEAN /\ opens' \in Nat
      <3>1. \/ bound' = TRUE /\ opens' = opens + 1
            \/ UNCHANGED <<bound, opens>>
        BY <1>4, Zenon DEF OpenSocket
      <3>2. bound' \in BOOLEAN
        BY <3>1, Zenon
      <3>3. opens' \in Nat
        BY <3>1
      <3> QED
        BY <3>2, <3>3
    <2> QED
      BY <1>4, <2>1, <2>2 DEF OpenSocket
  <1>5. CASE RunCheck(t) \/ LoopHead(t) \/ ProcessEnds(t) \/ Traffic(t)
    BY <1>5 DEF RunCheck, LoopHead, ProcessEnds, Traffic
  <1>6. CASE Start(t)
    BY <1>6 DEF Start
  <1>7. CASE Woken(t)
    BY <1>7 DEF Woken
  <1> QED
    BY <1>1, <1>2, <1>3, <1>4, <1>5, <1>6, <1>7 DEF RunStep

\* What the other calls do.
LEMMA TypeApp ==
    ASSUME TypeOK, NEW a \in Apps, AppStep(a) \/ WaitTimesOut(a)
    PROVE  TypeOK'
  <1> USE ThreadsAssumption
      DEF TypeOK, Threads, Goto, End, Return, Raise, Labels,
          madeVars, openVars, loopVars, threadVars, callVars
  <1>1. CASE StartRun(a)
    BY <1>1 DEF StartRun, StartThread
  <1>2. CASE StartProc(a)
    BY <1>2 DEF StartProc, StartThread
  <1>3. CASE Stop(a)
    BY <1>3 DEF Stop
  <1>4. CASE Poke(a)
    BY <1>4 DEF Poke
  <1>5. CASE JoinRun(a)
    BY <1>5 DEF JoinRun, JoinOn
  <1>6. CASE JoinProc(a)
    BY <1>6 DEF JoinProc, JoinOn
  <1>7. CASE WaitEnds(a) \/ WaitTimesOut(a)
    BY <1>7 DEF WaitEnds, WaitTimesOut, Waited
  <1> QED
    BY <1>1, <1>2, <1>3, <1>4, <1>5, <1>6, <1>7 DEF AppStep

LEMMA EntryTypes ==
    ASSUME NEW o \in DOMAIN EntryOf
    PROVE  /\ EntryOf[o] \in {"init", "open", "check", "stop", "poke"}
           /\ o \in AllOps
           /\ o = "run" <=> EntryOf[o] = "check"
  BY DEF EntryOf, AllOps

LEMMA TypeCall ==
    ASSUME TypeOK, NEW a \in Apps, Call(a) \/ CallRunAsync(a) \/ CallProcessAsync(a)
    PROVE  TypeOK'
  <1> USE ThreadsAssumption, LifecycleOps
      DEF TypeOK, Threads, Goto, Labels,
          madeVars, openVars, loopVars, threadVars, callVars, MayCall
  <1>1. CASE Call(a)
    <2>1. PICK o \in DOMAIN EntryOf :
             /\ MayCall(a, o)
             /\ Goto(a, EntryOf[o])
             /\ op' = [op EXCEPT ![a] = o]
             /\ seen' = [seen EXCEPT ![a] = IF o = "join" THEN Running ELSE {}]
      BY <1>1 DEF Call
    <2>2. Running \subseteq Workers
      BY DEF Running
    <2> HIDE DEF Labels
    <2>3. pc' \in [Threads -> Labels] /\ outcome' \in [Apps -> {"ok", "raised"}]
      BY <2>1, EntryTypes DEF Labels
    <2>4. op' \in [Threads -> AllOps \cup {"none", "proc"}]
      BY <2>1, EntryTypes
    <2>5. seen' \in [Apps -> SUBSET Workers]
      BY <2>1, <2>2
    <2> QED
      BY <1>1, <2>1, <2>3, <2>4, <2>5 DEF Call
  <1>2. CASE CallRunAsync(a)
    BY <1>2 DEF CallRunAsync, CallAsync, Create, AllOps
  <1>3. CASE CallProcessAsync(a)
    BY <1>3 DEF CallProcessAsync, CallAsync, Create, AllOps
  <1> QED
    BY <1>1, <1>2, <1>3

LEMMA TypeNext == TypeOK /\ [Next]_vars => TypeOK'
  <1> SUFFICES ASSUME TypeOK, [Next]_vars PROVE TypeOK'
    OBVIOUS
  <1>1. CASE Construct
    BY <1>1, AddressTypes
    DEF Construct, TypeOK, openVars, loopVars, threadVars, callVars
  <1>2. CASE UNCHANGED vars
    BY <1>2 DEF vars, madeVars, openVars, loopVars, threadVars, callVars, TypeOK
  <1> QED
    BY <1>1, <1>2, TypeRun, TypeApp, TypeCall DEF Next

\* Every variable of Lifecycle has its type in every reachable state.
THEOREM TypeCorrect == Spec => []TypeOK
  BY TypeInit, TypeNext, PTL DEF Spec

-----------------------------------------------------------------------------
(* One opening, and the loop after it *)

\* Whoever is past the second test holds _sock_lock, and the test still holds.
LockInv == \A t \in Threads : pc[t] \in {"newpair", "socket"} => sockLock = t /\ ~bound
OpenInv == opens = IF bound THEN 1 ELSE 0
\* The selector is made after the connection types and the socket, and no pair
\* is made after it.
StartInv == started => classic /\ bound /\ watched = pair
\* A thread in runBlocking has initialize() behind it, then connect(), then both.
RunInv == \A t \in Threads :
    /\ op[t] = "run" /\ pc[t] \in {"open", "openlock", "newpair", "socket"} => classic
    /\ pc[t] = "start" => classic /\ bound
    /\ pc[t] \in {"loop", "select"} => started
LoopInv == LockInv /\ OpenInv /\ StartInv /\ RunInv

LEMMA LoopInit == Init => LoopInv
  BY DEF Init, LoopInv, LockInv, OpenInv, StartInv, RunInv, Threads

LEMMA LoopRun ==
    ASSUME TypeOK, LoopInv, NEW t \in Threads, RunStep(t) \/ Traffic(t)
    PROVE  LoopInv'
  <1> USE DEF LoopInv, LockInv, OpenInv, StartInv, RunInv, TypeOK, Goto, End, Return, Raise,
              Opened, madeVars, openVars, loopVars, threadVars, callVars
  <1>1. CASE Initialize(t)
    BY <1>1 DEF Initialize
  <1>2. CASE OpenTest(t)
    BY <1>2 DEF OpenTest
  <1>3. CASE OpenEnter(t)
    \* The lock is free: no other thread is between the second test and the end.
    <2>1. \A u \in Threads : pc[u] \notin {"newpair", "socket"}
      BY <1>3, ThreadsAssumption DEF OpenEnter
    <2>2. CASE bound
      BY <1>3, <2>1, <2>2 DEF OpenEnter
    <2>3. CASE ~bound
      BY <1>3, <2>1, <2>3 DEF OpenEnter
    <2> QED
      BY <2>2, <2>3
  <1>4. CASE OpenPair(t)
    BY <1>4 DEF OpenPair
  <1>5. CASE OpenSocket(t)
    BY <1>5 DEF OpenSocket
  <1>6. CASE RunCheck(t) \/ LoopHead(t) \/ ProcessEnds(t) \/ Traffic(t)
    BY <1>6 DEF RunCheck, LoopHead, ProcessEnds, Traffic
  <1>7. CASE Start(t)
    BY <1>7 DEF Start
  <1>8. CASE Woken(t)
    BY <1>8 DEF Woken
  <1> QED
    BY <1>1, <1>2, <1>3, <1>4, <1>5, <1>6, <1>7, <1>8 DEF RunStep

LEMMA LoopApp ==
    ASSUME TypeOK, LoopInv, NEW a \in Apps, AppStep(a) \/ WaitTimesOut(a)
    PROVE  LoopInv'
  <1> USE ThreadsAssumption
      DEF LoopInv, LockInv, OpenInv, StartInv, RunInv, TypeOK, Goto, End, Return, Raise,
          Threads, madeVars, openVars, loopVars, threadVars, callVars
  <1>1. CASE StartRun(a)
    BY <1>1 DEF StartRun, StartThread
  <1>2. CASE StartProc(a)
    BY <1>2 DEF StartProc, StartThread
  <1>3. CASE Stop(a) \/ Poke(a)
    BY <1>3 DEF Stop, Poke
  <1>4. CASE JoinRun(a) \/ JoinProc(a)
    BY <1>4 DEF JoinRun, JoinProc, JoinOn
  <1>5. CASE WaitEnds(a) \/ WaitTimesOut(a)
    BY <1>5 DEF WaitEnds, WaitTimesOut, Waited
  <1> QED
    BY <1>1, <1>2, <1>3, <1>4, <1>5 DEF AppStep

LEMMA LoopCall ==
    ASSUME TypeOK, LoopInv, NEW a \in Apps, Call(a) \/ CallRunAsync(a) \/ CallProcessAsync(a)
    PROVE  LoopInv'
  <1> USE ThreadsAssumption
      DEF LoopInv, LockInv, OpenInv, StartInv, RunInv, TypeOK, Goto, Threads,
          madeVars, openVars, loopVars, threadVars, callVars
  <1>1. CASE Call(a)
    <2>1. PICK o \in DOMAIN EntryOf :
             pc' = [pc EXCEPT ![a] = EntryOf[o]] /\ op' = [op EXCEPT ![a] = o]
      BY <1>1 DEF Call
    <2>2. EntryOf[o] \in {"init", "open", "check", "stop", "poke"} /\ (EntryOf[o] = "open" => o = "open")
      BY EntryTypes DEF EntryOf
    <2> QED
      BY <1>1, <2>1, <2>2 DEF Call
  <1>2. CASE CallRunAsync(a)
    BY <1>2 DEF CallRunAsync, CallAsync, Create
  <1>3. CASE CallProcessAsync(a)
    BY <1>3 DEF CallProcessAsync, CallAsync, Create
  <1> QED
    BY <1>1, <1>2, <1>3

LEMMA LoopNext == TypeOK /\ LoopInv /\ [Next]_vars => LoopInv'
  <1> SUFFICES ASSUME TypeOK, LoopInv, [Next]_vars PROVE LoopInv'
    OBVIOUS
  <1>1. CASE Construct \/ UNCHANGED vars
    BY <1>1 DEF Construct, vars, madeVars, openVars, loopVars, threadVars, callVars,
                LoopInv, LockInv, OpenInv, StartInv, RunInv
  <1> QED
    BY <1>1, LoopRun, LoopApp, LoopCall DEF Next

\* However many threads bind or connect, one of them succeeds, once.
THEOREM OpensOnce == Spec => []OpenedOnce
  <1>1. LoopInv => OpenedOnce
    BY DEF LoopInv, OpenInv, OpenedOnce
  <1> QED
    BY <1>1, TypeCorrect, LoopInit, LoopNext, PTL DEF Spec

\* A thread in the loop finds connection types, socket and the right socket pair.
THEOREM LoopReady == Spec => []LoopIsReady
  <1>1. LoopInv => LoopIsReady
    BY DEF LoopInv, RunInv, StartInv, LoopIsReady
  <1> QED
    BY <1>1, TypeCorrect, LoopInit, LoopNext, PTL DEF Spec

-----------------------------------------------------------------------------
(* join() *)

\* An application that makes one thread of each kind finds both where they are
\* stored.
OwnInv == \A w \in Workers : pc[w] # "unborn" => w = runThread \/ w = procThread
\* A join() waits for the run thread first; when it comes to the other one, the
\* run thread is over.
JoinAt(a) ==
    /\ pc[a] \in {"stop", "poke", "joinrun", "waitrun", "joinproc", "waitproc", "idle"}
    /\ \A w \in seen[a] : w = runThread \/ w = procThread
    /\ pc[a] = "waitrun" => waiting[a] = runThread /\ runThread # None
    /\ pc[a] = "waitproc" => waiting[a] = procThread /\ procThread # None
    /\ pc[a] \in {"joinproc", "waitproc"} =>
          \A w \in seen[a] : w = procThread \/ pc[w] = "done"
    /\ pc[a] = "idle" /\ outcome[a] = "ok" => \A w \in seen[a] : pc[w] = "done"
JoinInv == OwnInv /\ \A a \in Apps : op[a] = "join" => JoinAt(a)

LEMMA JoinInit == Init => JoinInv
  BY ThreadsAssumption DEF Init, JoinInv, OwnInv, Threads

\* A thread that is over stays so, and the steps of the loop are not a join().
LEMMA JoinRunSteps ==
    ASSUME TypeOK, JoinInv, NEW t \in Threads, RunStep(t) \/ Traffic(t)
    PROVE  JoinInv'
  <1>1. /\ pc[t] \in {"init", "open", "openlock", "newpair", "socket", "check", "start",
                       "loop", "select", "process"}
        /\ UNCHANGED <<op, seen, waiting, runThread, procThread>>
        /\ \A u \in Threads \ {t} : pc'[u] = pc[u]
        /\ \A u \in Apps \ {t} : outcome'[u] = outcome[u]
    BY DEF RunStep, Initialize, OpenTest, OpenEnter, OpenPair, OpenSocket, RunCheck, Start,
           LoopHead, Woken, ProcessEnds, Traffic, Goto, End, Return, Raise, Opened, TypeOK,
           openVars, loopVars, threadVars, callVars
  <1>2. t \in Apps => op[t] # "join"
    BY <1>1 DEF JoinInv, JoinAt
  <1>3. t \in Workers => t = runThread \/ t = procThread
    BY <1>1 DEF JoinInv, OwnInv
  <1>4. OwnInv'
    BY <1>1, <1>3 DEF JoinInv, OwnInv, Threads
  <1>5. ASSUME NEW a \in Apps, op[a] = "join", NEW w \in seen[a], pc[w] = "done"
        PROVE  pc'[w] = "done"
    BY <1>1, <1>5 DEF TypeOK, Threads
  <1>6. ASSUME NEW a \in Apps, op'[a] = "join"
        PROVE  JoinAt(a)'
    <2>1. a # t /\ pc'[a] = pc[a] /\ outcome'[a] = outcome[a] /\ JoinAt(a) /\ op[a] = "join"
      BY <1>1, <1>2, <1>6 DEF JoinInv, Threads
    <2> QED
      BY <1>1, <1>5, <2>1 DEF JoinAt
  <1> QED
    BY <1>4, <1>6 DEF JoinInv

LEMMA JoinApp ==
    ASSUME TypeOK, JoinInv, NEW a \in Apps, AppStep(a) \/ WaitTimesOut(a)
    PROVE  JoinInv'
  <1> USE ThreadsAssumption
      DEF JoinInv, OwnInv, JoinAt, TypeOK, Goto, End, Return, Raise, Threads,
          madeVars, openVars, loopVars, threadVars, callVars
  <1>1. CASE StartRun(a)
    BY <1>1 DEF StartRun, StartThread
  <1>2. CASE StartProc(a)
    BY <1>2 DEF StartProc, StartThread
  <1>3. CASE Stop(a)
    BY <1>3 DEF Stop
  <1>4. CASE Poke(a)
    BY <1>4 DEF Poke, Joins
  <1>5. CASE JoinRun(a)
    BY <1>5 DEF JoinRun, JoinOn
  <1>6. CASE JoinProc(a)
    BY <1>6 DEF JoinProc, JoinOn
  <1>7. CASE WaitEnds(a)
    BY <1>7 DEF WaitEnds, Waited
  <1>8. CASE WaitTimesOut(a)
    BY <1>8 DEF WaitTimesOut, Waited
  <1> QED
    BY <1>1, <1>2, <1>3, <1>4, <1>5, <1>6, <1>7, <1>8 DEF AppStep

LEMMA JoinCall ==
    ASSUME TypeOK, JoinInv, AsyncOnce, NEW a \in Apps,
           Call(a) \/ CallRunAsync(a) \/ CallProcessAsync(a)
    PROVE  JoinInv'
  <1> USE ThreadsAssumption
      DEF JoinInv, OwnInv, JoinAt, TypeOK, Goto, Threads, MayCall,
          madeVars, openVars, loopVars, threadVars, callVars
  <1>1. CASE Call(a)
    <2>1. PICK o \in DOMAIN EntryOf :
             /\ pc' = [pc EXCEPT ![a] = EntryOf[o]] /\ op' = [op EXCEPT ![a] = o]
             /\ seen' = [seen EXCEPT ![a] = IF o = "join" THEN Running ELSE {}]
      BY <1>1 DEF Call
    <2>2. o = "join" => EntryOf[o] = "stop"
      BY DEF EntryOf
    <2>3. \A w \in Running : w = runThread \/ w = procThread
      BY DEF Running
    <2> QED
      BY <1>1, <2>1, <2>2, <2>3 DEF Call
  <1>2. CASE CallRunAsync(a)
    BY <1>2 DEF CallRunAsync, CallAsync, Create
  <1>3. CASE CallProcessAsync(a)
    BY <1>3 DEF CallProcessAsync, CallAsync, Create
  <1> QED
    BY <1>1, <1>2, <1>3

LEMMA JoinNext ==
    ASSUME AsyncOnce
    PROVE  TypeOK /\ JoinInv /\ [Next]_vars => JoinInv'
  <1> SUFFICES ASSUME TypeOK, JoinInv, [Next]_vars PROVE JoinInv'
    OBVIOUS
  <1>1. CASE Construct \/ UNCHANGED vars
    BY <1>1 DEF Construct, vars, madeVars, openVars, loopVars, threadVars, callVars,
                JoinInv, OwnInv, JoinAt
  <1> QED
    BY <1>1, JoinRunSteps, JoinApp, JoinCall DEF Next

\* If the application makes one thread of each kind, a join() without a timeout
\* that returns has waited for every thread that ran when it was called.
THEOREM JoinHasWaited ==
    ASSUME AsyncOnce
    PROVE  Spec => []JoinWaits
  <1>1. JoinInv => JoinWaits
    BY DEF JoinInv, JoinAt, JoinWaits
  <1>2. Init => JoinInv
    BY JoinInit
  <1>3. TypeOK /\ JoinInv /\ [Next]_vars => JoinInv'
    BY JoinNext
  <1> QED
    BY <1>1, <1>2, <1>3, TypeCorrect, PTL DEF Spec
-----------------------------------------------------------------------------
(* Addresses *)

LEMMA PortRange == MaxPort \in Int /\ DocumentedPorts = 0..MaxPort
  BY DEF MaxPort, DocumentedPorts

LEMMA PortChecked ==
    ASSUME NEW host, NEW p \in Port
    PROVE  CheckPort(host, p) = IF p \in DocumentedPorts THEN Ok(host, p) ELSE Failed("InvalidPort")
  <1>1. CASE p = NaN
    <2>1. p \notin DocumentedPorts
      BY <1>1, AddressAssumption, PortRange
    <2> QED
      BY <1>1, <2>1, Zenon DEF CheckPort
  <1>2. CASE p \in Int
    <2>1. p # NaN
      BY <1>2, AddressAssumption
    <2>2. CASE p \in DocumentedPorts
      <3>1. ~(p < 0) /\ ~(p > MaxPort)
        BY <2>2, PortRange
      <3> QED
        BY <2>1, <2>2, <3>1, Zenon DEF CheckPort
    <2>3. CASE p \notin DocumentedPorts
      <3>1. p < 0 \/ p > MaxPort
        BY <1>2, <2>3, PortRange
      <3> QED
        BY <2>1, <2>3, <3>1, Zenon DEF CheckPort
    <2> QED
      BY <2>2, <2>3, Zenon
  <1> QED
    BY <1>1, <1>2 DEF Port

\* An address that is accepted has this host and this port.
Accepted(a, host, port) ==
    /\ a.result = "ok" <=> port \in DocumentedPorts
    /\ a.result = "ok" => a.host = host /\ a.port = port

LEMMA CheckMeans ==
    ASSUME NEW host, NEW p \in Port
    PROVE  Accepted(CheckPort(host, p), host, p)
  <1>1. /\ Ok(host, p).result = "ok" /\ Ok(host, p).host = host /\ Ok(host, p).port = p
        /\ Failed("InvalidPort").result # "ok"
    BY DEF Ok, Failed
  <1>2. CASE p \in DocumentedPorts
    BY <1>1, <1>2, PortChecked, Zenon DEF Accepted
  <1>3. CASE p \notin DocumentedPorts
    BY <1>1, <1>3, PortChecked, Zenon DEF Accepted
  <1> QED
    BY <1>2, <1>3, Zenon

\* What is left of a text: its parts, and the port it has or is given.
LEMMA ParseMeans ==
    ASSUME NEW parts, TextParts(parts), NEW default \in Port
    PROVE  LET a    == ParseAddress(parts, default)
               port == IF Len(parts) = 1 THEN default ELSE parts[2]
           IN /\ a.result = "ok" <=> Len(parts) <= 2 /\ port \in DocumentedPorts
              /\ a.result = "ok" => a.host = parts[1] /\ a.port = port
  <1>1. CASE Len(parts) = 1
    <2>1. Accepted(ParseAddress(parts, default), parts[1], default)
      BY <1>1, CheckMeans, Zenon DEF ParseAddress
    <2>2. Len(parts) <= 2
      BY <1>1
    <2> QED
      BY <1>1, <2>1, <2>2, Zenon DEF Accepted
  <1>2. CASE Len(parts) = 2
    <2>1. Len(parts) # 1 /\ Len(parts) <= 2
      BY <1>2
    <2>2. ParseAddress(parts, default) = CheckPort(parts[1], parts[2]) /\ parts[2] \in Port
      BY <1>2, <2>1, Zenon DEF ParseAddress, TextParts
    <2>3. Accepted(ParseAddress(parts, default), parts[1], parts[2])
      BY <2>2, CheckMeans, Zenon
    <2> QED
      BY <2>1, <2>3, Zenon DEF Accepted
  <1>3. CASE Len(parts) # 1 /\ Len(parts) # 2
    <2>1. ~(Len(parts) <= 2)
      <3> DEFINE n == Len(parts)
      <3>1. n \in Nat \ {0} /\ n # 1 /\ n # 2
        BY <1>3, Zenon DEF TextParts
      <3> HIDE DEF n
      <3>2. ~(n <= 2)
        BY <3>1
      <3> QED
        BY <3>2 DEF n
    <2>2. ParseAddress(parts, default) = Failed("UnsupportedAddress")
      BY <1>3, Zenon DEF ParseAddress
    <2>3. Failed("UnsupportedAddress").result # "ok"
      BY DEF Failed
    <2> QED
      BY <2>1, <2>2, <2>3, Zenon
  <1> QED
    BY <1>1, <1>2, <1>3, Zenon

LEMMA OnlyConstruct ==
    ASSUME [Next]_vars
    PROVE  Construct \/ UNCHANGED madeVars
  <1> USE DEF madeVars
  <1>1. CASE UNCHANGED vars
    BY <1>1 DEF vars
  <1>2. ASSUME NEW t \in Threads, RunStep(t) \/ Traffic(t) PROVE UNCHANGED madeVars
    BY <1>2 DEF RunStep, Traffic, Initialize, OpenTest, OpenEnter, OpenPair, OpenSocket, RunCheck,
       Start, LoopHead, Woken, ProcessEnds
  <1>3. ASSUME NEW a \in Apps, AppStep(a) \/ WaitTimesOut(a) PROVE UNCHANGED madeVars
    BY <1>3 DEF AppStep, StartRun, StartProc, Stop, Poke, JoinRun, JoinProc, WaitEnds,
       WaitTimesOut, StartThread, JoinOn, Waited, Return, End, Raise
  <1>4. ASSUME NEW a \in Apps, Call(a) \/ CallRunAsync(a) \/ CallProcessAsync(a)
        PROVE  UNCHANGED madeVars
    BY <1>4 DEF Call, CallRunAsync, CallProcessAsync, CallAsync, Create
  <1> QED
    BY <1>1, <1>2, <1>3, <1>4 DEF Next

\* The arguments are there until the object is constructed.
GivenInv == addr.result = "none" => given \in [arg : Args, cfg : Configs]

LEMMA GivenNext == TypeOK /\ GivenInv /\ [Next]_vars => GivenInv'
  <1> SUFFICES ASSUME TypeOK, GivenInv, [Next]_vars PROVE GivenInv'
    OBVIOUS
  <1>1. CASE Construct
    BY <1>1, AddressTypes DEF Construct, GivenInv
  <1>2. CASE UNCHANGED madeVars
    BY <1>2 DEF madeVars, GivenInv
  <1> QED
    BY <1>1, <1>2, OnlyConstruct

LEMMA AddressStep ==
    ASSUME GivenInv, [Next]_vars, addr.result = "none", addr' # addr,
           NEW i \in 1..3,
           LET sources == <<given.arg, given.cfg.addr, given.cfg.host>>
           IN IsText(sources[i]) /\ \A j \in 1..i - 1 : sources[j] = NoAddr
    PROVE  LET parts == <<given.arg, given.cfg.addr, given.cfg.host>>[i].parts
           IN addr' = ParseAddress(parts, given.cfg.port) /\ TextParts(parts)
  <1>1. addr' = Resolve(given.arg, given.cfg)
    BY OnlyConstruct DEF Construct, madeVars
  <1>2. given.arg \in Args /\ given.cfg \in Configs
    BY DEF GivenInv
  <1>3. CASE i = 1
    <2>1. IsText(given.arg)
      BY <1>3
    <2> QED
      BY <1>1, <1>2, <1>3, <2>1, AddressAssumption DEF Resolve, Normalize, IsText
  <1>4. CASE i = 2
    <2>1. IsText(given.cfg.addr) /\ given.arg = NoAddr
      BY <1>4
    <2> QED
      BY <1>1, <1>2, <1>4, <2>1, AddressAssumption DEF Resolve, Normalize, IsText
  <1>5. CASE i = 3
    <2>1. IsText(given.cfg.host) /\ given.arg = NoAddr /\ given.cfg.addr = NoAddr
      BY <1>5
    <2> QED
      BY <1>1, <1>2, <1>5, <2>1, AddressAssumption DEF Resolve, Normalize, IsText
  <1> QED
    BY <1>3, <1>4, <1>5

\* Whatever the application and the configuration give, as long as the first
\* that is given is a text: the new object has the documented address, or it is
\* refused as documented, for every integer as a port.
THEOREM AddressDocumented == Spec => AddressAsDocumented
  <1> DEFINE sources == <<given.arg, given.cfg.addr, given.cfg.host>>
             First(i) == IsText(sources[i]) /\ \A j \in 1..i - 1 : sources[j] = NoAddr
             Meant(i) == LET parts == sources[i].parts
                             port  == IF Len(parts) = 1 THEN given.cfg.port ELSE parts[2]
                         IN /\ addr'.result = "ok" <=> Len(parts) <= 2 /\ port \in DocumentedPorts
                            /\ addr'.result = "ok" => addr'.host = parts[1] /\ addr'.port = port
             Documented == addr.result = "none" => \A i \in 1..3 : First(i) => Meant(i)
  <1>1. Init => GivenInv
    BY DEF Init, GivenInv
  <1>2. GivenInv /\ [Next]_vars => [Documented]_addr
    <2> SUFFICES ASSUME GivenInv, [Next]_vars, addr.result = "none", addr' # addr,
                        NEW i \in 1..3, First(i)
                 PROVE  Meant(i)
      OBVIOUS
    <2>1. addr' = ParseAddress(sources[i].parts, given.cfg.port) /\ TextParts(sources[i].parts)
      BY AddressStep
    <2>2. given.cfg.port \in Port
      BY AddressAssumption DEF GivenInv
    <2> QED
      BY <2>1, <2>2, ParseMeans
  <1>3. Spec => []GivenInv
    BY <1>1, GivenNext, TypeCorrect, PTL DEF Spec
  <1>4. [][Documented]_addr <=> AddressAsDocumented
    BY DEF AddressAsDocumented
  <1> QED
    BY <1>2, <1>3, <1>4, PTL DEF Spec
=============================================================================
