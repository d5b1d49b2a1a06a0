----------------------------- MODULE Lifecycle -----------------------------
(***************************************************************************)
(* Starting and stopping a Server or a Client (src/peng3dnet/net.py).  The *)
(* two classes have these methods alike; bind and connect are "open" here. *)
(*                                                                         *)
(*   Apps     threads of the application, calling in any order             *)
(*   Workers  thread objects made by runAsync and process_async            *)
(*                                                                         *)
(* op[t] is the call a thread is in (or was in last), pc[t] where it is.   *)
(* _is_initialized is False for ever: it is tested and never set.          *)
(***************************************************************************)
EXTENDS Address, FiniteSets

CONSTANTS
    Apps, Workers,
    None,       \* no thread
    Ops,        \* what the application may call
    Args,       \* what it may give as addr
    Configs,    \* configurations: addr, host and port
    MaxCalls,   \* bound: calls of the application
    AsyncOnce   \* does it call runAsync and process_async once at most?

Threads == Apps \cup Workers
AllOps == {"initialize", "open", "run", "runAsync", "processAsync", "stop",
           "interrupt", "join", "joinfor"}

ASSUME ThreadsAssumption == Apps \cap Workers = {} /\ None \notin Threads
ASSUME AddressAssumption ==
    /\ NaN \notin Int
    /\ \A x \in Args : IsText(x) => TextParts(x.parts)
    /\ \A c \in Configs : c.port \in Port
    /\ \A c \in Configs : IsText(c.addr) => TextParts(c.addr.parts)
    /\ \A c \in Configs : IsText(c.host) => TextParts(c.host.parts)
ASSUME LifecycleOps == Ops \subseteq AllOps /\ AsyncOnce \in BOOLEAN /\ MaxCalls \in Nat

VARIABLES
    addr,       \* self.addr, as Address gives it; "none" before construction
    given,      \* the arguments of the constructor, until it returns
    classic,    \* is "classic" in self.conntypes?
    bound,      \* _is_bound or _is_connected
    pair,       \* which socket pair _irqrecv and _irqsend are; 0 for None
    wakeups,    \* wake-ups written to that pair and not read yet
    started,    \* _is_started
    watched,    \* the pair the selector has, 0 before the start
    run,        \* self.run
    sockLock,   \* who holds _sock_lock
    runThread,  \* _run_thread
    procThread, \* _process_thread
    pc, op,
    waiting,    \* the thread that a join() waits for
    outcome,    \* how the last call of an application thread ended
    seen,       \* history: threads that ran when join was called
    opens,      \* history: successful binds or connects
    calls       \* bound: calls so far

madeVars   == <<addr, given>>
openVars   == <<bound, pair, opens>>
loopVars   == <<started, watched, run>>
threadVars == <<runThread, procThread, waiting>>
callVars   == <<op, seen, calls>>
vars == <<madeVars, openVars, loopVars, threadVars, callVars,
          classic, wakeups, sockLock, pc, outcome>>

Labels == {"idle", "unborn", "created", "done", "init", "check", "open", "openlock",
           "newpair", "socket", "start", "loop", "select", "process", "stop", "poke",
           "startrun", "startproc", "joinrun", "waitrun", "joinproc", "waitproc"}

Init ==
    /\ addr = [result |-> "none", host |-> NoAddr, port |-> NaN]
    /\ given \in [arg : Args, cfg : Configs]
    /\ classic = FALSE /\ bound = FALSE /\ pair = 0 /\ wakeups = 0 /\ opens = 0
    /\ started = FALSE /\ watched = 0 /\ run = TRUE /\ sockLock = None
    /\ runThread = None /\ procThread = None
    /\ pc = [t \in Threads |-> IF t \in Apps THEN "idle" ELSE "unborn"]
    /\ op = [t \in Threads |-> "none"]
    /\ waiting = [a \in Apps |-> None]
    /\ outcome = [a \in Apps |-> "ok"] /\ seen = [a \in Apps |-> {}]
    /\ calls = 0

-----------------------------------------------------------------------------
Goto(t, label) == pc' = [pc EXCEPT ![t] = label] /\ UNCHANGED outcome

\* A call ends, or the function of a thread does, by return or by exception.
End(t, how) ==
    /\ pc' = [pc EXCEPT ![t] = IF t \in Apps THEN "idle" ELSE "done"]
    /\ outcome' = IF t \in Apps THEN [outcome EXCEPT ![t] = how] ELSE outcome
Return(t) == End(t, "ok")
Raise(t) == End(t, "raised")

Forgotten == [arg |-> NoAddr, cfg |-> NoAddr]

\* __init__: no object if the address is refused.
Construct ==
    /\ addr.result = "none"
    /\ addr' = Resolve(given.arg, given.cfg)
    /\ given' = Forgotten
    /\ UNCHANGED <<openVars, loopVars, threadVars, callVars, classic, wakeups,
                   sockLock, pc, outcome>>

-----------------------------------------------------------------------------
(* initialize, bind and connect *)

\* Under _init_lock.  addConnType raises if "classic" is there already.
Initialize(t) ==
    /\ pc[t] = "init"
    /\ classic' = TRUE
    /\ IF classic THEN Raise(t)
       ELSE IF op[t] = "run" THEN Goto(t, "open") ELSE Return(t)
    /\ UNCHANGED <<madeVars, openVars, loopVars, threadVars, callVars, wakeups, sockLock>>

Opened(t) == IF op[t] = "run" THEN Goto(t, "start") ELSE Return(t)

OpenTest(t) ==
    /\ pc[t] = "open"
    /\ IF bound THEN Opened(t) ELSE Goto(t, "openlock")
    /\ UNCHANGED <<madeVars, openVars, loopVars, threadVars, callVars, classic,
                   wakeups, sockLock>>

\* Mutant: the second test, under the lock, is left out.
OpenEnterAgain(t) ==
    /\ pc[t] = "openlock" /\ sockLock = None
    /\ Goto(t, "newpair") /\ sockLock' = t
    /\ UNCHANGED <<madeVars, openVars, loopVars, threadVars, callVars, classic, wakeups>>

OpenEnter(t) ==
    /\ pc[t] = "openlock" /\ sockLock = None
    /\ IF bound THEN Opened(t) /\ UNCHANGED sockLock
                ELSE Goto(t, "newpair") /\ sockLock' = t
    /\ UNCHANGED <<madeVars, openVars, loopVars, threadVars, callVars, classic, wakeups>>

\* A new pair each time, also after an attempt that failed.
OpenPair(t) ==
    /\ pc[t] = "newpair"
    /\ pair' = pair + 1 /\ wakeups' = 0
    /\ Goto(t, "socket")
    /\ UNCHANGED <<madeVars, loopVars, threadVars, callVars, classic, sockLock, bound, opens>>

\* bind() or connect() of the socket: may fail, and does for a port it cannot use.
OpenSocket(t) ==
    /\ pc[t] = "socket"
    /\ sockLock' = None
    /\ \/ /\ IsPort(addr.port)
          /\ bound' = TRUE /\ opens' = opens + 1
          /\ Opened(t)
       \/ /\ Raise(t)
          /\ UNCHANGED <<bound, opens>>
    /\ UNCHANGED <<madeVars, loopVars, threadVars, callVars, classic, wakeups, pair>>

-----------------------------------------------------------------------------
(* runBlocking and process_forever *)

RunCheck(t) ==
    /\ pc[t] = "check"
    /\ IF started THEN Return(t) ELSE Goto(t, "init")
    /\ UNCHANGED <<madeVars, openVars, loopVars, threadVars, callVars, classic,
                   wakeups, sockLock>>

\* Under _selector_lock.
Start(t) ==
    /\ pc[t] = "start"
    /\ IF started THEN Return(t) /\ UNCHANGED <<started, watched>>
       ELSE Goto(t, "loop") /\ started' = TRUE /\ watched' = pair
    /\ UNCHANGED <<madeVars, openVars, threadVars, callVars, classic, wakeups, sockLock, run>>

LoopHead(t) ==
    /\ pc[t] = "loop"
    /\ IF run THEN Goto(t, "select") ELSE Return(t)
    /\ UNCHANGED <<madeVars, openVars, loopVars, threadVars, callVars, classic,
                   wakeups, sockLock>>

\* Mutant: the pair is read whatever it was that woke the loop.
WokenAnyhow(t) ==
    /\ pc[t] = "select"
    /\ wakeups' = wakeups - 1
    /\ Goto(t, "loop")
    /\ UNCHANGED <<madeVars, openVars, loopVars, threadVars, callVars, classic, sockLock>>

\* One wake-up is read per round.
Woken(t) ==
    /\ pc[t] = "select" /\ watched = pair /\ wakeups > 0
    /\ wakeups' = wakeups - 1
    /\ Goto(t, "loop")
    /\ UNCHANGED <<madeVars, openVars, loopVars, threadVars, callVars, classic, sockLock>>

\* Something happens on another socket; nothing makes it.
Traffic(t) ==
    /\ pc[t] = "select"
    /\ Goto(t, "loop")
    /\ UNCHANGED <<madeVars, openVars, loopVars, threadVars, callVars, classic,
                   wakeups, sockLock>>

\* process_forever: rounds of 10 ms while run is set.
ProcessEnds(t) ==
    /\ pc[t] = "process" /\ ~run
    /\ Return(t)
    /\ UNCHANGED <<madeVars, openVars, loopVars, threadVars, callVars, classic,
                   wakeups, sockLock>>

-----------------------------------------------------------------------------
(* runAsync and process_async *)

\* The thread object is stored ...
Create(a, o, kind, label) ==
    \E w \in {v \in Workers : pc[v] = "unborn"} :
        /\ IF kind = "run" THEN runThread' = w /\ UNCHANGED procThread
                           ELSE procThread' = w /\ UNCHANGED runThread
        /\ pc' = [pc EXCEPT ![a] = label, ![w] = "created"]
        /\ op' = [op EXCEPT ![a] = o, ![w] = kind]

\* ... read again and started; another runAsync may have stored its own.
StartThread(t, w, first) ==
    /\ IF pc[w] = "created"
       THEN /\ pc' = [pc EXCEPT ![w] = first, ![t] = "idle"]
            /\ outcome' = [outcome EXCEPT ![t] = "ok"]
       ELSE Raise(t)
    /\ UNCHANGED <<madeVars, openVars, loopVars, threadVars, callVars, classic,
                   wakeups, sockLock>>

StartRun(t) == pc[t] = "startrun" /\ StartThread(t, runThread, "check")
StartProc(t) == pc[t] = "startproc" /\ StartThread(t, procThread, "process")

-----------------------------------------------------------------------------
(* stop, interrupt and join *)

Joins == {"join", "joinfor"}

\* Mutant: the loop is woken and not told to end.
StopWakes(t) ==
    /\ pc[t] = "stop"
    /\ Goto(t, "poke")
    /\ UNCHANGED <<madeVars, openVars, loopVars, threadVars, callVars, classic,
                   wakeups, sockLock>>

Stop(t) ==
    /\ pc[t] = "stop"
    /\ run' = FALSE
    /\ Goto(t, "poke")
    /\ UNCHANGED <<madeVars, openVars, threadVars, callVars, classic, wakeups, sockLock,
                   started, watched>>

\* Mutant: the wake-up is not written.
PokeSilent(t) ==
    /\ pc[t] = "poke"
    /\ IF op[t] \in Joins THEN Goto(t, "joinrun") ELSE Return(t)
    /\ UNCHANGED <<madeVars, openVars, loopVars, threadVars, callVars, classic,
                   wakeups, sockLock>>

\* interrupt(): there is no _irqsend before bind or connect has come that far.
Poke(t) ==
    /\ pc[t] = "poke"
    /\ IF pair = 0 THEN Raise(t)
       ELSE IF op[t] \in Joins THEN Goto(t, "joinrun") ELSE Return(t)
    /\ wakeups' = IF pair = 0 THEN wakeups ELSE wakeups + 1
    /\ UNCHANGED <<madeVars, openVars, loopVars, threadVars, callVars, classic, sockLock>>

\* Thread.join() raises for a thread that is stored and not started yet.
JoinOn(t, w, wait, next) ==
    /\ IF w = None THEN next /\ UNCHANGED waiting
       ELSE IF pc[w] = "created" THEN Raise(t) /\ UNCHANGED waiting
       ELSE Goto(t, wait) /\ waiting' = [waiting EXCEPT ![t] = w]
    /\ UNCHANGED <<madeVars, openVars, loopVars, callVars, classic, wakeups, sockLock,
                   runThread, procThread>>

\* Mutant: without a run thread there is nothing to wait for.
JoinRunOnly(t) == pc[t] = "joinrun" /\ JoinOn(t, runThread, "waitrun", Return(t))

JoinRun(t) == pc[t] = "joinrun" /\ JoinOn(t, runThread, "waitrun", Goto(t, "joinproc"))
JoinProc(t) == pc[t] = "joinproc" /\ JoinOn(t, procThread, "waitproc", Return(t))

Waited(t) ==
    /\ IF pc[t] = "waitrun" THEN Goto(t, "joinproc") ELSE Return(t)
    /\ waiting' = [waiting EXCEPT ![t] = None]
    /\ UNCHANGED <<madeVars, openVars, loopVars, callVars, classic, wakeups, sockLock,
                   runThread, procThread>>

WaitEnds(t) == pc[t] \in {"waitrun", "waitproc"} /\ pc[waiting[t]] = "done" /\ Waited(t)
WaitTimesOut(t) == pc[t] \in {"waitrun", "waitproc"} /\ op[t] = "joinfor" /\ Waited(t)

-----------------------------------------------------------------------------
(* Calls of the application *)

Running == {w \in Workers : pc[w] \notin {"unborn", "created", "done"}}

EntryOf == [initialize |-> "init", open |-> "open", run |-> "check", stop |-> "stop",
            interrupt |-> "poke", join |-> "stop", joinfor |-> "stop"]

MayCall(a, o) == addr.result = "ok" /\ pc[a] = "idle" /\ o \in Ops /\ calls < MaxCalls

Call(a) ==
    /\ \E o \in DOMAIN EntryOf :
          /\ MayCall(a, o)
          /\ Goto(a, EntryOf[o])
          /\ op' = [op EXCEPT ![a] = o]
          /\ seen' = [seen EXCEPT ![a] = IF o = "join" THEN Running ELSE {}]
    /\ calls' = calls + 1
    /\ UNCHANGED <<madeVars, openVars, loopVars, threadVars, classic, wakeups, sockLock>>

CallAsync(a, o, last) ==
    /\ MayCall(a, o)
    /\ AsyncOnce => last = None
    /\ calls' = calls + 1
    /\ seen' = [seen EXCEPT ![a] = {}]
    /\ UNCHANGED <<madeVars, openVars, loopVars, classic, wakeups, sockLock, waiting, outcome>>

CallRunAsync(a) ==
    CallAsync(a, "runAsync", runThread) /\ Create(a, "runAsync", "run", "startrun")
CallProcessAsync(a) ==
    CallAsync(a, "processAsync", procThread) /\ Create(a, "processAsync", "proc", "startproc")

-----------------------------------------------------------------------------
\* What a thread does by itself: everything but waiting for traffic.
RunStep(t) ==
    \/ Initialize(t) \/ OpenTest(t) \/ OpenEnter(t) \/ OpenPair(t) \/ OpenSocket(t)
    \/ RunCheck(t) \/ Start(t) \/ LoopHead(t) \/ Woken(t) \/ ProcessEnds(t)
AppStep(a) ==
    \/ StartRun(a) \/ StartProc(a) \/ Stop(a) \/ Poke(a)
    \/ JoinRun(a) \/ JoinProc(a) \/ WaitEnds(a)

Next ==
    \/ Construct
    \/ \E t \in Threads : RunStep(t) \/ Traffic(t)
    \/ \E a \in Apps : \/ AppStep(a) \/ WaitTimesOut(a) \/ Call(a)
                       \/ CallRunAsync(a) \/ CallProcessAsync(a)

Spec == Init /\ [][Next]_vars

\* Threads run, and a connect ends one way or the other.
Fairness == /\ \A t \in Threads : WF_vars(RunStep(t))
            /\ \A a \in Apps : WF_vars(AppStep(a))
FairSpec == Spec /\ Fairness

\* Every variable has the type its comment says.
TypeOK ==
    /\ addr.result \in {"none", "ok", "InvalidPort", "UnsupportedAddress"}
    /\ given \in [arg : Args, cfg : Configs] \cup {Forgotten}
    /\ classic \in BOOLEAN /\ bound \in BOOLEAN /\ started \in BOOLEAN /\ run \in BOOLEAN
    /\ pair \in Nat /\ wakeups \in Nat /\ watched \in Nat /\ opens \in Nat
    /\ sockLock \in Threads \cup {None}
    /\ runThread \in Workers \cup {None} /\ procThread \in Workers \cup {None}
    /\ pc \in [Threads -> Labels]
    /\ op \in [Threads -> AllOps \cup {"none", "proc"}]
    /\ waiting \in [Apps -> Workers \cup {None}]
    /\ outcome \in [Apps -> {"ok", "raised"}]
    /\ seen \in [Apps -> SUBSET Workers]
    /\ calls \in 0..MaxCalls
=============================================================================
