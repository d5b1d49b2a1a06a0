--------------------------- MODULE LifecycleProps ---------------------------
(* What starting and stopping is expected to guarantee, and what it does not. *)
EXTENDS Lifecycle

(***************************************************************************)
(* Safety                                                                  *)
(***************************************************************************)

\* "an integer in range 0-65535" (util.py:36)
DocumentedPorts == 0..65535

\* The address of a new object is what the documentation of the constructors
\* (net.py:100-102) and of parse_address (util.py:31-37) says of its first
\* source that is given, at both ends of the range of ports.
AddressAsDocumented == [][
    addr.result = "none" =>
        LET sources == <<given.arg, given.cfg.addr, given.cfg.host>>
        IN \A i \in 1..3 : IsText(sources[i]) /\ (\A j \in 1..i - 1 : sources[j] = NoAddr) =>
              LET parts == sources[i].parts
                  port  == IF Len(parts) = 1 THEN given.cfg.port ELSE parts[2]
              IN /\ addr'.result = "ok" <=> Len(parts) <= 2 /\ port \in DocumentedPorts
                 /\ addr'.result = "ok" => addr'.host = parts[1] /\ addr'.port = port]_addr

\* "Will be sent exactly once per client" (docs/events.rst:164), of the event of
\* connect(): however many threads bind or connect, try again after a failure or
\* start the loop, one of them succeeds.
OpenedOnce == opens <= 1

\* Whoever runs the loop has everything it needs: the connection types are
\* registered, the socket is there, and the selector has the socket pair that
\* interrupt() writes to, not one of an attempt that failed.
LoopIsReady == \A t \in Threads : pc[t] \in {"loop", "select"} =>
    classic /\ bound /\ started /\ watched = pair

\* join() without a timeout that returns has waited for every thread that ran
\* when it was called; for an application that makes one of each kind.
JoinWaits == \A a \in Apps :
    pc[a] = "idle" /\ op[a] = "join" /\ outcome[a] = "ok"
        => \A w \in seen[a] : pc[w] = "done"

(***************************************************************************)
(* Liveness under FairSpec                                                 *)
(***************************************************************************)

\* After stop() no loop runs, for good: also if stop() came before the socket
\* pair was there and raised, or between two attempts to connect.
StopEnds == ~run ~> [](\A t \in Threads : pc[t] \notin {"loop", "select", "process"})

\* join() comes back, even while a thread is starting up.
JoinReturns == \A a \in Apps : op[a] \in Joins /\ pc[a] # "idle" ~> pc[a] = "idle"

(***************************************************************************)
(* Stated by the documentation, refuted by the code                        *)
(***************************************************************************)

\* initialize(): "Calling this method repeatedly will be ignored." (net.py:177)
InitializeIgnored == \A a \in Apps :
    pc[a] = "idle" /\ op[a] = "initialize" => outcome[a] = "ok"

\* join(): "If a thread has not been started yet, it will be skipped and not
\* waited for." (net.py:375)
JoinSkips == \A a \in Apps : pc[a] = "idle" /\ op[a] \in Joins => outcome[a] = "ok"

\* "Runs the server main loop in a seperate thread." (net.py:306), "Waits for
\* all spawned threads" (371): a thread object that was made gets started.
CreatedIsStarted == \A w \in Workers : pc[w] = "created" ~> pc[w] # "created"
=============================================================================
