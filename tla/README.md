# Verification of peng3dnet

peng3dnet is a client/server message library in Python.  At either end of a TCP
connection one thread runs a selector loop and another one runs the handlers of
received packets; packets are framed by a length prefix, their types are
numbered by a registry, and a handshake copies the numbering from the server to
the client.  This directory holds TLA+ models of that code, the configurations
with which TLC checks them, and proofs checked by TLAPS.

All paths below are relative to the repository; `net.py` stands for
`src/peng3dnet/net.py`.

## The system

| Component | State | Operations | Who calls them |
|---|---|---|---|
| `Server` (net.py:45-748), its threads | `clients`, `selector`, `_process_queue`, `run`, the interrupt socket pair, `_selector_lock` | `runBlocking`, `_accept`, `_client_ready`, `send_message`, `close_connection`, `process`, `shutdown`, `stop`, `interrupt`, `join` | the net thread, the proc thread, any number of application threads |
| `ClientOnServer` (750-858) | `write_queue`, `_buf`/`_buflen`, `_mark_close`, `state`, `conntype` | `close`, `on_handshake_complete` | net and proc thread |
| `Client` (860-1548) | `_write_buf`, `_buf`/`_buflen`, `_mark_close`, `remote_state`, two conditions | `_sock_ready`, `send_message`, `pump_write_buffer`, `close_connection`, `close`, `wait_for_connection`, `wait_for_close` | net, proc and application threads |
| Framing (526-579, 1290-1341) | the bytes not yet made into packets | `receive_data`, `process_single_packet`, `receive_packet` | net thread |
| Packets (packet/) | none of their own | the handshake: hello, settype, handshake, accept; closeconn; the guards of `SmartPacket` | proc thread (receive), the sending thread (`_send`) |
| Connection types (conntypes.py, ext/ping.py) | ping data, `_pongdata` | `init`, `receive`, `send`; `wait_for_pong`, `pingServer` | proc thread, sending thread, the application |
| Start-up of a server or client | `_is_initialized`, `_is_bound`/`_is_connected`, `_is_started`, `run`, the threads | `initialize`, `bind`/`connect`, `runBlocking`, `runAsync`, `process_async`, `stop`, `join` | the application, in any order |
| Registry (registry.py) | two bidicts, `nextid` | `register`, `deleteObj`, the conversions, the sync in `HandshakePacket` | application at start, proc thread |
| Addresses (util.py) | - | `parse_address`, `normalize_addr_socketstyle` | the constructors |
| Configuration, events, errors | - | `sendEvent`, ... | everyone |

The parts interact through shared memory.  `send_message` appends to a queue and
asks the selector for EVENT_WRITE; the net thread sends, and takes EVENT_WRITE
back when the queue is empty.  The net thread puts received packets into
`_process_queue`; the proc thread takes them out and runs handlers, which send
packets, change the connection's state or close it.  A connection may be closed
by the net thread (end of file, or `_mark_close` once the queue is empty) and by
the proc thread (a closeconn packet).  `stop` and `interrupt` wake the net thread
through a socket pair.

What is hard here: three kinds of threads touch every connection and only the
selector is under a lock; most reads are checked before and used after another
thread may have run; the peer can vanish at any step; a swallowed exception ends
a handler in its middle; an application may start, stop and join in any order,
and try again what failed.  Every hazard, at its line, is in `PROJECT.json` under
`hazards`.

## Modules

| Module | What it is | Code |
|---|---|---|
| `Server` | the threads of one server and its connections: state, one action per step between two points where another thread can get in, fairness, type invariant | net.py:109-825, packet/, conntypes.py |
| `ServerProps` | its properties, and the mapping onto `Outbox` | |
| `Outbox` | abstract specification: what `send_message` promises to its caller | |
| `MCServer` | the small sets used by TLC | |
| `ServerProofs` | TLAPS: the type invariant | |
| `ServerOrderProofs` | TLAPS: order of delivery, and the wake-up of a sleeping net thread | |
| `ServerCloseProofs` | TLAPS: closing notifies, the selector has only live sockets, the reason goes out before the close; and the server implements `Outbox` | |
| `Client`, `ClientProps`, `MCClient` | the threads of one connected client, in the same style | net.py:886-1509, packet/, conntypes.py |
| `Upstream` | abstract specification: what a client promises about the packets it is given to send | |
| `ClientProofs` | TLAPS: the types, that a closed client has notified, the order of what it sends, what becomes of rests, when nobody writes at once, and that it implements `Upstream` | |
| `Session`, `MCSession` | both ends of one connection, classic, ping or of an unknown type, composed over TCP | net.py, packet/, conntypes.py, ext/ping.py |
| `SessionProps` | its properties, and the mapping onto `Link` | |
| `Link` | abstract specification: what a connection promises to the applications at its ends | |
| `SessionProofs` | TLAPS: the types, what `wait_for_pong` finds, that the reason arrives, and that `Session` implements `Link` | |
| `Lifecycle`, `LifecycleProps`, `MCLifecycle` | a server or client from its constructor to `join` | net.py:109-388, 886-1153 |
| `Address` | addresses, as operators; the constructor in `Lifecycle` uses them | util.py:27-74 |
| `LifecycleProofs` | TLAPS: every safety property of `Lifecycle`, addresses included | |
| `Framing`, `MCFraming` | packets in a byte stream cut anywhere; the code is the same on both sides | net.py:526-579, 1290-1341 |
| `FramingProofs` | TLAPS: every safety property of `Framing` | |
| `Registry`, `MCRegistry` | the two registries and their synchronization, entry by entry | registry.py, packet/internal.py:125-168 |
| `RegistryProofs` | TLAPS: every property of `Registry` | |

### Server

A thread's program counter is `pc[t]`, its arguments and its return label
`job[t]`.  Labels name the points where another thread can get in:

* `append`, `watch`, `wake`, `sent` are `send_message` (line 612, lines 613-616,
  the interrupt of line 618, and the packet's own `_send`), `mark` is the last
  line of `close_connection`;
* `notify`, `setclosed`, `unregister`, `shut`, `forget` are the statements of
  `ClientOnServer.close`, which the net and the proc thread may run at once;
* `loop`, `select`, `register`, `eof`, `write`, `drained`, `clear`, `check`,
  `retire` are `runBlocking`, `_accept` and `_client_ready`.  The events that one
  `select()` returned (`readySys`, `ready`) are handled in any order and may be
  stale by then;
* `top`, `draining`, `settype`, `complete` are `process_forever`, `process` and
  the handlers; `shutdown`, `await`, `stop`, `poke`, `join`, `joined` the calls of
  the application.

A block under `_selector_lock` is one step guarded by `LockFree`, except in
`send_message`: its `interrupt()` may block with the lock held, so the lock is
a variable.  Every exception that the code swallows is `Leave`: the thread goes
back to its own loop and the rest of the method is not executed.  A dictionary
look-up that may raise is a test `c \in clients`; a look-up in the selector is a
test of `interest[c]`.

The selector is either live (`LiveSelector`: epoll, the default on Linux; a
waiting call sees `modify()`) or reads its sets when it is called (select, poll);
`watched` is what it then sleeps on.  Peers do what a peng3dnet client does, and
may vanish at any step, with an end of file or with a reset.  The history
variables `queued`, `wire` and `closes` record what was asked for and what came
out; no guard reads `queued` or `closes`, and `wire` is read only by the guards
of the peers, who know what they have been sent.

### Client

The client has no queue but one bytes object, `_write_buf`, that every sending
thread reads, extends, sends from, cuts and stores back: `Load`, `Store`, `Get`,
`Send`, `Cut` and `Trim` are the reads and stores.  A packet is `PacketSize` pieces in
the buffer and on the wire, and `send()` may stop between any two of them
(`PartialSend`): the rest stays in the buffer, the socket is watched for
EVENT_WRITE (`After`, never taken back), and the net thread comes to write as well.

Nothing guards the buffer.  `mixed` is a history variable that becomes true when a
thread takes a copy of it while another one has a copy in hand
(`Holding`, `TakeCopy`), as long as the connection is there (`Up`); no guard reads it.
Up to that moment the stream is right (`SentInOrder`); after it pieces may be sent
twice or be lost, and the code does nothing to prevent it.  `OneWriter` says when it
does not come to that.

`Notify` is `Condition.notify_all`: it moves the threads that sleep at that moment,
and only those.  After the handshake `Accepted` sets the state, then `Announce`
notifies; in `close` the order is the other way round.

### Upstream

What was accepted and what was delivered, as pieces, and a mode.  Delivery is a
growing prefix of acceptance while the mode is "whole"; in "mixed" anything may
follow what was delivered before; in "lost" nothing.  An application packet is
accepted behind `accept` only, in every mode but "lost".  `ClientProps` maps `Client`
onto it: `queued` is accepted, `wire` delivered, and the mode is "lost" once the
socket is closed or the server away, and "mixed" when `mixed` is.

### Session

`Server` and `Client` put one end under the microscope and leave the other end to
an environment.  `Session` has both, and TCP between them, so that it can say what
one end makes of what the other one did.  A handler is one step here, except
where something can come between its parts and be seen at the other end: the
empty queue, EVENT_WRITE and the mark in `_client_ready` (`NetWrite`, `NetDrained`,
`NetRetire`), `close_connection` (`ServerMark`), `init()` of a connection type,
and the three parts of the answer to a ping.  Threads of an end are the fields of
`pc`.

A packet is its ID.  Those of applications are numbered by the registries, which
the two ends may have started differently (`ClientMaps`); a ping connection uses
64 and 65 without any registry.  `TakeHandshake` replaces the client's
registry; how that is done, entry by entry, is in `Registry`.

`wire[s]` is what TCP has on its way to `s`.  A socket that is closed with unread
data, or written to after the other end closed, causes a reset, which may drop what
the other end has not read (`ResetArrives`); either process may be killed (`Crash`).

### Link

Each end is established once, the server never before the client; an established
end sends packets, as names, until it is closed; the other end receives them
under the same names, in order, each once.  It does not promise that all of them
arrive.  `SessionProps` maps `Session` onto it; `established`, `sent` and `got` are
history variables that no guard reads.  A ping client is established when it asks
for the connection type, a ping server when it grants it; in the classic
handshake an end is when it makes its own state ACTIVE.

### Lifecycle

`op[t]` is the call in which a thread is, `pc[t]` the statement before which another
thread can get in.  `bind` and `connect` have the same shape and are one operation,
"open": a test, the lock, the test again, the socket pair, and the attempt that may
fail.  The threads that `runAsync` and `process_async` make are members of `Workers`;
`Create` and `StartThread` are the two statements, because another call may come
between.  `runBlocking` may be called by an application thread as well.

### Address

A text is the sequence of its parts between colons.  `AddressAsDocumented` compares
what the constructor stores with what its documentation says of the first
source that is given.  `AddressAssumption` says what a text may be: `split` gives at
least one part, and what comes after a colon is an integer, of any size and sign, or
nothing that `int` takes.

### Framing

Bytes keep their values, so that bodies may look like prefixes.  The prefix is
an injective function from lengths to words of `PrefixLen` bytes, which is all
that `struct` promises; TLC takes two bits, big-endian.  One action is one pass
of the loop in `receive_data`.

### Registry

`reg_int_obj` and `reg_int_str` are sets of pairs with the two rules of bidict
0.19 (requirements.txt): setting a key drops its old value, and a value that is
there under another key is refused.  The synchronization takes one name of the
handshake at a time, in any order.

### Outbox

Per connection a phase (absent, open, closed) and two sequences, accepted and
delivered.  `Accept` and `Deliver` are allowed while it is open, delivery is a
prefix of acceptance, and nothing is accepted before the opening or after the
closing.  `ServerProps` maps the server onto it: `clients` and `sock` give the
phase, `queued` is accepted, `wire` is delivered.

## Runs

| Run | What it asks | Bounds | States |
|---|---|---|---|
| `server_core` | `TypeOK`, `InOrder`, `ReasonBeforeClose`, `WatchedIsLive`, `ForgottenWasNotified`, `ImplementsOutbox` | 1 connection, 3 threads, 1 call of the application, 1 packet of the peer's application; the handler replies or closes | 1.8 M |
| `server_live` | `WakeupPending`; under fairness `GoneIsForgotten`, `StopEnds` | 1 connection, 1 call out of send, close, shutdown, stop, interrupt; the peer asks for the end or leaves; select()-style | 300 K |
| `client_core` | `OneWriter`, `AcceptBeforeUser`; under fairness `EofIsNoticed`, `ConnectedReturns`, `StopEnds` | 2 application threads, 3 calls, only one of them sends; packets of 2 pieces, `send()` takes all it is given | 890 K |
| `client_close` | `TypeOK`, `ClosedWasNotified`, `SentInOrder`, `RestIsWatched`, `ImplementsUpstream` | 1 application thread, 2 calls, a handler that replies, closes or raises; packets of 2 pieces, `send()` stops anywhere; every way to close | 12 M |
| `session_core` | `TypeOK`, `ReasonArrives`, `ImplementsLink`; under fairness `HandshakeEnds`, `PingAnswered`, `EndReaches`, `MarkedEnds` | three connection types, three registries, 1 call of the client's application and 2 of the server's | 300 K |
| `lifecycle_core` | `TypeOK`, `OpenedOnce`, `LoopIsReady`, `JoinWaits`, `AddressAsDocumented`; under fairness `StopEnds`, `JoinReturns` | 2 application threads, 2 threads of their own making, 3 calls out of 9; addresses and ports at both ends of their range from each of the 3 sources | 410 K |
| `framing_core` | `TypeOK`, `PrefixReceived`, `AllReceived` | 3 packets out of 4 bodies, reads of up to 4 bytes | 3 K |
| `registry_core` | `TypeOK`, `OneToOne`, `NamedHasObject`, `SyncedAgree` | 3 names, 3 objects, 3 IDs (one fixed, two generated) per side; names may be registered twice | 1.8 M (symmetric) |
| `server_stranded` | refutes `QueuedIsSent` | | |
| `client_wait_close` | refutes `CloseReturns` | | |
| `framing_spin` | refutes `ReceiveReturns` | | |
| `lifecycle_init` | refutes `InitializeIgnored` | | |

The bounds are small but let the cases happen that the properties are about.
Connections of a server share only the lock, the wake-up pair and
`_process_queue`; one connection with the net thread, the proc thread and one
application thread already has three concurrent users of every queue, of the
selector and of `close`.  One call more per application thread repeats a chain
of steps that the handler and the handshake already run in the same state.  Two
of the four bodies are also legal prefixes, so a reader that loses its place by one
byte shows at once.  Two pieces to a
packet let `send()` stop inside one as well as between two, and let a rest of one go
out with the next.  Three names are enough for one that the server has, one that it has
not, and one under another ID, all that `Clashes = FALSE` admits; permuted IDs it
excludes.  In `session_core`
the server's application may send and close, or send twice; the passing run with
two calls on either side (`MaxCalls <- TwoCalls`) has 630 K states and shows
nothing else.  Two registries differ from the server's: one has the same names
under other IDs, one has a name less.  Three calls in `lifecycle_core` are enough
for a failed attempt, a second one by another thread, and a `stop` or `join`.
`IrqCap` is 8, more than a run can write; what happens when the pair is full is
under "Further disagreements".

`CHECK_DEADLOCK FALSE` is in every configuration: a server without peers and
without calls rests, threads end after `stop()`, and the bounds end the
environment.

### Assumptions of the runs

* `SendMayBlock = FALSE`: the kernel buffer has room.  Otherwise `InOrder` is false.
* `WaitFirst = TRUE` in the client's runs: the application waits for the connection before
  it sends.  Otherwise `AcceptBeforeUser` and `ImplementsUpstream` are false.
* In `client_core` also `PartialSend = FALSE`, one member of `Senders` and a handler that does
  not send: `send()` takes all it is given, and one thread of the application sends.
  Otherwise `OneWriter` is false, and `AcceptBeforeUser` with a short `send()`.  The socket of a client is blocking (1053), so a short
  `send()` is rare, but `send()` promises no more.  `client_close` has a
  short `send()` and a handler that replies.
* In `session_core` a `send()` of the client takes the packet whole and nobody else writes
  meanwhile: `ClientSends` is one step.  `Client` has what happens otherwise.
* `Clashes = FALSE` in `registry_core`, and `IdsAssumption` in `Session`: no ID of the
  server is that of another packet at the client.  Otherwise `SyncedAgree` is false.
* In `registry_core` the client's application does not register or delete while its proc
  thread is in the synchronization; at the server it may at any time.
* `AsyncOnce = TRUE` in `lifecycle_core`: the application makes one thread of each
  kind.  Otherwise `JoinWaits` is false.
* `IrqCap = 8`: the interrupt pair does not fill up, so `interrupt()` and the
  calls that use it return.  Otherwise see `InterruptIterates` below.
* Applications in `session_core` send names that both ends have, and the server's
  sends to active classic clients only: a packet that it sent to a ping client
  would have one of the IDs 64 and 65 that a ping means.
* What no step of a connection looks at has one value in `Session!Init`: the server's
  types matter to a ping client, registries to a classic one.
* `Stranded` is excepted in the liveness of `Session` (a packet that the net thread
  overlooks is `QueuedIsSent` of `Server`), and `Deaf` (a client that has sent
  something after its own `close_connection`), which every ping client becomes.
* In `EofIsNoticed` the case that the client has sent something after its own
  `close_connection` is excepted in the property itself.

### Fairness

`FairSpec` has weak fairness of the steps of the net thread, the proc thread and
of a call in progress in an application thread.  These are operating-system
threads (`runAsync`, `process_async` start them; they loop until `run` is
cleared), so a step that stays possible is taken.  Waiting for the lock is the
guard `LockFree`: weak fairness suffices because its holder leaves it after one
step.  Neither a call of the application nor a step of a peer is ever forced, and
waiting threads have no fairness of their own: what wakes them is a step of
another.

`Session` has the same fairness for the threads of either end, while their process
is alive, and for `WaitReturns`: `wait_for_connection` and `wait_for_pong` test
their condition after they are woken, and both are notified after the step that
makes it true.  Timeouts, crashes, resets and calls are not owed.  In `Lifecycle`
every thread goes on with its call; `connect()` ends one way or the other, but no
traffic comes to wake a loop (`Traffic`), and `join` with a timeout need not time
out.

## What is proved

TLAPS checks, for any sets of connections, threads, names and objects and any
bounds:

* `TypeCorrect` (ServerProofs): `Spec => []TypeOK`.  `TypeOK` alone is not
  inductive: where a thread stands decides whether its `job` names a connection
  and a packet to send, and `irq` does not go below 0 only because an event
  `"irq"` in `readySys` means that a wake-up is there to be read.  `Control` and
  `LoopInv` say so; `TypeInv` is their conjunction with `TypeOK`.  One lemma per
  action or group of actions, with one step per conjunct that the action touches.
* `PacketsInOrder` (ServerOrderProofs): with `SendMayBlock = FALSE`,
  `Spec => []InOrder`.  `OrderAt` adds to `InOrder` that a connection that was
  never accepted is unknown to `send_message` and has empty queues, and that an
  open socket has had a peer.  Only `SendAppend`, `Write`, `Accept`, `CloseSocket`,
  `CloseForget` and the peers touch these variables (`NextFrame`).
* `SleeperIsWoken` (ServerOrderProofs): `Spec => []WakeupPending`.  Given the types
  it is inductive: the net thread takes the write set into `watched` in the step
  in which it goes to sleep (`NetNotSelecting`, `LoopHead`), only `SendWatch` asks
  for EVENT_WRITE afterwards, which holds the lock until `SendWake` has written,
  and only the net thread reads wake-ups.

* `RegistryTypes`, `RegistryOneToOne`, `RegistryNamed` (RegistryProofs):
  `Spec => []TypeOK`, `[]OneToOne` and `[]NamedHasObject`, whatever the
  applications may do.  `TypeOK` needs that `todo` is empty until the handshake
  (`LocalTodo`); the other two are inductive, given the types.
  `NamedHasObject` is what remains of `Paired` when names are registered twice, as they
  are in the run.  They rest on lemmas about bidicts: what setting, deleting and moving does to the keys and to
  being one-to-one.
* `RegistryPaired`: with `NamesTwice = FALSE`, `Spec => []Paired`: the second
  assignment of `register` is never refused.  No run checks it.
* `RegistryAgrees`: with `Clashes = FALSE`, `Spec => SyncedAgree`, for any number
  of packets and any order of the names.  The invariant `Syncing` says what holds
  between two names: no ID in the handshake of a name the client has is taken there by
  another one (`Free`), a name that was dealt with has the
  server's ID and one that was not has still its own, each with its object
  (`Progress`).  `OneToOne` is needed: it makes the entry that a move takes away
  the only one of this name.

* `ForgottenNotified` (ServerCloseProofs): `Spec => []ForgottenWasNotified`.
  `NotifiedInv` follows `close` through its statements: past `notify`, `on_close`
  has been called.
* `SelectorIsLive`: `Spec => []WatchedIsLive`.  `WatchedInv` adds what `_accept` and
  `close` have not done yet: a connection that is being accepted is in no other
  thread's hands: nothing the proc thread could close it for has been received from
  it (`Fresh`, `Unheard`).
* `ReasonIsSent`: with `SendMayBlock = FALSE`, `Spec => []ReasonBeforeClose`.
  `ReasonInv`: a thread that is on its way to the mark either is about to queue the
  closing packet or has queued it.  With `PacketsInOrder` and an empty queue it has been sent.
* `OutboxImplemented` (ServerCloseProofs): with `SendMayBlock = FALSE`,
  `Spec => ImplementsOutbox`.  Every step of the server is one of `Outbox`, or none,
  from `TableInv` (when `clients` and `sock` may differ), `OrderInv` and `WatchedInv`.
* `TypeCorrect` (ClientProofs): `Spec => []TypeOK`.  What a thread holds of
  `_write_buf` depends on its label (`Sending`), and `irq` does not go below 0
  because an event `"irq"` in `ready` means that a wake-up is there (`Backed`).
* `ClosedNotified`: `Spec => []ClosedWasNotified`, because a thread comes to `setclosed`
  by `on_close` only.
* `SentOrdered`, `RestWatched` (ClientProofs): `Spec => []SentInOrder` and
  `Spec => []RestIsWatched`, with no hypothesis: for any number of threads that send at any
  time, any size of packets and a `send()` that stops anywhere.  `SentInOrder` says
  nothing of what a thread will do to the buffer next, so it is far from inductive.
  `StreamInv` adds, as long as the connection is there and nothing is mixed: at most one
  thread has a copy or a length in hand (`OneHolds`), a copy is that of the buffer, without
  what was sent of it when it is about to be stored (`CopyOf`), and wire and buffer make
  up what was queued, but for what the one thread has sent and not cut off (`Whole`).
* `UpstreamImplemented`: with `WaitFirst = TRUE`, `Spec => ImplementsUpstream`.  A step that
  queues a packet is `Accept`, one that sends is `Deliver` (by `StreamInv`, the wire stays a
  prefix of what was queued) or, once mixed, `Garble`; one in which a second thread takes a copy
  is `Mix`, and one that ends the connection is `Lose`.  That an application packet is
  accepted behind `accept` is `OrderInv`: a closed client has closed its socket, so CLOSED is
  not taken for a connection (`Shut`), a thread that sends has waited (`Waited`), and
  as long as the connection is there (`UpInv`)
  * `OneShake`: at most one handshake packet is on its way, and none is left when the
    proc thread completes the handshake, so it cannot send accept a second time while
    an application sends;
  * `AcceptPath`: the proc thread queues `accept` before it sets the state, nobody has
    waited with success before, and nobody queues an application packet before;
  * `Connected`: what an active client has behind it.
* `OneWriterOnly`, `AcceptFirst`: with `WaitFirst = TRUE` and `PartialSend = FALSE`,
  `Spec => []AcceptBeforeUser`, for any number of senders; and if in addition at most one thread
  of the application sends and its handler does not (`OneAtATime`), `Spec => []OneWriter`.
  The hypotheses are those of the run `client_core`.  `SoleInv`: `send()` takes all, so there
  is never a rest for the net thread (`NetIdle`); until the client is active only
  the proc thread sends, and with `OneAtATime` one thread does after it (`OneSends`); and
  the buffer is empty whenever nobody is sending (`Drained`).  `AcceptFirst` needs only
  the first half: when several threads mix up their packets, `accept` is out.
* `TypeCorrect`, `OpensOnce`, `LoopReady` (LifecycleProofs): `Spec => []TypeOK`,
  `[]OpenedOnce`, `[]LoopIsReady`.  `LoopInv` has four parts: who is between the second
  test and the end of the attempt holds `_sock_lock` and has found nothing bound
  (`LockInv`); there have been as many openings as `bound` says (`OpenInv`); after the
  start nothing is opened any more, so the pair stays that of the selector
  (`StartInv`); and what a starting thread has behind it (`RunInv`).
* `JoinHasWaited`: with `AsyncOnce`, `Spec => []JoinWaits`: every thread that was made is
  one of the two that are stored (`OwnInv`), and `join` goes through both (`JoinAt`).
* `AddressDocumented`: `Spec => AddressAsDocumented`, for any arguments and configurations
  and every integer as a port.  `GivenInv`: the arguments are there until the
  constructor ends.  `ParseMeans` says what `parse_address` makes of a text,
  `AddressStep` that it is given the first one.
* `TypeCorrect`, `PrefixKept`, `AllArrive` (FramingProofs): `Spec => []TypeOK`,
  `[]PrefixReceived` and `[]AllReceived`, for any packets, any prefix that is an injective
  function of the length, and reads that end anywhere.  `FramingInv` says what is in
  `_buf`, `_buflen` and the stream together (`Pending`): the packets that were sent
  and not received, one after the other.  `Carries` says it by the places in the bytes
  where each of them ends, so that no recursion over the packets is needed.  A
  packet that is complete is therefore the next one and nothing else
  (`PrefixKept`).  The loop ends only when less than a packet is there, so an
  empty stream leaves nothing behind (`AllArrive`).
* `TypeCorrect` (SessionProofs): `Spec => []TypeOK`.  Heads and tails of the three queues
  need that all their packets are known; `ids` stays one-to-one in the handshake
  because no ID clashes (`IdsInv`).
* `PongHasData`: `Spec => []AnsweredHasData`, for `_pong` comes after `on_pong` in the only
  thread that calls either.  No run checks it.
* `ReasonReaches`: `Spec => []ReasonArrives`.  `ReasonInv` follows the closing packet from
  the server's queue over the wire into the client's queue, until it is handled
  (`Told`) or TCP has lost it (`Lost`); every step keeps it on this way (`Keeps`).
* `LinkImplemented`: `Spec => ImplementsLink`, for any registries that do not clash, any
  connection types and any number of calls.  Every step of `Session` closes an end,
  establishes one, sends or receives a packet of an application (`StepKinds`); that it
  may do so in `Link` follows from `LinkInv`:
  * `EndInv`: what `state`, `stype` and `pc` of an end say about its being established,
    and that the client's IDs are the server's from then on;
  * `ShakeInv` and `KeyInv`: a handshake, or the answer to it, is on its way only
    after the server has sent one, and the packet that establishes the server
    (`Key`) comes from an established client and stays ahead of every packet of its
    application.  Hence the server is not established first, and receives nothing
    before it is;
  * `ClientCount` and `ServerCount`: the packets in `inq` and `wire` (`Flow`), and for
    the client in `writeq`, carry in order what the other end has sent after what
    this end has got, under the IDs of `Naming`; what TCP drops is at the end of `wire`
    and never followed by another packet.  `Run` says it with a function that counts
    along a queue, so that no recursion is needed;
  * `PrefixInv`: what an end has got is the beginning of what was sent to it.

  Each queue is treated by what a step may do to it (`ClientBound`, `ServerBound`: nine
  cases instead of thirty actions), with a lemma on `Run` or `Flow` for each.

Only checked by TLC is what is beyond the prover: liveness, which rests on fairness and
ENABLED.  Every invariant, action property and refinement that a run checks has a
theorem.  The hypotheses of a theorem (`SendMayBlock`, `WaitFirst`, `PartialSend`,
`OneAtATime`, `AsyncOnce`, `Clashes`) hold in the run that checks its property too; what
happens without them is under "Further disagreements".  `OneToOne`, `NamedHasObject`,
`SentInOrder`, `RestIsWatched` and what is not named here need none, but for the
assumptions on the constants.

## Disagreements between code and documentation

Four are runs of the project and findings in `PROJECT.json`.  In short:

1. `server_stranded`: the net thread finds the queue empty (503), another thread
   queues a packet and asks for EVENT_WRITE (612-618), the net thread takes
   EVENT_WRITE back (505).  The packet stays.
2. `client_wait_close`: `close` notifies (1461) before it sets `STATE_CLOSED`
   (1474); a thread that comes to wait in between is never woken.
3. `framing_spin`: a read that ends inside a length prefix leaves the loop of
   `receive_data` (540) spinning, and with it the net thread.
4. `lifecycle_init`: `_is_initialized` is tested (186) and never set, so that a second
   `initialize`, and `runBlocking` after one or after a failed attempt, raises.

### Further disagreements

Met while modelling.  Their properties are stated beside the others, and TLC
refutes them with the constants given here, the rest as in the run named; they
are not runs of the project, which keeps one counterexample for each of `Server`, `Client`,
`Framing` and `Lifecycle` and none for `Registry` and `Session`.

| Property | Run, and what to change | What happens |
|---|---|---|
| `MarkedIsClosed` | `server_stranded`, `AppOps = {"close"}`, `HandlerOps = {"reply", "close"}`, `PeerOps = {}`, `MaxUser = 0` | the closing packet is written, and the mark looked at (507), before `close_connection` sets it (661): the server does not close; that the client does, and the server then follows, is `MarkedEnds` |
| `WireInOrder`, `OneWriter` | `client_close`, `SrvOps = {"hello", "handshake"}`, `HandlerOps = {}`: one sender, and a short `send()` | what is left of a packet is in the buffer and the net thread is asked to write it (1284-1286, 1207-1210); a thread that sends and the net thread both read the buffer before either cuts it (1248, 1276, 1277): pieces go out twice or are lost.  EVENT_WRITE is not taken back, so the net thread races every later send too, that of `accept` after a short send of `settype` included |
| `WireInOrder`, `OneWriter` | `client_core`, `HandlerOps = {"reply"}`, `SrvOps = {"hello", "handshake", "user"}`, `MaxUser = 1`: no short `send()` | two senders, an application and a handler that replies, both read `_write_buf` before either stores it |
| `AcceptBeforeUser` | `client_core`, `PartialSend = TRUE` | as above; a piece of `accept` is lost, and an application packet goes out without it |
| `SyncedAgree` | `registry_core`, `Names <- TwoNames`, `Objs <- TwoObjs`, `Clashes = TRUE` | permuted IDs lose entries while names are moved one by one |
| `JoinSkips` | `lifecycle_init` | `join` before `bind` or `connect` raises: it calls `stop`, and there is no socket pair (340) |
| `JoinWaits`, `CreatedIsStarted` | `lifecycle_core`, `AsyncOnce = FALSE` | `runAsync` stores its thread and reads it back (315-317): two at once start one thread twice and the other never, and `join` waits for the last one only |
| `ReasonReported` | `session_core` | the net thread closes at the end of file (1205) while the closeconn packet waits in `_process_queue`: `on_close` gets no reason |
| `InOrder` | `server_core`, `SendMayBlock = TRUE` | `sendall` on a non-blocking socket raises (502) after the packet was popped (483): it is lost, later ones are sent |
| `ActiveIsOpen` | `server_core` | the proc thread completes a handshake (825) after the net thread has closed: CLOSED becomes ACTIVE |
| `UnknownTypeAborted` | `server_stranded`, `PeerOps = {"othertype"}` | the arguments of `close_connection` are swapped (internal.py:115); the peer stays connected |
| `ShutdownWaits` | `server_live` | `shutdown()` with timeout 0 waits for nobody (364), though 0 "will be ignored" (348) |
| `InterruptIterates` | `server_stranded`, `Conns <- TwoConns`, `AppOps = {"send"}`, `MaxCalls = 3`, `IrqCap = 2` | `interrupt()` blocks on the full pair with `_selector_lock` held (618); the net thread needs the lock before it comes to empty the pair |
| `EofIsAlwaysNoticed` | `client_core` | a send after `close_connection` takes the socket out of the selector (1281) without closing it |
| `JoinedIsAccepted` | `client_core` | `remote_state>=STATE_ACTIVE` (1483) is also true of CLOSED |
| `ClosedStays` | `client_core` | the handlers set the state (1509, internal.py:89, conntypes.py:108) after the net thread closed |
| `Paired` | `registry_core` | `register` has stored the object (118) when the name is refused (119) |
| `NewIdIsNew` | `registry_core`, `MaxId = 4` | the synchronization brings in IDs that `getNewID` generates again (97-98) |

Not stated as properties, because they lie on a single path: `Server.sendEvent` reads
`self.server`, which a server does not have (net.py:747); a text of two characters is
taken for a pair (util.py:71), which `Short` of `Address` models; a ping connection
uses the IDs 64 and 65, which are also those of the first two packets of an
application.

## Not modelled

* SSL: a state machine of OpenSSL, and branches (417-432, 446-456, 490-499) that
  fail as soon as the handshake has to wait.
* The wording and encoding of packets (msgpack, zlib) and malformed packets: a
  packet is its kind.  An exception from decoding ends the proc thread (692-705).
* `sendEvent` and the peng3d event system, which is optional and external.
* The mixins' own packets and the contents of pings; `registerAll` and the conversions
  of the registry, which are look-ups.
* `process()` called by an application instead of `process_forever`: it may run twice at
  once then, with the effect of two proc threads.
* More than one server or client: nothing is shared between them.

## Plan

1. Two connections in one server run, with the bounds that TLC can take; the
   synchronization of `Registry` with the threads of `Client`, which may send
   while names are moved.
2. What of the stream survives when two threads have mixed their copies: only
   packets queued or sent after the first overlap should suffer, and none should once
   the buffer has been empty with nobody at it.
3. The theorems of `Server` without `SendMayBlock = FALSE`, for what remains of them:
   what is sent is a subsequence of what was queued.
