------------------------------ MODULE Framing ------------------------------
(***************************************************************************)
(* Packets in a byte stream: receive_data and process_single_packet of     *)
(* src/peng3dnet/net.py, which Server (per connection) and Client have     *)
(* alike.  A packet travels as its length, packed by the struct module     *)
(* into a prefix of fixed size, and its body.  TCP hands the bytes over in *)
(* pieces of any size; only the net thread runs this code.                 *)
(*                                                                         *)
(* Byte values are kept, so that a body may look like a prefix.  The test  *)
(* for MAX_PACKETLENGTH is left out: it is the greatest number the prefix  *)
(* can hold, so that no length is above it.                                *)
(***************************************************************************)
EXTENDS Integers, SequencesExt

CONSTANTS
    Byte,           \* the values of a byte
    Bodies,         \* the packet bodies that are sent
    PrefixLen,      \* STRUCT_LENGTH32.size
    Prefix,         \* struct.pack: from lengths to prefixes
    MaxPackets,     \* bound: packets sent
    MaxRead         \* the most that recv returns

ASSUME BytesAssumption ==
    /\ Bodies \subseteq Seq(Byte)
    /\ PrefixLen \in Nat \ {0} /\ MaxPackets \in Nat /\ MaxRead \in Nat \ {0}

\* struct.pack gives every length a prefix of its own, all of the same size.
ASSUME PrefixAssumption ==
    /\ \A b \in Bodies : Len(b) \in DOMAIN Prefix
    /\ \A n \in DOMAIN Prefix : n \in Nat /\ Prefix[n] \in [1..PrefixLen -> Byte]
    /\ \A m, n \in DOMAIN Prefix : Prefix[m] = Prefix[n] => m = n

NotSet == -1

VARIABLES
    sent,       \* the bodies handed to send_message, in order
    stream,     \* bytes on their way
    buf,        \* _buf: bytes received and not used yet
    buflen,     \* _buflen: the length of the packet being received, or NotSet
    looping,    \* is the net thread inside the loop of receive_data?
    received    \* the bodies passed to receive_packet, in order

vars == <<sent, stream, buf, buflen, looping, received>>

Frame(body) == Prefix[Len(body)] \o body
Unpack(p) == CHOOSE n \in DOMAIN Prefix : Prefix[n] = p
Drop(s, n) == SubSeq(s, n + 1, Len(s))

Init == /\ sent = <<>> /\ stream = <<>> /\ buf = <<>> /\ buflen = NotSet
        /\ looping = FALSE /\ received = <<>>

\* The peer sends a packet.
SendPacket(body) ==
    /\ Len(sent) < MaxPackets
    /\ sent' = Append(sent, body)
    /\ stream' = stream \o Frame(body)
    /\ UNCHANGED <<buf, buflen, looping, received>>

\* recv returns n bytes, and receive_data appends them to _buf.
ReceiveData(n) ==
    /\ ~looping
    /\ buf' = buf \o SubSeq(stream, 1, n)
    /\ stream' = Drop(stream, n)
    /\ looping' = TRUE
    /\ UNCHANGED <<sent, buflen, received>>

\* The condition of its loop.
MoreToDo == \/ buflen = NotSet /\ Len(buf) > 0
            \/ buflen # NotSet /\ Len(buf) >= buflen

LoopEnds == /\ looping /\ ~MoreToDo
            /\ looping' = FALSE
            /\ UNCHANGED <<sent, stream, buf, buflen, received>>

\* The end of process_single_packet, with _buf = rest and _buflen = n.
TakePacket(rest, n) ==
    IF Len(rest) >= n
    THEN /\ received' = Append(received, SubSeq(rest, 1, n))
         /\ buf' = Drop(rest, n)
         /\ buflen' = NotSet
    ELSE /\ buf' = rest
         /\ buflen' = n
         /\ UNCHANGED received

\* Mutant: the whole body has to be there together with its prefix.
ProcessForgetful ==
    /\ looping /\ MoreToDo
    /\ IF buflen # NotSet THEN TakePacket(buf, buflen)
       ELSE IF Len(buf) < PrefixLen THEN UNCHANGED <<buf, buflen, received>>
       ELSE LET n == Unpack(SubSeq(buf, 1, PrefixLen))
            IN IF Len(buf) = PrefixLen
               THEN /\ buf' = <<>> /\ buflen' = NotSet
                    /\ UNCHANGED received
               ELSE TakePacket(Drop(buf, PrefixLen), n)
    /\ UNCHANGED <<sent, stream, looping>>

\* Mutant: the prefix stays in the buffer.
ProcessKeepsPrefix ==
    /\ looping /\ MoreToDo
    /\ IF buflen # NotSet THEN TakePacket(buf, buflen)
       ELSE IF Len(buf) < PrefixLen THEN UNCHANGED <<buf, buflen, received>>
       ELSE TakePacket(buf, Unpack(SubSeq(buf, 1, PrefixLen)))
    /\ UNCHANGED <<sent, stream, looping>>

\* process_single_packet: nothing happens while the prefix is incomplete, and
\* the loop calls it again.
ProcessSinglePacket ==
    /\ looping /\ MoreToDo
    /\ IF buflen # NotSet THEN TakePacket(buf, buflen)
       ELSE IF Len(buf) < PrefixLen THEN UNCHANGED <<buf, buflen, received>>
       ELSE TakePacket(Drop(buf, PrefixLen), Unpack(SubSeq(buf, 1, PrefixLen)))
    /\ UNCHANGED <<sent, stream, looping>>

Least(m, n) == IF m < n THEN m ELSE n
NetStep == LoopEnds \/ ProcessSinglePacket
Next == \/ NetStep
        \/ \E body \in Bodies : SendPacket(body)
        \/ \E n \in 1..Least(Len(stream), MaxRead) : ReceiveData(n)

Spec == Init /\ [][Next]_vars
\* The net thread runs; nothing has to be sent, and nothing to arrive.
FairSpec == Spec /\ WF_vars(NetStep)

-----------------------------------------------------------------------------
\* Every variable has the type its comment says.
TypeOK ==
    /\ sent \in Seq(Bodies) /\ Len(sent) <= MaxPackets
    /\ received \in Seq(Bodies)
    /\ stream \in Seq(Byte) /\ buf \in Seq(Byte)
    /\ buflen \in DOMAIN Prefix \cup {NotSet}
    /\ looping \in BOOLEAN

\* What is received is a prefix of what was sent: however the stream is cut,
\* no packet is torn, merged with another, or taken for a length.
PrefixReceived == IsPrefix(received, sent)

\* When everything has arrived and the loop is over, every packet is received.
AllReceived == stream = <<>> /\ ~looping => received = sent

\* Refuted by a read that ends inside a prefix.  receive_data stores the data
\* "in a buffer until enough data is available to process a packet"
\* (net.py:534): the net thread comes back from it.
ReceiveReturns == looping ~> ~looping
=============================================================================
