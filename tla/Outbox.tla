------------------------------- MODULE Outbox -------------------------------
(***************************************************************************)
(* What a peng3dnet server promises about the packets handed to            *)
(* send_message: a connection exists from its acceptance until it is       *)
(* forgotten; meanwhile packets are accepted for it, and the peer is given *)
(* a prefix of them, in order and each once.  Nothing is accepted or       *)
(* delivered before or after.  That all of them arrive is not promised.    *)
(***************************************************************************)
EXTENDS Naturals, Sequences

CONSTANTS Conns, Msgs

VARIABLES phase, accepted, delivered
vars == <<phase, accepted, delivered>>

Init == /\ phase = [c \in Conns |-> "absent"]
        /\ accepted = [c \in Conns |-> <<>>]
        /\ delivered = [c \in Conns |-> <<>>]

Open(c) == /\ phase[c] = "absent"
           /\ phase' = [phase EXCEPT ![c] = "open"]
           /\ UNCHANGED <<accepted, delivered>>

Accept(c, m) == /\ phase[c] = "open"
                /\ accepted' = [accepted EXCEPT ![c] = Append(@, m)]
                /\ UNCHANGED <<phase, delivered>>

Deliver(c) ==
    /\ phase[c] = "open" /\ Len(delivered[c]) < Len(accepted[c])
    /\ delivered' = [delivered EXCEPT
                       ![c] = SubSeq(accepted[c], 1, Len(delivered[c]) + 1)]
    /\ UNCHANGED <<phase, accepted>>

Close(c) == /\ phase[c] = "open"
            /\ phase' = [phase EXCEPT ![c] = "closed"]
            /\ UNCHANGED <<accepted, delivered>>

Next == \E c \in Conns : \/ Open(c) \/ Deliver(c) \/ Close(c)
                         \/ \E m \in Msgs : Accept(c, m)
Spec == Init /\ [][Next]_vars
=============================================================================
