----------------------------- MODULE Upstream -----------------------------
(***************************************************************************)
(* What a peng3dnet client promises about the packets it is given to send. *)
(* An application packet is taken only behind accept.  The server is given *)
(* a prefix of what was taken, in order and each byte once, possibly a     *)
(* part of a packet at a time.  When two threads have written at once what *)
(* follows may be anything; what was given before stays given.  A          *)
(* connection that is lost stays lost: packets are still taken then, and   *)
(* nothing is delivered.                                                   *)
(***************************************************************************)
EXTENDS Naturals, SequencesExt

CONSTANTS Msgs, PacketSize

VARIABLES
    mode,       \* one stream ("whole"), two writers ("mixed"), or none ("lost")
    accepted,   \* what was taken, as pieces of packets
    delivered   \* what the server was given
vars == <<mode, accepted, delivered>>

Pieces(m) == [i \in 1..PacketSize |-> <<m, i>>]
Established == \A i \in 1..PacketSize : Contains(accepted, <<"accept", i>>)

Init == mode = "whole" /\ accepted = <<>> /\ delivered = <<>>

Accept(m) == /\ mode # "lost" /\ m = "user" => Established
             /\ accepted' = accepted \o Pieces(m)
             /\ UNCHANGED <<mode, delivered>>

Deliver == /\ mode = "whole"
           /\ \E n \in (Len(delivered) + 1)..Len(accepted) :
                 delivered' = SubSeq(accepted, 1, n)
           /\ UNCHANGED <<mode, accepted>>

Mix == mode = "whole" /\ mode' = "mixed" /\ UNCHANGED <<accepted, delivered>>

Garble == /\ mode = "mixed" /\ IsStrictPrefix(delivered, delivered')
          /\ UNCHANGED <<mode, accepted>>

Lose == mode # "lost" /\ mode' = "lost" /\ UNCHANGED <<accepted, delivered>>

Next == Deliver \/ Mix \/ Garble \/ Lose \/ \E m \in Msgs : Accept(m)
Spec == Init /\ [][Next]_vars
=============================================================================
