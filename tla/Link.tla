-------------------------------- MODULE Link --------------------------------
(***************************************************************************)
(* What a connection between a server and a client promises to the         *)
(* applications at its ends.  Each end is established once, the server     *)
(* never before the client; an established end sends packets, named as the *)
(* application names them, until it is closed; the other end, once         *)
(* established, receives them under the same names, in order, each once;   *)
(* a closed server receives nothing more.  That all of them arrive is not  *)
(* promised.                                                               *)
(***************************************************************************)
EXTENDS Naturals, Sequences

CONSTANT Names      \* packet types, by name
Sides == {"client", "server"}
Other(s) == CHOOSE o \in Sides : o # s

VARIABLES established, closed, sent, got
vars == <<established, closed, sent, got>>

Init == /\ established = {} /\ closed = {}
        /\ sent = [s \in Sides |-> <<>>] /\ got = [s \in Sides |-> <<>>]

Establish(s) ==
    /\ s \notin established
    /\ s = "server" => "client" \in established /\ s \notin closed
    /\ established' = established \cup {s}
    /\ UNCHANGED <<closed, sent, got>>

Send(s, n) ==
    /\ s \in established \ closed
    /\ sent' = [sent EXCEPT ![s] = Append(@, n)]
    /\ UNCHANGED <<established, closed, got>>

Receive(s) ==
    /\ s \in established /\ (s = "server" => s \notin closed)
    /\ Len(got[s]) < Len(sent[Other(s)])
    /\ got' = [got EXCEPT ![s] = SubSeq(sent[Other(s)], 1, Len(@) + 1)]
    /\ UNCHANGED <<established, closed, sent>>

Close(s) ==
    /\ s \notin closed
    /\ closed' = closed \cup {s}
    /\ UNCHANGED <<established, sent, got>>

Next == \E s \in Sides : \/ Establish(s) \/ Receive(s) \/ Close(s)
                         \/ \E n \in Names : Send(s, n)
Spec == Init /\ [][Next]_vars
=============================================================================
