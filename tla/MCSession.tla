----------------------------- MODULE MCSession -----------------------------
(* Session with small registries for TLC. *)
EXTENDS SessionProps, TLC

TwoIds == [chat |-> 64, move |-> 65]
\* The same names under other IDs, and one name only.
TwoMaps == {[chat |-> 67, move |-> 66], [move |-> 66]}

WithPing == {{"classic"}, {"classic", "ping"}}

TwoAndOne == [client |-> 2, server |-> 1]
OneAndTwo == [client |-> 1, server |-> 2]
TwoCalls == [client |-> 2, server |-> 2]
=============================================================================
