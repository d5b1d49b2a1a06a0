---------------------------- MODULE MCLifecycle ----------------------------
(* Lifecycle with small sets for TLC. *)
EXTENDS LifecycleProps, TLC

CONSTANTS a1, a2, w1, w2, w3, h, g

TwoApps == {a1, a2}
TwoWorkers == {w1, w2}
ThreeWorkers == {w1, w2, w3}

\* Both ends of the range of ports, one port beyond either, and no number.
Ports == {-1, 0, 65535, 65536, NaN}
SomeArgs == {NoAddr, Pair(h, 0), Pair(h, 65536), Short(h), Text(<<h>>), Text(<<h, 0, 0>>)}
            \cup {Text(<<h, p>>) : p \in Ports}
SomeConfigs == {[addr |-> x, host |-> Text(<<g>>), port |-> p] :
                   x \in {NoAddr, Text(<<h>>)}, p \in Ports}
\* One configuration, for the runs that are not about addresses.
OneArg == {Pair(h, 0)}
OneConfig == {[addr |-> NoAddr, host |-> Text(<<g>>), port |-> 0]}

Symmetry == Permutations(Apps) \cup Permutations(Workers)
=============================================================================
