----------------------------- MODULE MCFraming -----------------------------
(* Framing with two-digit prefixes in base two, big-endian as in "!I". *)
EXTENDS Framing

Bits == {0, 1}
\* Bodies that look like prefixes: 01, 10, 11.
SomeBodies == {<<1>>, <<0, 1>>, <<1, 0>>, <<1, 1, 1>>}
BigEndian == [n \in 0..3 |-> <<n \div 2, n % 2>>]
=============================================================================
