------------------------------ MODULE Address ------------------------------
(***************************************************************************)
(* Addresses as an application gives them, and what util.py makes of them. *)
(*                                                                         *)
(* An address is a text or already a pair.  A text is the sequence of its  *)
(* parts between colons, the ones after the first read as ports; NaN is a  *)
(* part that int() refuses.  A short text has two characters and no colon: *)
(* len() takes it for a pair.                                              *)
(***************************************************************************)
EXTENDS Integers, Sequences

CONSTANTS
    NoAddr,     \* None
    NaN         \* a port that is not an integer

Port == Int \cup {NaN}
\* split(":") gives one part at least.
IsText(addr) == addr # NoAddr /\ addr.kind = "text"
TextParts(parts) == Len(parts) \in Nat \ {0} /\ (Len(parts) = 2 => parts[2] \in Port)

Pair(host, port) == [kind |-> "pair", parts |-> <<host, port>>]
Text(parts)      == [kind |-> "text", parts |-> parts]
Short(host)      == [kind |-> "short", parts |-> <<host>>]

Ok(host, port) == [result |-> "ok", host |-> host, port |-> port]
Failed(error)  == [result |-> error, host |-> NoAddr, port |-> NaN]

MaxPort == 65535
IsPort(p) == p # NaN /\ 0 <= p /\ p <= MaxPort

\* Mutant: the highest port is refused.
CheckPortBelow(host, p) == IF p # NaN /\ 0 <= p /\ p < MaxPort THEN Ok(host, p)
                           ELSE Failed("InvalidPort")

CheckPort(host, p) == IF p = NaN THEN Failed("InvalidPort")
                      ELSE IF p < 0 THEN Failed("InvalidPort")
                      ELSE IF p > MaxPort THEN Failed("InvalidPort")
                      ELSE Ok(host, p)

ParseAddress(parts, default) ==
    IF Len(parts) = 1 THEN CheckPort(parts[1], default)
    ELSE IF Len(parts) = 2 THEN CheckPort(parts[1], parts[2])
    ELSE Failed("UnsupportedAddress")

\* Two characters are the host and the port, as good as any other pair.
Normalize(addr, default) ==
    IF addr.kind = "pair" THEN Ok(addr.parts[1], addr.parts[2])
    ELSE IF addr.kind = "short" THEN Ok(addr.parts[1], NaN)
    ELSE ParseAddress(addr.parts, default)

\* The argument of the constructor comes first, then net.*.addr, then
\* net.*.addr.host, always with net.*.addr.port for a port that is missing.
Resolve(arg, cfg) ==
    Normalize(IF arg # NoAddr THEN arg
              ELSE IF cfg.addr = NoAddr THEN cfg.host ELSE cfg.addr, cfg.port)
=============================================================================
