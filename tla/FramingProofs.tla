---------------------------- MODULE FramingProofs ----------------------------
(* However a stream of packets is cut, they are received as they were sent. *)
EXTENDS Framing, SequenceTheorems, TLAPS

-----------------------------------------------------------------------------
(* Bytes *)

LEMMA PrefixType ==
    ASSUME NEW n \in DOMAIN Prefix
    PROVE  n \in Nat /\ Prefix[n] \in Seq(Byte) /\ Len(Prefix[n]) = PrefixLen
  BY PrefixAssumption, BytesAssumption

LEMMA BodyType ==
    ASSUME NEW b \in Bodies
    PROVE  b \in Seq(Byte) /\ Len(b) \in DOMAIN Prefix
  BY PrefixAssumption, BytesAssumption

LEMMA FrameType ==
    ASSUME NEW b \in Bodies
    PROVE  /\ Frame(b) \in Seq(Byte) /\ Len(Frame(b)) = PrefixLen + Len(b)
           /\ \A i \in 1..PrefixLen : Frame(b)[i] = Prefix[Len(b)][i]
           /\ \A i \in 1..Len(b) : Frame(b)[PrefixLen + i] = b[i]
  <1>1. /\ Prefix[Len(b)] \in Seq(Byte) /\ Len(Prefix[Len(b)]) = PrefixLen
        /\ b \in Seq(Byte) /\ Len(b) \in Nat /\ PrefixLen \in Nat
    BY PrefixType, BodyType, BytesAssumption
  <1>2. /\ Frame(b) \in Seq(Byte) /\ Len(Frame(b)) = PrefixLen + Len(b)
        /\ \A i \in 1..(PrefixLen + Len(b)) :
              Frame(b)[i] = IF i <= PrefixLen THEN Prefix[Len(b)][i] ELSE b[i - PrefixLen]
    BY <1>1, ConcatProperties DEF Frame
  <1> QED
    BY <1>1, <1>2

\* unpack gives back the length that was packed.
LEMMA UnpackPrefix ==
    ASSUME NEW n \in DOMAIN Prefix
    PROVE  Unpack(Prefix[n]) = n
  BY PrefixAssumption DEF Unpack

LEMMA DropType ==
    ASSUME NEW s \in Seq(Byte), NEW n \in 0..Len(s)
    PROVE  /\ Drop(s, n) \in Seq(Byte) /\ Len(Drop(s, n)) = Len(s) - n
           /\ \A i \in 1..(Len(s) - n) : Drop(s, n)[i] = s[n + i]
           /\ SubSeq(s, 1, n) \in Seq(Byte) /\ Len(SubSeq(s, 1, n)) = n
           /\ \A i \in 1..n : SubSeq(s, 1, n)[i] = s[i]
           /\ SubSeq(s, 1, n) \o Drop(s, n) = s
  <1>1. Len(s) \in Nat /\ n \in Nat /\ \A i \in 1..Len(s) : s[i] \in Byte
    OBVIOUS
  <1>2. /\ Drop(s, n) \in Seq(Byte) /\ Len(Drop(s, n)) = Len(s) - n
        /\ \A i \in 1..(Len(s) - n) : Drop(s, n)[i] = s[n + i]
    <2>1. \A i \in (n + 1)..Len(s) : s[i] \in Byte
      BY <1>1
    <2>2. /\ Drop(s, n) \in Seq(Byte)
          /\ Len(Drop(s, n)) = IF n + 1 <= Len(s) THEN Len(s) - (n + 1) + 1 ELSE 0
          /\ \A i \in 1..(Len(s) - (n + 1) + 1) : Drop(s, n)[i] = s[(n + 1) + i - 1]
      BY <1>1, <2>1, SubSeqProperties, n + 1 \in Int, Len(s) \in Int DEF Drop
    <2> QED
      BY <1>1, <2>2
  <1>3. /\ SubSeq(s, 1, n) \in Seq(Byte) /\ Len(SubSeq(s, 1, n)) = n
        /\ \A i \in 1..n : SubSeq(s, 1, n)[i] = s[i]
    BY <1>1
  <1>4. SubSeq(s, 1, n) \o Drop(s, n) = s
    <2> DEFINE a == SubSeq(s, 1, n)
               d == Drop(s, n)
    <2> HIDE DEF a, d
    <2>1. /\ a \o d \in Seq(Byte) /\ Len(a \o d) = Len(a) + Len(d)
          /\ \A i \in 1..(Len(a) + Len(d)) :
                (a \o d)[i] = IF i <= Len(a) THEN a[i] ELSE d[i - Len(a)]
      BY <1>2, <1>3, ConcatProperties DEF a, d
    <2>2. Len(a) = n /\ Len(d) = Len(s) - n /\ Len(a \o d) = Len(s)
      BY <1>1, <1>2, <1>3, <2>1 DEF a, d
    <2>3. \A i \in 1..Len(s) : (a \o d)[i] = s[i]
      BY <1>1, <1>2, <1>3, <2>1, <2>2 DEF a, d
    <2> QED
      BY <2>1, <2>2, <2>3, SeqEqual DEF a, d
  <1> QED
    BY <1>2, <1>3, <1>4

\* Two ways to cut the same bytes at the same place.
LEMMA SameCut ==
    ASSUME NEW a \in Seq(Byte), NEW b \in Seq(Byte), NEW c \in Seq(Byte), NEW d \in Seq(Byte),
           a \o b = c \o d, Len(a) = Len(c)
    PROVE  a = c /\ b = d
  <1>1. /\ Len(a \o b) = Len(a) + Len(b)
        /\ \A i \in 1..(Len(a) + Len(b)) :
              (a \o b)[i] = IF i <= Len(a) THEN a[i] ELSE b[i - Len(a)]
        /\ Len(c \o d) = Len(c) + Len(d)
        /\ \A i \in 1..(Len(c) + Len(d)) :
              (c \o d)[i] = IF i <= Len(c) THEN c[i] ELSE d[i - Len(c)]
    BY ConcatProperties
  <1>2. Len(a) \in Nat /\ Len(b) \in Nat /\ Len(d) \in Nat /\ Len(b) = Len(d)
    BY <1>1
  <1>3. \A i \in 1..Len(a) : a[i] = c[i]
    BY <1>1, <1>2
  <1>4. \A i \in 1..Len(b) : b[i] = d[i]
    <2> SUFFICES ASSUME NEW i \in 1..Len(b) PROVE b[i] = d[i]
      OBVIOUS
    <2>1. i + Len(a) \in 1..(Len(a) + Len(b)) /\ ~(i + Len(a) <= Len(a))
          /\ (i + Len(a)) - Len(a) = i
      BY <1>2
    <2> QED
      BY <1>1, <1>2, <2>1
  <1> QED
    BY <1>2, <1>3, <1>4, SeqEqual

LEMMA Reassociate ==
    ASSUME NEW a \in Seq(Byte), NEW b \in Seq(Byte), NEW c \in Seq(Byte)
    PROVE  (a \o b) \o c = a \o (b \o c)
  BY ConcatAssociative

-----------------------------------------------------------------------------
(* A stream of packets *)

\* The bytes b are the packets of s after its first k: there is a place in b
\* where each of them ends.
Carries(s, b, k) == \E at \in [k..Len(s) -> 0..Len(b)] :
    /\ at[k] = 0 /\ at[Len(s)] = Len(b)
    /\ \A i \in k..Len(s), j \in k..Len(s) : i <= j => at[i] <= at[j]
    /\ \A i \in (k + 1)..Len(s) : /\ at[i] = at[i - 1] + PrefixLen + Len(s[i])
                                  /\ \A x \in 1..(PrefixLen + Len(s[i])) :
                                        b[at[i - 1] + x] = Frame(s[i])[x]

LEMMA CarriesNone == Carries(<<>>, <<>>, 0)
  <1> DEFINE at == [i \in 0..0 |-> 0]
  <1>1. Len(<<>>) = 0 /\ 0..0 = {0} /\ (0 + 1)..0 = {}
    OBVIOUS
  <1>2. at \in [0..0 -> 0..0] /\ at[0] = 0
    OBVIOUS
  <1> HIDE DEF at
  <1> QED
    BY <1>1, <1>2 DEF Carries

\* A packet is sent.
LEMMA CarriesMore ==
    ASSUME NEW s \in Seq(Bodies), NEW b \in Seq(Byte), NEW k \in 0..Len(s),
           NEW body \in Bodies, Carries(s, b, k)
    PROVE  Carries(Append(s, body), b \o Frame(body), k)
  <1> DEFINE ss == Append(s, body)
             f == Frame(body)
             bb == b \o f
             n == PrefixLen + Len(body)
  <1>1. PICK at \in [k..Len(s) -> 0..Len(b)] :
           /\ at[k] = 0 /\ at[Len(s)] = Len(b)
           /\ \A i \in k..Len(s), j \in k..Len(s) : i <= j => at[i] <= at[j]
           /\ \A i \in (k + 1)..Len(s) : /\ at[i] = at[i - 1] + PrefixLen + Len(s[i])
                                         /\ \A x \in 1..(PrefixLen + Len(s[i])) :
                                               b[at[i - 1] + x] = Frame(s[i])[x]
    BY DEF Carries
  <1>2. /\ Len(ss) = Len(s) + 1 /\ ss[Len(s) + 1] = body /\ \A i \in 1..Len(s) : ss[i] = s[i]
        /\ Len(s) \in Nat /\ k \in Nat /\ k <= Len(s) /\ Len(b) \in Nat /\ PrefixLen \in Nat
    BY BytesAssumption
  <1>3. f \in Seq(Byte) /\ Len(f) = n /\ n \in Nat
    BY FrameType, BodyType, PrefixType, BytesAssumption
  <1>4. /\ bb \in Seq(Byte) /\ Len(bb) = Len(b) + n
        /\ \A i \in 1..Len(b) : bb[i] = b[i]
        /\ \A x \in 1..n : bb[Len(b) + x] = f[x]
    <2>1. /\ bb \in Seq(Byte) /\ Len(bb) = Len(b) + Len(f)
          /\ \A i \in 1..(Len(b) + Len(f)) : bb[i] = IF i <= Len(b) THEN b[i] ELSE f[i - Len(b)]
      BY <1>3, ConcatProperties
    <2> HIDE DEF bb, f, n
    <2> QED
      BY <1>2, <1>3, <2>1
  <1> DEFINE to == [i \in k..(Len(s) + 1) |-> IF i = Len(s) + 1 THEN Len(b) + n ELSE at[i]]
  <1> HIDE DEF ss, f, bb, n
  <1>5. /\ to \in [k..Len(ss) -> 0..Len(bb)]
        /\ to[Len(s) + 1] = Len(b) + n /\ \A i \in k..Len(s) : to[i] = at[i]
    BY <1>1, <1>2, <1>3, <1>4
  <1> HIDE DEF to
  <1>6. to[k] = 0 /\ to[Len(ss)] = Len(bb)
    BY <1>1, <1>2, <1>4, <1>5
  <1>7. ASSUME NEW i \in k..Len(ss), NEW j \in k..Len(ss), i <= j
        PROVE  to[i] <= to[j]
    <2>1. \A l \in k..Len(s) : at[l] \in 0..Len(b)
      BY <1>1
    <2>2. CASE j = Len(s) + 1 /\ i = Len(s) + 1
      BY <1>2, <1>3, <1>5, <2>2
    <2>3. CASE j = Len(s) + 1 /\ i \in k..Len(s)
      <3>1. at[i] \in 0..Len(b) /\ to[i] = at[i] /\ to[j] = Len(b) + n
        BY <1>5, <2>1, <2>3
      <3> QED
        BY <1>2, <1>3, <3>1
    <2>4. CASE j \in k..Len(s) /\ i \in k..Len(s)
      <3>1. to[i] = at[i] /\ to[j] = at[j] /\ at[i] <= at[j]
        BY <1>1, <1>5, <1>7, <2>4
      <3> QED
        BY <3>1
    <2> QED
      BY <1>2, <1>7, <2>2, <2>3, <2>4
  <1>8. ASSUME NEW i \in (k + 1)..Len(ss)
        PROVE  /\ to[i] = to[i - 1] + PrefixLen + Len(ss[i])
               /\ \A x \in 1..(PrefixLen + Len(ss[i])) : bb[to[i - 1] + x] = Frame(ss[i])[x]
    <2>1. CASE i = Len(s) + 1
      <3>1. to[i] = Len(b) + n /\ to[i - 1] = Len(b) /\ ss[i] = body
        BY <1>1, <1>2, <1>5, <2>1
      <3>2. Len(body) \in Nat
        BY BodyType
      <3> QED
        BY <1>2, <1>4, <3>1, <3>2 DEF n, f
    <2>2. CASE i # Len(s) + 1
      <3>1. /\ i \in (k + 1)..Len(s) /\ i \in k..Len(s) /\ i - 1 \in k..Len(s) /\ i \in 1..Len(s)
            /\ ss[i] = s[i] /\ to[i] = at[i] /\ to[i - 1] = at[i - 1]
        BY <1>2, <1>5, <2>2
      <3>2. /\ at[i] = at[i - 1] + PrefixLen + Len(s[i])
            /\ \A x \in 1..(PrefixLen + Len(s[i])) : b[at[i - 1] + x] = Frame(s[i])[x]
        BY <1>1, <3>1
      <3>3. at[i] \in 0..Len(b) /\ at[i - 1] \in 0..Len(b) /\ Len(s[i]) \in Nat
        BY <1>1, <3>1, BodyType
      <3>4. ASSUME NEW x \in 1..(PrefixLen + Len(s[i]))
            PROVE  bb[at[i - 1] + x] = b[at[i - 1] + x]
        <4> DEFINE p == at[i - 1]
                   q == at[i]
                   l == Len(s[i])
        <4>1. q = p + PrefixLen + l /\ p \in Nat /\ l \in Nat /\ q \in 0..Len(b) /\ x \in 1..(PrefixLen + l)
          BY <3>2, <3>3
        <4> HIDE DEF p, q, l
        <4>2. p + x \in 1..Len(b)
          BY <1>2, <4>1
        <4>3. at[i - 1] + x \in 1..Len(b)
          BY <4>2 DEF p
        <4> QED
          BY <1>4, <4>3
      <3> QED
        BY <3>1, <3>2, <3>4
    <2> QED
      BY <2>1, <2>2
  <1>9. Carries(ss, bb, k)
    BY <1>5, <1>6, <1>7, <1>8 DEF Carries
  <1> QED
    BY <1>9 DEF ss, bb, f

\* The bytes begin with the next packet.
LEMMA CarriesFirst ==
    ASSUME NEW s \in Seq(Bodies), NEW b \in Seq(Byte), NEW k \in 0..Len(s), Carries(s, b, k)
    PROVE  /\ b = <<>> <=> k = Len(s)
           /\ k < Len(s) => /\ k + 1 \in 1..Len(s)
                            /\ PrefixLen + Len(s[k + 1]) \in 0..Len(b)
                            /\ SubSeq(b, 1, PrefixLen + Len(s[k + 1])) = Frame(s[k + 1])
                            /\ Carries(s, Drop(b, PrefixLen + Len(s[k + 1])), k + 1)
  <1>1. PICK at \in [k..Len(s) -> 0..Len(b)] :
           /\ at[k] = 0 /\ at[Len(s)] = Len(b)
           /\ \A i \in k..Len(s), j \in k..Len(s) : i <= j => at[i] <= at[j]
           /\ \A i \in (k + 1)..Len(s) : /\ at[i] = at[i - 1] + PrefixLen + Len(s[i])
                                         /\ \A x \in 1..(PrefixLen + Len(s[i])) :
                                               b[at[i - 1] + x] = Frame(s[i])[x]
    BY DEF Carries
  <1>2. /\ Len(s) \in Nat /\ k \in Nat /\ k <= Len(s) /\ Len(b) \in Nat
        /\ PrefixLen \in Nat /\ PrefixLen > 0
    BY BytesAssumption
  <1>a. \A i \in k..Len(s) : at[i] \in 0..Len(b)
    BY <1>1
  <1>b. \A i \in (k + 1)..Len(s) : at[i] = at[i - 1] + PrefixLen + Len(s[i])
    BY <1>1
  <1>c. \A i \in (k + 1)..Len(s) : \A x \in 1..(PrefixLen + Len(s[i])) :
            b[at[i - 1] + x] = Frame(s[i])[x]
    BY <1>1
  <1>d. \A i \in k..Len(s), j \in k..Len(s) : i <= j => at[i] <= at[j]
    BY <1>1
  <1>3. CASE k = Len(s)
    BY <1>1, <1>2, <1>3
  <1>4. CASE k # Len(s)
    <2> DEFINE f == s[k + 1]
               n == PrefixLen + Len(f)
               d == Drop(b, n)
    <2>1. k + 1 \in 1..Len(s) /\ k + 1 \in (k + 1)..Len(s) /\ (k + 1) - 1 = k /\ k < Len(s)
          /\ k + 1 \in k..Len(s)
      BY <1>2, <1>4
    <2>2. f \in Bodies /\ Len(f) \in Nat /\ n \in Nat /\ n > 0
      BY <1>2, <2>1, BodyType
    <2> HIDE DEF n
    <2>3. at[k + 1] = n /\ n \in 0..Len(b) /\ \A x \in 1..n : b[x] = Frame(f)[x]
      <3>a. /\ at[k + 1] = at[(k + 1) - 1] + PrefixLen + Len(f)
            /\ \A x \in 1..n : b[at[(k + 1) - 1] + x] = Frame(f)[x]
        BY <1>b, <1>c, <2>1 DEF n
      <3>b. at[k] \in Nat /\ (k + 1) - 1 = k
        BY <1>a, <1>2
      <3>1. at[k + 1] = at[k] + n /\ \A x \in 1..n : b[at[k] + x] = Frame(f)[x]
        BY <1>2, <2>2, <3>a, <3>b DEF n
      <3>2. at[k] = 0 /\ at[k + 1] \in 0..Len(b)
        BY <1>1, <2>1
      <3>3. \A x \in 1..n : 0 + x = x
        BY <2>2
      <3> QED
        BY <2>2, <3>1, <3>2, <3>3
    <2>4. b # <<>>
      BY <1>2, <2>2, <2>3
    <2>5. SubSeq(b, 1, n) = Frame(f)
      <3>1. SubSeq(b, 1, n) \in Seq(Byte) /\ Len(SubSeq(b, 1, n)) = n
            /\ \A x \in 1..n : SubSeq(b, 1, n)[x] = b[x]
        BY <2>3, DropType
      <3>2. Frame(f) \in Seq(Byte) /\ Len(Frame(f)) = n
        BY <2>2, FrameType DEF n
      <3>3. \A x \in 1..Len(SubSeq(b, 1, n)) : SubSeq(b, 1, n)[x] = Frame(f)[x]
        BY <2>3, <3>1
      <3> QED
        BY <3>1, <3>2, <3>3, SeqEqual
    <2>6. Carries(s, d, k + 1)
      <3>1. d \in Seq(Byte) /\ Len(d) = Len(b) - n /\ \A x \in 1..(Len(b) - n) : d[x] = b[n + x]
        BY <2>3, DropType
      <3> HIDE DEF d
      <3> DEFINE to == [i \in (k + 1)..Len(s) |-> at[i] - n]
      <3>2. ASSUME NEW i \in (k + 1)..Len(s) PROVE at[i] \in n..Len(b)
        <4>1. i \in k..Len(s) /\ k + 1 <= i
          BY <1>2
        <4>2. at[i] \in 0..Len(b) /\ at[k + 1] <= at[i]
          BY <1>a, <1>d, <2>1, <4>1
        <4> QED
          BY <1>2, <2>2, <2>3, <4>2
      <3>3. to \in [(k + 1)..Len(s) -> 0..Len(d)]
        BY <1>2, <2>2, <3>1, <3>2
      <3>4. \A i \in (k + 1)..Len(s) : to[i] = at[i] - n
        OBVIOUS
      <3> HIDE DEF to
      <3>5. to[k + 1] = 0 /\ to[Len(s)] = Len(d)
        <4>1. k + 1 \in (k + 1)..Len(s) /\ Len(s) \in (k + 1)..Len(s)
          BY <1>2, <2>1
        <4>2. to[k + 1] = n - n /\ to[Len(s)] = Len(b) - n
          BY <1>1, <2>3, <3>4, <4>1
        <4> QED
          BY <2>2, <3>1, <4>2
      <3>6. ASSUME NEW i \in (k + 1)..Len(s), NEW j \in (k + 1)..Len(s), i <= j
            PROVE  to[i] <= to[j]
        <4>1. i \in k..Len(s) /\ j \in k..Len(s)
          BY <1>2
        <4>2. at[i] <= at[j] /\ at[i] \in Nat /\ at[j] \in Nat
          <5>1. at[i] \in 0..Len(b) /\ at[j] \in 0..Len(b) /\ at[i] <= at[j]
            BY <1>a, <1>d, <3>6, <4>1
          <5> QED
            BY <5>1
        <4> QED
          BY <2>2, <3>4, <4>2
      <3>7. ASSUME NEW i \in ((k + 1) + 1)..Len(s)
            PROVE  /\ to[i] = to[i - 1] + PrefixLen + Len(s[i])
                   /\ \A x \in 1..(PrefixLen + Len(s[i])) : d[to[i - 1] + x] = Frame(s[i])[x]
        <4>1. /\ i \in (k + 1)..Len(s) /\ i - 1 \in (k + 1)..Len(s) /\ i \in 1..Len(s)
          BY <1>2
        <4>2. Len(s[i]) \in Nat
          BY <4>1, BodyType
        <4>3. /\ at[i] = at[i - 1] + PrefixLen + Len(s[i])
              /\ \A x \in 1..(PrefixLen + Len(s[i])) : b[at[i - 1] + x] = Frame(s[i])[x]
          BY <1>b, <1>c, <4>1
        <4>4. at[i] \in n..Len(b) /\ at[i - 1] \in n..Len(b)
              /\ to[i] = at[i] - n /\ to[i - 1] = at[i - 1] - n
          BY <3>2, <3>4, <4>1
        <4>5. to[i] = to[i - 1] + PrefixLen + Len(s[i])
          BY <1>2, <2>2, <4>2, <4>3, <4>4
        <4>6. ASSUME NEW x \in 1..(PrefixLen + Len(s[i]))
              PROVE  d[to[i - 1] + x] = b[at[i - 1] + x]
          <5>1. to[i - 1] + x \in 1..(Len(b) - n) /\ n + (to[i - 1] + x) = at[i - 1] + x
            <6> DEFINE p == at[i - 1]
                       q == at[i]
                       l == Len(s[i])
                       t == to[i - 1]
            <6>1. /\ q = p + PrefixLen + l /\ p \in n..Len(b) /\ q \in n..Len(b)
                  /\ l \in Nat /\ x \in 1..(PrefixLen + l) /\ t = p - n
              BY <4>2, <4>3, <4>4
            <6> HIDE DEF p, q, l, t
            <6>2. t + x \in 1..(Len(b) - n) /\ n + (t + x) = p + x
              BY <1>2, <2>2, <6>1
            <6> QED
              BY <6>2 DEF p, t
          <5> QED
            BY <3>1, <5>1
        <4> QED
          BY <4>3, <4>5, <4>6
      <3> QED
        BY <3>3, <3>5, <3>6, <3>7 DEF Carries
    <2> QED
      BY <1>4, <2>1, <2>3, <2>4, <2>5, <2>6 DEF n
  <1> QED
    BY <1>3, <1>4

\* The bytes go on with a prefix: it is the one of the next packet, whose body
\* follows.
LEMMA NextPacket ==
    ASSUME NEW s \in Seq(Bodies), NEW k \in 0..Len(s), NEW n \in DOMAIN Prefix,
           NEW c \in Seq(Byte), NEW d \in Seq(Byte), Carries(s, (Prefix[n] \o c) \o d, k)
    PROVE  /\ k + 1 \in 1..Len(s) /\ n = Len(s[k + 1]) /\ n <= Len(c) + Len(d)
           /\ n <= Len(c) => /\ SubSeq(c, 1, n) = s[k + 1]
                             /\ Carries(s, Drop(c, n) \o d, k + 1)
  <1> DEFINE p == Prefix[n]
             cd == c \o d
             b == p \o cd
             w == s[k + 1]
             pw == Prefix[Len(w)]
             m == PrefixLen + Len(w)
             rest == Drop(b, m)
  <1>1. /\ p \in Seq(Byte) /\ Len(p) = PrefixLen /\ n \in Nat /\ PrefixLen \in Nat /\ PrefixLen > 0
        /\ Len(c) \in Nat /\ Len(d) \in Nat
    BY PrefixType, BytesAssumption
  <1>2. cd \in Seq(Byte) /\ Len(cd) = Len(c) + Len(d)
    BY ConcatProperties
  <1> HIDE DEF p, cd
  <1>3. /\ b \in Seq(Byte) /\ Len(b) = PrefixLen + Len(cd)
        /\ \A i \in 1..PrefixLen : b[i] = p[i]
    <2>1. /\ b \in Seq(Byte) /\ Len(b) = Len(p) + Len(cd)
          /\ \A i \in 1..(Len(p) + Len(cd)) : b[i] = IF i <= Len(p) THEN p[i] ELSE cd[i - Len(p)]
      <3>1. p \in Seq(Byte) /\ cd \in Seq(Byte)
        BY <1>1, <1>2
      <3> QED
        BY ONLY <3>1, ConcatProperties
    <2> HIDE DEF b
    <2> QED
      BY <1>1, <1>2, <2>1
  <1>4. Carries(s, b, k)
    <2>1. (p \o c) \o d = b
      BY <1>1, Reassociate DEF cd
    <2> QED
      BY <2>1 DEF p
  <1> HIDE DEF b
  <1>5. k < Len(s)
    <2>1. b # <<>>
      BY <1>1, <1>2, <1>3
    <2>2. k # Len(s)
      BY <1>3, <1>4, <2>1, CarriesFirst
    <2> QED
      BY <2>2
  <1>6. /\ k + 1 \in 1..Len(s) /\ m \in 0..Len(b) /\ SubSeq(b, 1, m) = Frame(w)
        /\ Carries(s, rest, k + 1)
    BY <1>3, <1>4, <1>5, CarriesFirst
  <1>7. /\ w \in Bodies /\ w \in Seq(Byte) /\ Len(w) \in DOMAIN Prefix /\ Len(w) \in Nat
        /\ pw \in Seq(Byte) /\ Len(pw) = PrefixLen
    BY <1>6, BodyType, PrefixType
  <1>8. /\ rest \in Seq(Byte) /\ Len(rest) = Len(b) - m
        /\ \A i \in 1..m : SubSeq(b, 1, m)[i] = b[i]
        /\ SubSeq(b, 1, m) \o rest = b
    BY <1>3, <1>6, DropType
  <1> HIDE DEF m, w, rest
  <1>9. m = PrefixLen + Len(w)
    BY DEF m
  <1>10. p = pw
    <2>1. \A i \in 1..PrefixLen : Frame(w)[i] = pw[i]
      BY <1>7, FrameType
    <2>2. \A i \in 1..PrefixLen : i \in 1..m
      BY <1>1, <1>7, <1>9
    <2>3. \A i \in 1..Len(p) : p[i] = pw[i]
      BY <1>1, <1>3, <1>6, <1>8, <2>1, <2>2
    <2> QED
      BY <1>1, <1>7, <2>3, SeqEqual
  <1>11. n = Len(w)
    BY <1>7, <1>10, PrefixAssumption DEF p
  <1>12. cd = w \o rest
    <2>1. Frame(w) = p \o w
      BY <1>10 DEF Frame
    <2>2. p \o cd = (p \o w) \o rest
      BY <1>6, <1>8, <2>1 DEF b
    <2>3. (p \o w) \o rest = p \o (w \o rest)
      BY <1>1, <1>7, <1>8, Reassociate
    <2>4. w \o rest \in Seq(Byte)
      BY <1>7, <1>8, ConcatProperties
    <2> QED
      BY <1>1, <1>2, <2>2, <2>3, <2>4, SameCut
  <1>13. n <= Len(c) + Len(d)
    BY <1>1, <1>2, <1>3, <1>6, <1>7, <1>9, <1>11
  <1>14. ASSUME n <= Len(c)
         PROVE  SubSeq(c, 1, n) = w /\ Drop(c, n) \o d = rest
    <2> DEFINE a == SubSeq(c, 1, n)
               e == Drop(c, n)
    <2>1. n \in 0..Len(c)
      BY <1>1, <1>14
    <2>2. a \in Seq(Byte) /\ Len(a) = n /\ e \in Seq(Byte) /\ a \o e = c
      BY <2>1, DropType
    <2> HIDE DEF a, e
    <2>3. (a \o e) \o d = a \o (e \o d)
      BY <2>2, Reassociate
    <2>4. e \o d \in Seq(Byte)
      BY <2>2, ConcatProperties
    <2>5. a \o (e \o d) = w \o rest
      BY <1>12, <2>2, <2>3 DEF cd
    <2>6. a = w /\ e \o d = rest
      BY <1>7, <1>8, <1>11, <2>2, <2>4, <2>5, SameCut
    <2> QED
      BY <2>6 DEF a, e
  <1> QED
    BY <1>6, <1>11, <1>13, <1>14 DEF w

-----------------------------------------------------------------------------
(* The invariant *)

\* The bytes that are not received packets yet: those of the packet whose
\* prefix process_single_packet has read, the buffer and the stream.
Held == IF buflen = NotSet THEN buf ELSE Prefix[buflen] \o buf
Pending == Held \o stream

\* They are the packets after the received ones; and the loop of receive_data
\* ends only when there is nothing more to do.
FramingInv ==
    /\ TypeOK
    /\ Len(received) \in 0..Len(sent)
    /\ received = SubSeq(sent, 1, Len(received))
    /\ Carries(sent, Pending, Len(received))
    /\ ~looping => ~MoreToDo

LEMMA HeldType ==
    ASSUME TypeOK
    PROVE  Held \in Seq(Byte)
  <1>1. CASE buflen = NotSet
    BY <1>1 DEF TypeOK, Held
  <1>2. CASE buflen # NotSet
    <2>1. Prefix[buflen] \in Seq(Byte)
      BY <1>2, PrefixType DEF TypeOK
    <2> QED
      BY <1>2, <2>1, ConcatProperties DEF TypeOK, Held
  <1> QED
    BY <1>1, <1>2

LEMMA InitInv == Init => FramingInv
  <1> SUFFICES ASSUME Init PROVE FramingInv
    OBVIOUS
  <1>1. TypeOK
    <2>1. <<>> \in Seq(Byte) /\ <<>> \in Seq(Bodies) /\ Len(<<>>) = 0
      OBVIOUS
    <2>2. 0 <= MaxPackets
      BY BytesAssumption
    <2> QED
      BY <2>1, <2>2 DEF Init, TypeOK
  <1>2. /\ sent = <<>> /\ received = <<>> /\ Len(received) = 0 /\ Len(sent) = 0
        /\ buflen = NotSet /\ buf = <<>> /\ stream = <<>>
    BY DEF Init
  <1>3. Pending = <<>>
    BY <1>2 DEF Pending, Held
  <1>4. Carries(sent, Pending, Len(received))
    BY <1>2, <1>3, CarriesNone
  <1>5. received = SubSeq(sent, 1, Len(received))
    BY <1>2
  <1>6. ~MoreToDo
    BY <1>2 DEF MoreToDo
  <1> QED
    BY <1>1, <1>2, <1>4, <1>5, <1>6 DEF FramingInv

LEMMA SendPacketStep ==
    ASSUME FramingInv, NEW body \in Bodies, SendPacket(body)
    PROVE  FramingInv'
  <1>1. /\ Len(sent) < MaxPackets /\ sent' = Append(sent, body) /\ stream' = stream \o Frame(body)
        /\ buf' = buf /\ buflen' = buflen /\ looping' = looping /\ received' = received
    BY DEF SendPacket
  <1>2. TypeOK /\ Held \in Seq(Byte) /\ Held' = Held
    BY <1>1, HeldType DEF FramingInv, Held
  <1>3. /\ sent' \in Seq(Bodies) /\ Len(sent') = Len(sent) + 1
        /\ Len(sent) \in Nat /\ \A i \in 1..Len(sent) : sent'[i] = sent[i]
    BY <1>1, <1>2 DEF TypeOK
  <1>4. Frame(body) \in Seq(Byte)
    BY FrameType
  <1>5. stream' \in Seq(Byte)
    BY <1>1, <1>2, <1>4, ConcatProperties DEF TypeOK
  <1>6. TypeOK'
    <2>1. Len(sent') <= MaxPackets
      BY <1>1, <1>3, BytesAssumption
    <2> QED
      BY <1>1, <1>2, <1>3, <1>5, <2>1 DEF TypeOK
  <1>7. Pending \in Seq(Byte)
    BY <1>2, ConcatProperties DEF TypeOK, Pending
  <1>8. Pending' = Pending \o Frame(body)
    <2>1. (Held \o stream) \o Frame(body) = Held \o (stream \o Frame(body))
      BY <1>2, <1>4, Reassociate DEF TypeOK
    <2> QED
      BY <1>1, <1>2, <2>1 DEF Pending
  <1>9. Carries(sent', Pending', Len(received)')
    BY <1>1, <1>2, <1>7, <1>8, CarriesMore DEF FramingInv, TypeOK
  <1>10. /\ Len(received)' \in 0..Len(sent)'
         /\ received' = SubSeq(sent', 1, Len(received)')
    <2>1. /\ Len(received) \in 0..Len(sent) /\ received = SubSeq(sent, 1, Len(received))
          /\ received \in Seq(Bodies)
      BY <1>2 DEF FramingInv, TypeOK
    <2>2. \A i \in 1..Len(received) : sent'[i] = sent[i]
      BY <1>3, <2>1
    <2>3. SubSeq(sent', 1, Len(received)) = SubSeq(sent, 1, Len(received))
      BY <1>2, <1>3, <2>1, <2>2 DEF TypeOK
    <2> QED
      BY <1>1, <1>3, <2>1, <2>3
  <1>11. (~looping => ~MoreToDo)'
    BY <1>1 DEF FramingInv, MoreToDo
  <1> QED
    BY <1>6, <1>9, <1>10, <1>11 DEF FramingInv

LEMMA ReceiveDataStep ==
    ASSUME FramingInv, NEW n \in 1..Least(Len(stream), MaxRead), ReceiveData(n)
    PROVE  FramingInv'
  <1>1. /\ sent' = sent /\ buflen' = buflen /\ received' = received /\ looping' = TRUE
        /\ buf' = buf \o SubSeq(stream, 1, n) /\ stream' = Drop(stream, n)
    BY DEF ReceiveData
  <1>2. TypeOK /\ Held \in Seq(Byte)
    BY HeldType DEF FramingInv
  <1>3. n \in 0..Len(stream)
    BY <1>2, BytesAssumption DEF TypeOK, Least
  <1> DEFINE a == SubSeq(stream, 1, n)
  <1>4. a \in Seq(Byte) /\ stream' \in Seq(Byte) /\ a \o stream' = stream
    BY <1>1, <1>2, <1>3, DropType DEF TypeOK
  <1>5. buf' = buf \o a
    BY <1>1
  <1> HIDE DEF a
  <1>6. buf \in Seq(Byte) /\ buf' \in Seq(Byte)
    BY <1>2, <1>4, <1>5, ConcatProperties DEF TypeOK
  <1>7. TypeOK'
    BY <1>1, <1>2, <1>4, <1>6 DEF TypeOK
  <1>8. Held' = Held \o a
    <2>1. CASE buflen = NotSet
      BY <1>1, <1>5, <2>1 DEF Held
    <2>2. CASE buflen # NotSet
      <3>1. Prefix[buflen] \in Seq(Byte)
        BY <1>2, <2>2, PrefixType DEF TypeOK
      <3>2. (Prefix[buflen] \o buf) \o a = Prefix[buflen] \o (buf \o a)
        BY <1>4, <1>6, <3>1, Reassociate
      <3> QED
        BY <1>1, <1>5, <2>2, <3>2 DEF Held
    <2> QED
      BY <2>1, <2>2
  <1>9. Pending' = Pending
    <2>1. (Held \o a) \o stream' = Held \o (a \o stream')
      BY <1>2, <1>4, Reassociate
    <2> QED
      BY <1>4, <1>8, <2>1 DEF Pending
  <1> QED
    BY <1>1, <1>7, <1>9 DEF FramingInv

\* The first packet that is not received has the prefix of n, and its body, or
\* the beginning of it, is in rest.
LEMMA TakePacketStep ==
    ASSUME FramingInv, NEW rest \in Seq(Byte), NEW n \in DOMAIN Prefix,
           Carries(sent, (Prefix[n] \o rest) \o stream, Len(received)),
           looping, TakePacket(rest, n), UNCHANGED <<sent, stream, looping>>
    PROVE  FramingInv'
  <1> DEFINE k == Len(received)
  <1>1. /\ TypeOK /\ k \in 0..Len(sent) /\ received = SubSeq(sent, 1, k)
        /\ sent' = sent /\ stream' = stream /\ looping'
    BY DEF FramingInv
  <1>2. n \in Nat /\ n # NotSet /\ Len(rest) \in Nat /\ k \in Nat /\ Len(sent) \in Nat
    BY <1>1, PrefixAssumption DEF NotSet, TypeOK
  <1>3. /\ k + 1 \in 1..Len(sent)
        /\ n <= Len(rest) => /\ SubSeq(rest, 1, n) = sent[k + 1]
                             /\ Carries(sent, Drop(rest, n) \o stream, k + 1)
    BY <1>1, NextPacket DEF TypeOK
  <1>4. CASE Len(rest) >= n
    <2>1. /\ received' = Append(received, sent[k + 1])
          /\ buf' = Drop(rest, n) /\ buflen' = NotSet
      BY <1>2, <1>3, <1>4 DEF TakePacket
    <2>2. sent[k + 1] \in Bodies
      BY <1>1, <1>3 DEF TypeOK
    <2>3. /\ received' \in Seq(Bodies) /\ Len(received') = k + 1
          /\ \A i \in 1..(k + 1) : received'[i] = sent[i]
      <3>1. received \in Seq(Bodies) /\ \A i \in 1..k : received[i] = sent[i]
        BY <1>1, <1>2 DEF TypeOK
      <3> QED
        BY <1>2, <2>1, <2>2, <3>1
    <2>4. received' = SubSeq(sent', 1, k + 1)
      <3>1. /\ SubSeq(sent, 1, k + 1) \in Seq(Bodies) /\ Len(SubSeq(sent, 1, k + 1)) = k + 1
            /\ \A i \in 1..(k + 1) : SubSeq(sent, 1, k + 1)[i] = sent[i]
        BY <1>1, <1>2, <1>3 DEF TypeOK
      <3> QED
        BY <1>1, <2>3, <3>1, SeqEqual
    <2>5. buf' \in Seq(Byte)
      BY <1>2, <1>4, <2>1, DropType
    <2>6. TypeOK'
      BY <1>1, <2>1, <2>3, <2>5 DEF TypeOK
    <2>7. Pending' = Drop(rest, n) \o stream
      BY <1>1, <2>1 DEF Pending, Held
    <2>8. Carries(sent', Pending', Len(received)')
      BY <1>1, <1>2, <1>3, <1>4, <2>3, <2>7
    <2> QED
      BY <1>1, <1>2, <1>3, <2>3, <2>4, <2>6, <2>8 DEF FramingInv
  <1>5. CASE ~(Len(rest) >= n)
    <2>1. buf' = rest /\ buflen' = n /\ received' = received
      BY <1>5 DEF TakePacket
    <2>2. TypeOK'
      BY <1>1, <2>1 DEF TypeOK
    <2>3. Pending' = (Prefix[n] \o rest) \o stream
      BY <1>1, <1>2, <2>1 DEF Pending, Held
    <2> QED
      BY <1>1, <2>1, <2>2, <2>3 DEF FramingInv
  <1> QED
    BY <1>4, <1>5

LEMMA ProcessSinglePacketStep ==
    ASSUME FramingInv, ProcessSinglePacket
    PROVE  FramingInv'
  <1>1. TypeOK /\ looping /\ MoreToDo /\ sent' = sent /\ stream' = stream /\ looping' = looping
        /\ Carries(sent, Pending, Len(received)) /\ buf \in Seq(Byte) /\ stream \in Seq(Byte)
    BY DEF FramingInv, ProcessSinglePacket, TypeOK
  <1>2. CASE buflen # NotSet
    <2>1. TakePacket(buf, buflen) /\ buflen \in DOMAIN Prefix
      BY <1>1, <1>2 DEF ProcessSinglePacket, TypeOK
    <2>2. Pending = (Prefix[buflen] \o buf) \o stream
      BY <1>2 DEF Pending, Held
    <2> QED
      BY <1>1, <2>1, <2>2, TakePacketStep
  <1>3. CASE buflen = NotSet /\ Len(buf) < PrefixLen
    <2>1. buf' = buf /\ buflen' = buflen /\ received' = received
      BY <1>3 DEF ProcessSinglePacket
    <2>2. Pending' = Pending /\ TypeOK'
      BY <1>1, <2>1 DEF Pending, Held, TypeOK
    <2> QED
      BY <1>1, <2>1, <2>2 DEF FramingInv
  <1>4. CASE buflen = NotSet /\ ~(Len(buf) < PrefixLen)
    <2> DEFINE p == SubSeq(buf, 1, PrefixLen)
               rest == Drop(buf, PrefixLen)
               k == Len(received)
               w == sent[k + 1]
    <2>1. TakePacket(rest, Unpack(p))
      BY <1>4 DEF ProcessSinglePacket
    <2>2. PrefixLen \in 0..Len(buf) /\ PrefixLen \in Nat /\ PrefixLen > 0
      BY <1>1, <1>4, BytesAssumption
    <2>3. /\ p \in Seq(Byte) /\ Len(p) = PrefixLen /\ rest \in Seq(Byte) /\ p \o rest = buf
          /\ \A i \in 1..PrefixLen : p[i] = buf[i]
      BY <1>1, <2>2, DropType
    <2> HIDE DEF p, rest
    <2>4. Pending = buf \o stream
      BY <1>4 DEF Pending, Held
    <2>5. /\ buf \o stream \in Seq(Byte) /\ Len(buf \o stream) = Len(buf) + Len(stream)
          /\ \A i \in 1..(Len(buf) + Len(stream)) :
                (buf \o stream)[i] = IF i <= Len(buf) THEN buf[i] ELSE stream[i - Len(buf)]
      BY ONLY <1>1, ConcatProperties
    <2>6. sent \in Seq(Bodies) /\ k \in 0..Len(sent) /\ k \in Nat /\ Len(sent) \in Nat
      BY <1>1 DEF FramingInv, TypeOK
    <2>7. k < Len(sent)
      <3>1. Pending # <<>>
        BY <1>1, <2>2, <2>4, <2>5
      <3>2. k # Len(sent)
        BY <1>1, <2>4, <2>5, <2>6, <3>1, CarriesFirst
      <3> QED
        BY <2>6, <3>2
    <2>8. /\ k + 1 \in 1..Len(sent) /\ PrefixLen + Len(w) \in 0..Len(Pending)
          /\ SubSeq(Pending, 1, PrefixLen + Len(w)) = Frame(w)
      BY <1>1, <2>4, <2>5, <2>6, <2>7, CarriesFirst
    <2>9. w \in Bodies /\ Len(w) \in Nat /\ Len(w) \in DOMAIN Prefix
          /\ Prefix[Len(w)] \in Seq(Byte) /\ Len(Prefix[Len(w)]) = PrefixLen
      BY <2>6, <2>8, BodyType, PrefixType
    <2>10. p = Prefix[Len(w)]
      <3>1. \A i \in 1..PrefixLen : Frame(w)[i] = Prefix[Len(w)][i]
        BY <2>9, FrameType
      <3>2. \A i \in 1..(PrefixLen + Len(w)) : SubSeq(Pending, 1, PrefixLen + Len(w))[i] = Pending[i]
        BY <2>4, <2>5, <2>8, DropType
      <3>3. \A i \in 1..PrefixLen : i \in 1..(PrefixLen + Len(w))
        BY <2>2, <2>9
      <3>4. \A i \in 1..PrefixLen : Pending[i] = buf[i]
        BY <1>1, <2>2, <2>4, <2>5
      <3>5. \A i \in 1..Len(p) : p[i] = Prefix[Len(w)][i]
        BY <2>3, <2>8, <3>1, <3>2, <3>3, <3>4
      <3> QED
        BY <2>3, <2>9, <3>5, SeqEqual
    <2>11. Unpack(p) = Len(w)
      BY <2>9, <2>10, UnpackPrefix
    <2> HIDE DEF w
    <2>12. TakePacket(rest, Len(w)) /\ Pending = (Prefix[Len(w)] \o rest) \o stream
      BY <2>1, <2>3, <2>4, <2>10, <2>11
    <2>13. Carries(sent, (Prefix[Len(w)] \o rest) \o stream, Len(received))
      BY <1>1, <2>12
    <2> QED
      BY <1>1, <2>3, <2>9, <2>12, <2>13, TakePacketStep
  <1> QED
    BY <1>2, <1>3, <1>4

LEMMA StepInv ==
    ASSUME FramingInv, [Next]_vars
    PROVE  FramingInv'
  <1>1. CASE LoopEnds
    <2>1. /\ sent' = sent /\ stream' = stream /\ buf' = buf /\ buflen' = buflen
          /\ received' = received /\ looping' = FALSE /\ ~MoreToDo
      BY <1>1 DEF LoopEnds
    <2>2. TypeOK' /\ Pending' = Pending /\ ~MoreToDo'
      BY <2>1 DEF FramingInv, TypeOK, Pending, Held, MoreToDo
    <2> QED
      BY <2>1, <2>2 DEF FramingInv
  <1>2. CASE ProcessSinglePacket
    BY <1>2, ProcessSinglePacketStep
  <1>3. CASE \E body \in Bodies : SendPacket(body)
    BY <1>3, SendPacketStep
  <1>4. CASE \E n \in 1..Least(Len(stream), MaxRead) : ReceiveData(n)
    BY <1>4, ReceiveDataStep
  <1>5. CASE UNCHANGED vars
    <2>1. /\ sent' = sent /\ stream' = stream /\ buf' = buf /\ buflen' = buflen
          /\ received' = received /\ looping' = looping
      BY <1>5 DEF vars
    <2>2. TypeOK' /\ Pending' = Pending /\ MoreToDo' = MoreToDo
      BY <2>1 DEF FramingInv, TypeOK, Pending, Held, MoreToDo
    <2> QED
      BY <2>1, <2>2 DEF FramingInv
  <1> QED
    BY <1>1, <1>2, <1>3, <1>4, <1>5 DEF Next, NetStep

LEMMA AlwaysInv == Spec => []FramingInv
  <1>1. Init => FramingInv
    BY InitInv
  <1>2. FramingInv /\ [Next]_vars => FramingInv'
    BY StepInv
  <1> QED
    BY <1>1, <1>2, PTL DEF Spec

-----------------------------------------------------------------------------
(* The theorems *)

\* Every variable of receive_data keeps its type; _buflen is a length that a
\* peer has packed, whatever the bytes of the bodies look like.
THEOREM TypeCorrect == Spec => []TypeOK
  <1>1. FramingInv => TypeOK
    BY DEF FramingInv
  <1> QED
    BY <1>1, AlwaysInv, PTL

\* However recv cuts the stream, receive_data and process_single_packet pass on
\* a prefix of the packets that were sent: none torn, merged or misread.
THEOREM PrefixKept == Spec => []PrefixReceived
  <1>1. ASSUME FramingInv PROVE PrefixReceived
    <2>1. /\ received \in Seq(Bodies) /\ sent \in Seq(Bodies)
          /\ Len(received) \in 0..Len(sent) /\ received = SubSeq(sent, 1, Len(received))
      BY <1>1 DEF FramingInv, TypeOK
    <2> QED
      BY <2>1 DEF PrefixReceived, IsPrefix
  <1> QED
    BY <1>1, AlwaysInv, PTL

\* When the stream is empty and receive_data has left its loop, every packet
\* that was sent has been received: none is left in _buf.
THEOREM AllArrive == Spec => []AllReceived
  <1>1. ASSUME FramingInv, stream = <<>>, ~looping PROVE received = sent
    <2> DEFINE k == Len(received)
    <2>1. /\ TypeOK /\ ~MoreToDo /\ k \in 0..Len(sent) /\ received = SubSeq(sent, 1, k)
          /\ Carries(sent, Held \o stream, k) /\ Held \in Seq(Byte)
      BY <1>1, HeldType DEF FramingInv, Pending
    <2>2. sent \in Seq(Bodies) /\ buf \in Seq(Byte) /\ Len(buf) \in Nat /\ Len(sent) \in Nat
          /\ stream \in Seq(Byte) /\ Len(stream) = 0
      BY <1>1, <2>1 DEF TypeOK
    <2>3. CASE buflen = NotSet
      <3>1. Len(buf) = 0
        BY <2>1, <2>2, <2>3 DEF MoreToDo
      <3>2. Held = <<>> /\ Held \o stream = <<>>
        BY <1>1, <2>2, <2>3, <3>1 DEF Held
      <3>3. k = Len(sent)
        <4>1. <<>> \in Seq(Byte) /\ Carries(sent, <<>>, k)
          BY <2>1, <3>2
        <4> QED
          BY <2>1, <2>2, <4>1, CarriesFirst
      <3> QED
        BY <2>1, <2>2, <3>3
    <2>4. CASE buflen # NotSet
      <3>1. buflen \in DOMAIN Prefix /\ Held = Prefix[buflen] \o buf
        BY <2>1, <2>4 DEF TypeOK, Held
      <3>2. buflen <= Len(buf) + Len(stream) /\ buflen \in Nat
        BY <2>1, <2>2, <3>1, NextPacket, PrefixAssumption
      <3> QED
        BY <2>1, <2>2, <2>4, <3>2 DEF MoreToDo
    <2> QED
      BY <2>3, <2>4
  <1>2. FramingInv => AllReceived
    BY <1>1 DEF AllReceived
  <1> QED
    BY <1>2, AlwaysInv, PTL
=============================================================================
