-------------------------- MODULE TcpSocketProofs --------------------------
(***************************************************************************)
(* Proofs about TcpSocket, for any threads, messages, frame sizes, kernel  *)
(* buffer and number of sends.                                             *)
(*                                                                         *)
(* The inductive invariant describes the stream of units between the       *)
(* senders and the reader: what the reader has buffered, what is on the    *)
(* wire, and, while the connection is open, what the holder of wmu_ has    *)
(* still to write.  It is laid out as the frames of the messages sent and  *)
(* not yet received, in order and without gaps (Laid), and until the       *)
(* connection is lost none of them is missing (Complete).  A partial write *)
(* or a partial read only moves the boundaries inside the stream.          *)
(***************************************************************************)
EXTENDS TcpSocket, SequenceTheorems, FiniteSetTheorems, TLAPS

-----------------------------------------------------------------------------
(* Frames.                                                                 *)

FrameLen(m) == HeaderUnits + Size[m] + 1

\* encode_frame yields a frame of known length, header first.
LEMMA FrameType ==
    ASSUME NEW m \in Messages
    PROVE  /\ encode_frame(m) \in Seq(Units)
           /\ Len(encode_frame(m)) = FrameLen(m)
           /\ FrameLen(m) \in Nat /\ HeaderUnits \in Nat \ {0}
           /\ HeaderUnits < FrameLen(m)
           /\ \A i \in 1..FrameLen(m) : encode_frame(m)[i] = [message |-> m, unit |-> i]
<1>1. /\ Size[m] \in Nat /\ HeaderUnits \in Nat \ {0}
  BY SocketConstants
<1>2. FrameLen(m) \in Nat /\ HeaderUnits < FrameLen(m)
  BY <1>1 DEF FrameLen
<1>3. encode_frame(m) = [i \in 1..FrameLen(m) |-> [message |-> m, unit |-> i]]
  BY DEF encode_frame, FrameLen
<1>4. DOMAIN encode_frame(m) = 1..FrameLen(m)
  BY <1>3
<1>5. \A i \in 1..FrameLen(m) : encode_frame(m)[i] \in Units
  <2> SUFFICES ASSUME NEW i \in 1..FrameLen(m) PROVE encode_frame(m)[i] \in Units
    OBVIOUS
  <2>1. encode_frame(m)[i] \in {encode_frame(m)[j] : j \in DOMAIN encode_frame(m)}
    BY <1>4
  <2> QED BY <2>1, Zenon DEF Units
<1>6. encode_frame(m) \in [1..FrameLen(m) -> Units]
  BY <1>3, <1>5
<1>7. encode_frame(m) \in Seq(Units) /\ Len(encode_frame(m)) = FrameLen(m)
  BY <1>2, <1>6
<1> QED BY <1>1, <1>2, <1>3, <1>7

\* The units of a frame, up to its n-th.
Piece(m, s) ==
    /\ Len(s) <= FrameLen(m)
    /\ \A i \in 1..Len(s) : s[i] = [message |-> m, unit |-> i]

\* The header names the message once it is complete, and not before.
LEMMA WantedOfPiece ==
    ASSUME NEW m \in Messages, NEW s \in Seq(Units), Piece(m, s)
    PROVE  Wanted(s) = IF HeaderUnits <= Len(s) THEN FrameLen(m) ELSE HeaderUnits
<1>0. HeaderUnits \in Nat \ {0} /\ Len(s) \in Nat
  BY FrameType
<1>1. ASSUME NEW k \in Messages
      PROVE  HeaderOf(k, s) <=> k = m /\ HeaderUnits <= Len(s)
  <2> DEFINE h == SubSeq(s, 1, HeaderUnits)
             g == SubSeq(encode_frame(k), 1, HeaderUnits)
  <2>1. /\ Len(g) = HeaderUnits
        /\ \A i \in 1..HeaderUnits : g[i] = [message |-> k, unit |-> i]
    <3>1. \A i \in 1..HeaderUnits : encode_frame(k)[i] = [message |-> k, unit |-> i]
      BY <1>0, FrameType
    <3>2. \A i \in 1..HeaderUnits : encode_frame(k)[i] \in Units
      BY <1>0, FrameType, ElementOfSeq
    <3> QED BY <1>0, <3>1, <3>2, SubSeqProperties
  <2>2. CASE HeaderUnits <= Len(s)
    <3>1. \A i \in 1..HeaderUnits : s[i] \in Units
      BY <1>0, <2>2, ElementOfSeq
    <3>2. h \in Seq(Units) /\ Len(h) = HeaderUnits /\ \A i \in 1..HeaderUnits : h[i] = s[i]
      BY <1>0, <3>1, SubSeqProperties
    <3>3. \A i \in 1..HeaderUnits : h[i] = [message |-> m, unit |-> i]
      BY <1>0, <2>2, <3>2 DEF Piece
    <3>4. g \in Seq(Units)
      <4>1. \A i \in 1..HeaderUnits : encode_frame(k)[i] \in Units
        BY <1>0, FrameType, ElementOfSeq
      <4> QED BY <1>0, <4>1, SubSeqProperties
    <3>5. CASE k = m
      <4>1. h = g
        BY <2>1, <3>2, <3>3, <3>4, <3>5, SeqEqual
      <4> QED BY <2>2, <3>5, <4>1 DEF HeaderOf
    <3>6. CASE k # m
      <4>1. h[1].message = m /\ g[1].message = k
        <5> HIDE DEF h, g
        <5>1. 1 \in 1..HeaderUnits
          BY <1>0
        <5>2. h[1] = [message |-> m, unit |-> 1] /\ g[1] = [message |-> k, unit |-> 1]
          BY <2>1, <3>3, <5>1
        <5> QED BY <5>2
      <4> QED BY <3>6, <4>1 DEF HeaderOf
    <3> QED BY <3>5, <3>6
  <2>3. CASE ~(HeaderUnits <= Len(s))
    BY <1>0, <2>3 DEF HeaderOf
  <2> QED BY <2>2, <2>3
<1>2. CASE HeaderUnits <= Len(s)
  <2>1. ValidHeader(s) /\ (CHOOSE k \in Messages : HeaderOf(k, s)) = m
    BY <1>1, <1>2 DEF ValidHeader
  <2> QED BY <1>2, <2>1, FrameType DEF Wanted
<1>3. CASE ~(HeaderUnits <= Len(s))
  BY <1>1, <1>3 DEF ValidHeader, Wanted
<1> QED BY <1>2, <1>3

\* A piece decodes exactly when it is the whole frame.
LEMMA DecodePiece ==
    ASSUME NEW m \in Messages, NEW s \in Seq(Units), Piece(m, s)
    PROVE  decode_frame(s) = IF Len(s) = FrameLen(m) THEN {m} ELSE {}
<1>0. Len(s) \in Nat
  OBVIOUS
<1>1. Len(s) = FrameLen(m) => s = encode_frame(m)
  BY FrameType, SeqEqual DEF Piece
<1>2. ASSUME NEW k \in Messages, s = encode_frame(k)
      PROVE  k = m /\ Len(s) = FrameLen(m)
  <2>1. Len(s) = FrameLen(k) /\ 1 \in 1..Len(s) /\ s[1] = [message |-> k, unit |-> 1]
    BY <1>2, FrameType
  <2>2. s[1] = [message |-> m, unit |-> 1]
    BY <2>1 DEF Piece
  <2> QED BY <2>1, <2>2
<1> QED BY <1>1, <1>2 DEF decode_frame

\* The end of a frame is in no shorter piece.
LEMMA NothingDecodes == decode_frame(<<>>) = {}
<1>1. \A m \in Messages : Len(encode_frame(m)) # 0
  BY FrameType
<1> QED BY <1>1 DEF decode_frame

-----------------------------------------------------------------------------
(* The layout of frames in a stream of units.                              *)

\* st holds units of the frames of ms after the first r, in order and without
\* gaps from the beginning of a frame: pos[j] units come before frame j.
Laid(st, ms, r, pos) ==
    /\ r \in 0..Len(ms)
    /\ pos \in [1..(Len(ms) + 1) -> Nat]
    /\ \A j \in 1..Len(ms) : pos[j + 1] = pos[j] + FrameLen(ms[j])
    /\ \A j, k \in 1..(Len(ms) + 1) : j <= k => pos[j] <= pos[k]
    /\ \A i \in 1..Len(st) :
           \E j \in (r + 1)..Len(ms) :
               /\ pos[j] < pos[r + 1] + i /\ pos[r + 1] + i <= pos[j + 1]
               /\ st[i] = [message |-> ms[j], unit |-> (pos[r + 1] + i) - pos[j]]

\* All the frames are there.
Complete(st, ms, r, pos) == pos[r + 1] + Len(st) = pos[Len(ms) + 1]

\* Sending a whole frame after whole frames.
LEMMA LaidAppend ==
    ASSUME NEW st \in Seq(Units), NEW ms \in Seq(Messages), NEW r, NEW pos,
           NEW m \in Messages,
           Laid(st, ms, r, pos), Complete(st, ms, r, pos)
    PROVE  \E p : /\ Laid(st \o encode_frame(m), Append(ms, m), r, p)
                  /\ Complete(st \o encode_frame(m), Append(ms, m), r, p)
<1> DEFINE L == Len(ms)
           f == encode_frame(m)
           n == FrameLen(m)
           p == [j \in 1..(L + 2) |-> IF j = L + 2 THEN pos[L + 1] + n ELSE pos[j]]
           ns == Append(ms, m)
           nt == st \o f
<1>1. /\ L \in Nat /\ r \in 0..L /\ n \in Nat /\ Len(st) \in Nat
      /\ Len(f) = n /\ f \in Seq(Units)
      /\ \A i \in 1..n : f[i] = [message |-> m, unit |-> i]
  BY FrameType DEF Laid
<1>2. /\ Len(ns) = L + 1 /\ ns[L + 1] = m /\ \A j \in 1..L : ns[j] = ms[j]
  BY AppendProperties
<1>3. /\ Len(nt) = Len(st) + n
      /\ \A i \in 1..(Len(st) + n) : nt[i] = IF i <= Len(st) THEN st[i] ELSE f[i - Len(st)]
  BY <1>1, ConcatProperties
<1>4. /\ pos \in [1..(L + 1) -> Nat]
      /\ \A j \in 1..L : pos[j + 1] = pos[j] + FrameLen(ms[j])
      /\ \A j, k \in 1..(L + 1) : j <= k => pos[j] <= pos[k]
      /\ pos[r + 1] + Len(st) = pos[L + 1]
  BY DEF Laid, Complete
<1> HIDE DEF L, f, n, ns, nt
<1>5. /\ p \in [1..(L + 2) -> Nat]
      /\ p[L + 2] = pos[L + 1] + n
      /\ \A j \in 1..(L + 1) : p[j] = pos[j]
  <2>1. pos[L + 1] \in Nat /\ L + 2 \in 1..(L + 2)
    BY <1>1, <1>4
  <2>2. \A j \in 1..(L + 2) : j # L + 2 => j \in 1..(L + 1) /\ pos[j] \in Nat
    BY <1>1, <1>4
  <2>3. \A j \in 1..(L + 1) : j \in 1..(L + 2) /\ j # L + 2
    BY <1>1
  <2> QED BY <1>1, <2>1, <2>2, <2>3
<1> HIDE DEF p
<1>6. \A j \in 1..(L + 1) : p[j + 1] = p[j] + FrameLen(ns[j])
  <2> TAKE j \in 1..(L + 1)
  <2>1. CASE j = L + 1
    BY <1>1, <1>2, <1>5, <2>1 DEF n
  <2>2. CASE j # L + 1
    <3>1. j \in 1..L /\ j \in 1..(L + 1) /\ j + 1 \in 1..(L + 1)
      BY <1>1, <2>2
    <3> QED BY <1>2, <1>4, <1>5, <3>1
  <2> QED BY <2>1, <2>2
<1>7. \A j, k \in 1..(L + 2) : j <= k => p[j] <= p[k]
  <2> TAKE j, k \in 1..(L + 2)
  <2>1. L + 1 \in 1..(L + 1) /\ pos[L + 1] \in Nat
    BY <1>1, <1>4
  <2>2. CASE k = L + 2 /\ j # L + 2
    <3>1. j \in 1..(L + 1) /\ j <= L + 1
      BY <1>1, <2>2
    <3>2. pos[j] <= pos[L + 1] /\ pos[j] \in Nat
      BY <1>4, <2>1, <3>1
    <3> QED BY <1>1, <1>5, <2>1, <2>2, <3>1, <3>2
  <2>3. CASE k # L + 2 /\ j # L + 2
    <3>1. j \in 1..(L + 1) /\ k \in 1..(L + 1)
      BY <1>1, <2>3
    <3> QED BY <1>4, <1>5, <3>1
  <2>4. CASE j = L + 2
    BY <1>1, <1>5, <2>1, <2>4
  <2> QED BY <2>2, <2>3, <2>4
<1>8. r + 1 \in 1..(L + 1) /\ p[r + 1] = pos[r + 1] /\ pos[r + 1] \in Nat
  <2>1. r + 1 \in 1..(L + 1)
    BY <1>1
  <2> QED BY <1>4, <1>5, <2>1
<1>9. ASSUME NEW i \in 1..(Len(st) + n)
      PROVE  \E j \in (r + 1)..(L + 1) :
                 /\ p[j] < p[r + 1] + i /\ p[r + 1] + i <= p[j + 1]
                 /\ nt[i] = [message |-> ns[j], unit |-> (p[r + 1] + i) - p[j]]
  <2>1. CASE i <= Len(st)
    <3>1. PICK j \in (r + 1)..L :
              /\ pos[j] < pos[r + 1] + i /\ pos[r + 1] + i <= pos[j + 1]
              /\ st[i] = [message |-> ms[j], unit |-> (pos[r + 1] + i) - pos[j]]
      <4>1. i \in 1..Len(st)
        BY <1>1, <2>1
      <4> QED BY <4>1 DEF Laid, L
    <3>2. j \in 1..L /\ j \in 1..(L + 1) /\ j + 1 \in 1..(L + 1) /\ j \in (r + 1)..(L + 1)
      BY <1>1
    <3>3. nt[i] = st[i] /\ ns[j] = ms[j] /\ p[j] = pos[j] /\ p[j + 1] = pos[j + 1]
      BY <1>2, <1>3, <1>5, <2>1, <3>2
    <3> QED BY <1>8, <3>1, <3>2, <3>3
  <2>2. CASE ~(i <= Len(st))
    <3>1. /\ L + 1 \in (r + 1)..(L + 1) /\ L + 1 \in 1..(L + 1) /\ i - Len(st) \in 1..n
      BY <1>1, <2>2
    <3>2. nt[i] = [message |-> m, unit |-> i - Len(st)]
      BY <1>1, <1>3, <2>2, <3>1
    <3>3. p[L + 1] = pos[r + 1] + Len(st) /\ p[L + 2] = pos[r + 1] + Len(st) + n
      BY <1>4, <1>5, <3>1
    <3>4. /\ p[L + 1] < p[r + 1] + i /\ p[r + 1] + i <= p[(L + 1) + 1]
          /\ (p[r + 1] + i) - p[L + 1] = i - Len(st)
      <4>1. /\ pos[r + 1] + Len(st) < pos[r + 1] + i
            /\ pos[r + 1] + i <= pos[r + 1] + Len(st) + n
            /\ (pos[r + 1] + i) - (pos[r + 1] + Len(st)) = i - Len(st)
            /\ (L + 1) + 1 = L + 2
        BY <1>1, <1>8, <2>2
      <4> QED BY <1>8, <3>3, <4>1, Zenon
    <3> QED BY <1>2, <3>1, <3>2, <3>4
  <2> QED BY <2>1, <2>2
<1>10. Laid(nt, ns, r, p)
  <2>1. r \in 0..(L + 1) /\ (L + 1) + 1 = L + 2
    BY <1>1
  <2> QED BY <1>2, <1>3, <1>5, <1>6, <1>7, <1>9, <2>1 DEF Laid
<1>11. Complete(nt, ns, r, p)
  <2>1. p[r + 1] + (Len(st) + n) = p[(L + 1) + 1]
    <3>1. (L + 1) + 1 = L + 2 /\ pos[r + 1] + (Len(st) + n) = (pos[r + 1] + Len(st)) + n
      BY <1>1, <1>8
    <3>2. p[(L + 1) + 1] = (pos[r + 1] + Len(st)) + n
      BY <1>4, <1>5, <3>1, Zenon
    <3> QED BY <1>8, <3>1, <3>2, Zenon
  <2> QED BY <1>2, <1>3, <2>1 DEF Complete
<1> QED BY <1>10, <1>11 DEF nt, ns, f

\* What is left of a stream that is cut.
LEMMA LaidPrefix ==
    ASSUME NEW st \in Seq(Units), NEW x \in Seq(Units), NEW ms, NEW r, NEW pos,
           Laid(st \o x, ms, r, pos)
    PROVE  Laid(st, ms, r, pos)
<1>1. /\ Len(st) \in Nat /\ Len(x) \in Nat /\ Len(st \o x) = Len(st) + Len(x)
      /\ \A i \in 1..(Len(st) + Len(x)) : (st \o x)[i] = IF i <= Len(st) THEN st[i]
                                                         ELSE x[i - Len(st)]
  BY ConcatProperties
<1>2. \A i \in 1..Len(st) : i \in 1..Len(st \o x) /\ (st \o x)[i] = st[i]
  BY <1>1
<1> QED BY <1>2 DEF Laid

\* What comes first belongs to the first frame.
LEMMA LaidHead ==
    ASSUME NEW g \in Seq(Units), NEW x \in Seq(Units), NEW ms \in Seq(Messages),
           NEW r, NEW pos, Laid(g \o x, ms, r, pos), g # <<>>
    PROVE  /\ r + 1 \in 1..Len(ms) /\ ms[r + 1] \in Messages
           /\ Len(g) <= FrameLen(ms[r + 1]) => Piece(ms[r + 1], g)
<1>1. Laid(g, ms, r, pos)
  BY LaidPrefix
<1>2. Len(g) \in Nat \ {0} /\ Len(ms) \in Nat /\ r \in 0..Len(ms)
  BY <1>1, EmptySeq DEF Laid
<1>3. r + 1 \in 1..Len(ms)
  <2>1. 1 \in 1..Len(g)
    BY <1>2
  <2>2. \E j \in (r + 1)..Len(ms) : pos[j] < pos[r + 1] + 1
    BY <1>1, <2>1 DEF Laid
  <2> QED BY <1>2, <2>2
<1>4. ms[r + 1] \in Messages
  BY <1>3, ElementOfSeq
<1>5. ASSUME Len(g) <= FrameLen(ms[r + 1]), NEW i \in 1..Len(g)
      PROVE  g[i] = [message |-> ms[r + 1], unit |-> i]
  <2>1. PICK j \in (r + 1)..Len(ms) :
            /\ pos[j] < pos[r + 1] + i /\ pos[r + 1] + i <= pos[j + 1]
            /\ g[i] = [message |-> ms[j], unit |-> (pos[r + 1] + i) - pos[j]]
    BY <1>1 DEF Laid
  <2>2. /\ pos[r + 2] = pos[r + 1] + FrameLen(ms[r + 1]) /\ pos[r + 1] \in Nat
        /\ FrameLen(ms[r + 1]) \in Nat
    <3>1. (r + 1) + 1 = r + 2 /\ r + 1 \in 1..(Len(ms) + 1)
      BY <1>2
    <3> QED BY <1>1, <1>3, <1>4, <3>1, FrameType DEF Laid
  <2>3. j = r + 1
    <3> SUFFICES ASSUME j # r + 1 PROVE FALSE
      OBVIOUS
    <3>1. r + 2 \in 1..(Len(ms) + 1) /\ j \in 1..(Len(ms) + 1) /\ r + 2 <= j
      BY <1>2, <2>1
    <3>2. pos[r + 2] <= pos[j] /\ pos[j] \in Nat
      BY <1>1, <3>1 DEF Laid
    <3>3. pos[r + 1] + i <= pos[r + 2]
      BY <1>2, <1>5, <2>2
    <3>4. pos[j] < pos[r + 1] + i
      BY <2>1
    <3>5. pos[r + 2] \in Nat /\ pos[r + 1] + i \in Nat
      BY <1>2, <2>2
    <3> QED BY <3>2, <3>3, <3>4, <3>5
  <2>4. (pos[r + 1] + i) - pos[j] = i
    BY <2>2, <2>3
  <2> QED BY <2>1, <2>3, <2>4
<1> QED BY <1>3, <1>4, <1>5 DEF Piece

\* What is left when the first frame was received.
LEMMA LaidDrop ==
    ASSUME NEW g \in Seq(Units), NEW x \in Seq(Units), NEW ms \in Seq(Messages),
           NEW r, NEW pos, Laid(g \o x, ms, r, pos), g # <<>>,
           Len(g) = FrameLen(ms[r + 1])
    PROVE  /\ Laid(x, ms, r + 1, pos)
           /\ Complete(g \o x, ms, r, pos) => Complete(x, ms, r + 1, pos)
<1> DEFINE n == Len(g)
           st == g \o x
<1>0. /\ r + 1 \in 1..Len(ms) /\ ms[r + 1] \in Messages
  BY LaidHead
<1>1. /\ n \in Nat /\ Len(x) \in Nat /\ Len(ms) \in Nat /\ Len(st) = n + Len(x)
      /\ \A i \in 1..(n + Len(x)) : st[i] = IF i <= n THEN g[i] ELSE x[i - n]
  BY ConcatProperties
<1>2. /\ r \in 0..Len(ms) /\ r + 1 \in 0..Len(ms)
      /\ r + 1 \in 1..(Len(ms) + 1) /\ r + 2 \in 1..(Len(ms) + 1) /\ (r + 1) + 1 = r + 2
  BY <1>0, <1>1 DEF Laid
<1>3. /\ pos \in [1..(Len(ms) + 1) -> Nat]
      /\ \A j, k \in 1..(Len(ms) + 1) : j <= k => pos[j] <= pos[k]
      /\ pos[r + 2] = pos[r + 1] + n /\ pos[r + 1] \in Nat
  BY <1>0, <1>2 DEF Laid
<1> HIDE DEF n, st
<1>4. ASSUME NEW i \in 1..Len(x)
      PROVE  \E j \in (r + 2)..Len(ms) :
                 /\ pos[j] < pos[r + 2] + i /\ pos[r + 2] + i <= pos[j + 1]
                 /\ x[i] = [message |-> ms[j], unit |-> (pos[r + 2] + i) - pos[j]]
  <2>1. n + i \in 1..Len(st) /\ st[n + i] = x[i]
    BY <1>1
  <2>2. PICK j \in (r + 1)..Len(ms) :
            /\ pos[j] < pos[r + 1] + (n + i) /\ pos[r + 1] + (n + i) <= pos[j + 1]
            /\ st[n + i] = [message |-> ms[j], unit |-> (pos[r + 1] + (n + i)) - pos[j]]
    BY <2>1 DEF Laid, st
  <2>3. pos[r + 1] + (n + i) = pos[r + 2] + i
    BY <1>1, <1>3
  <2>4. j # r + 1
    <3> SUFFICES ASSUME j = r + 1 PROVE FALSE
      OBVIOUS
    <3>1. pos[r + 2] + i <= pos[r + 2] /\ pos[r + 2] \in Nat
      BY <1>2, <1>3, <2>2, <2>3
    <3> QED BY <1>1, <3>1
  <2>5. j \in (r + 2)..Len(ms)
    BY <1>1, <1>2, <2>4
  <2>6. /\ pos[j] < pos[r + 2] + i /\ pos[r + 2] + i <= pos[j + 1]
        /\ x[i] = [message |-> ms[j], unit |-> (pos[r + 2] + i) - pos[j]]
    BY <2>1, <2>2, <2>3, Zenon
  <2> QED BY <2>5, <2>6
<1>5. Laid(x, ms, r + 1, pos)
  BY <1>2, <1>4 DEF Laid
<1>6. Complete(st, ms, r, pos) => Complete(x, ms, r + 1, pos)
  BY <1>1, <1>2, <1>3 DEF Complete
<1> QED BY <1>5, <1>6 DEF st

-----------------------------------------------------------------------------
(* The inductive invariant.                                                *)

\* What the holder of wmu_ has still to write.
Pending == IF wmu = Nobody THEN <<>> ELSE left[wmu]

\* What the reader holds and may still get, and what will follow it.
Afloat == buf \o wire
Stream == IF open THEN Afloat \o Pending ELSE Afloat

\* Only the holder of wmu_ has something to write.
Exclusive == \A t \in Threads : left[t] # <<>> => wmu = t

\* The stream is made of the frames sent and not yet received, all of them and
\* whole unless the connection was lost.
Framed ==
    reader = "reading" =>
        \E pos : /\ Laid(Stream, sent, Len(received), pos)
                 /\ open => Complete(Stream, sent, Len(received), pos)

\* recv_all never holds a whole frame.
Buffered == buf # <<>> => Len(buf) < FrameLen(sent[Len(received) + 1])

Gone == reader = "gone" => ~open /\ buf = <<>> /\ wire = <<>>

Delivered == Len(received) <= Len(sent)

IInv == TypeOK /\ Exclusive /\ Framed /\ Buffered /\ Gone /\ Delivered

-----------------------------------------------------------------------------
(* Steps.                                                                  *)

\* A sequence cut in two.
LEMMA Split ==
    ASSUME NEW s \in Seq(Units), NEW n \in 0..Len(s)
    PROVE  /\ SubSeq(s, 1, n) \in Seq(Units) /\ SubSeq(s, n + 1, Len(s)) \in Seq(Units)
           /\ Len(SubSeq(s, 1, n)) = n /\ Len(SubSeq(s, n + 1, Len(s))) = Len(s) - n
           /\ s = SubSeq(s, 1, n) \o SubSeq(s, n + 1, Len(s))
<1>1. Len(s) \in Nat /\ n \in Int /\ \A i \in 1..Len(s) : s[i] \in Units
  BY ElementOfSeq
<1>2. /\ SubSeq(s, 1, n) \in Seq(Units) /\ Len(SubSeq(s, 1, n)) = n
      /\ SubSeq(s, n + 1, Len(s)) \in Seq(Units)
      /\ Len(SubSeq(s, n + 1, Len(s))) = Len(s) - n
  BY <1>1, SubSeqProperties
<1>3. SubSeq(s, 1, n) \o SubSeq(s, n + 1, Len(s)) = SubSeq(s, 1, Len(s))
  <2>1. /\ 1 \in 1..(Len(s) + 1) /\ n \in (1 - 1)..Len(s) /\ Len(s) \in n..Len(s)
    BY <1>1
  <2> QED BY <2>1, ConcatAdjacentSubSeq
<1> QED BY <1>2, <1>3, SubSeqFull

\* Concatenation, for sequences of units.
LEMMA Join ==
    ASSUME NEW a \in Seq(Units), NEW b \in Seq(Units), NEW c \in Seq(Units)
    PROVE  /\ a \o b \in Seq(Units) /\ b \o c \in Seq(Units)
           /\ (a \o b) \o c = a \o (b \o c)
<1>1. a \o b \in Seq(Units) /\ b \o c \in Seq(Units)
  BY ConcatProperties
<1>2. (a \o b) \o c = a \o (b \o c)
  BY ConcatAssociative
<1> QED BY <1>1, <1>2

\* The parts of the stream are sequences of units.
LEMMA StreamType ==
    ASSUME TypeOK
    PROVE  /\ Pending \in Seq(Units) /\ Afloat \in Seq(Units) /\ Stream \in Seq(Units)
<1>1. Pending \in Seq(Units)
  BY EmptySeq DEF TypeOK, Pending
<1>2. Afloat \in Seq(Units)
  BY ConcatProperties DEF TypeOK, Afloat
<1> QED BY <1>1, <1>2, ConcatProperties DEF Stream

\* What n more units of the wire make of the stream.
LEMMA StreamParts ==
    ASSUME TypeOK, NEW n \in 0..Len(wire)
    PROVE  LET got == buf \o SubSeq(wire, 1, n)
               rest == SubSeq(wire, n + 1, Len(wire))
               x == IF open THEN rest \o Pending ELSE rest
           IN  /\ got \in Seq(Units) /\ rest \in Seq(Units) /\ x \in Seq(Units)
               /\ Len(got) = Len(buf) + n /\ Len(rest) = Len(wire) - n
               /\ Afloat = got \o rest /\ Stream = got \o x
<1> DEFINE taken == SubSeq(wire, 1, n)
           got == buf \o taken
           rest == SubSeq(wire, n + 1, Len(wire))
           x == IF open THEN rest \o Pending ELSE rest
<1>1. /\ taken \in Seq(Units) /\ rest \in Seq(Units)
      /\ Len(taken) = n /\ Len(rest) = Len(wire) - n
      /\ wire = taken \o rest /\ buf \in Seq(Units)
  BY Split DEF TypeOK
<1>2. got \in Seq(Units) /\ Afloat = got \o rest
  <2> HIDE DEF taken, rest
  <2>1. got \in Seq(Units) /\ got \o rest = buf \o (taken \o rest)
    BY <1>1, Join
  <2> HIDE DEF got
  <2> QED BY <1>1, <2>1, Zenon DEF Afloat
<1>3. Len(got) = Len(buf) + n
  BY <1>1, ConcatProperties
<1> HIDE DEF taken, got, rest
<1>4. x \in Seq(Units) /\ Stream = got \o x
  <2>1. CASE open
    <3>1. got \in Seq(Units) /\ rest \in Seq(Units) /\ Pending \in Seq(Units)
      BY <1>1, <1>2, StreamType
    <3>2. rest \o Pending \in Seq(Units) /\ (got \o rest) \o Pending = got \o (rest \o Pending)
      BY <3>1, Join
    <3>3. Stream = got \o (rest \o Pending) /\ x = rest \o Pending
      BY <1>2, <2>1, <3>2, Zenon DEF Stream
    <3> HIDE DEF x
    <3> QED BY <3>2, <3>3, Zenon
  <2>2. CASE ~open
    BY <1>1, <1>2, <2>2 DEF Stream
  <2> QED BY <2>1, <2>2
<1> QED BY <1>1, <1>2, <1>3, <1>4 DEF got, taken, rest

\* What the reader holds is a piece of the next frame to be received.
LEMMA BufferPiece ==
    ASSUME IInv, reader = "reading", NEW n \in 0..Len(wire),
           buf \o SubSeq(wire, 1, n) # <<>>
    PROVE  LET got == buf \o SubSeq(wire, 1, n)
               m == sent[Len(received) + 1]
           IN  /\ Len(received) + 1 \in 1..Len(sent) /\ m \in Messages
               /\ Len(got) <= FrameLen(m) => Piece(m, got)
<1> DEFINE got == buf \o SubSeq(wire, 1, n)
<1>1. PICK pos : Laid(Stream, sent, Len(received), pos)
  BY DEF IInv, Framed
<1>2. TypeOK
  BY DEF IInv
<1>3. got \in Seq(Units)
  BY <1>2, StreamParts
<1>4. PICK x \in Seq(Units) : Stream = got \o x
  BY <1>2, StreamParts
<1> HIDE DEF got
<1>5. got # <<>> /\ sent \in Seq(Messages)
  BY DEF got, IInv, TypeOK
<1>6. Laid(got \o x, sent, Len(received), pos)
  BY <1>1, <1>4
<1>7. /\ Len(received) + 1 \in 1..Len(sent) /\ sent[Len(received) + 1] \in Messages
      /\ Len(got) <= FrameLen(sent[Len(received) + 1]) =>
             Piece(sent[Len(received) + 1], got)
  BY <1>3, <1>5, <1>6, LaidHead
<1> QED BY <1>7 DEF got

\* The steps that leave the stream and the reader as they are.
LEMMA SameStream ==
    ASSUME IInv, Stream' = Stream,
           UNCHANGED <<open, buf, wire, reader, received, sent>>
           \/ (open /\ UNCHANGED <<open, buf, reader, received, sent>>)
    PROVE  Framed' /\ Buffered' /\ Gone' /\ Delivered'
BY DEF IInv, Framed, Buffered, Gone, Delivered

\* TcpSocket::send takes the mutex.
LEMMA BeginStep ==
    ASSUME IInv, NEW t \in Threads, NEW m \in Messages, Begin(t, m)
    PROVE  IInv'
<1>1. /\ wmu = Nobody /\ wmu' = t /\ left' = [left EXCEPT ![t] = encode_frame(m)]
      /\ UNCHANGED <<wire, open, buf, reader, received>>
      /\ sent' = IF open THEN Append(sent, m) ELSE sent
  BY DEF Begin, Lock, receiver
<1>2. encode_frame(m) \in Seq(Units)
  BY FrameType
<1>3. sent' \in Seq(Messages) /\ sent \in Seq(Messages)
  BY <1>1, AppendProperties DEF IInv, TypeOK
<1>4. TypeOK'
  BY <1>1, <1>2, <1>3 DEF IInv, TypeOK, decode_frame, Units
<1>5. Exclusive'
  BY <1>1, SocketConstants DEF IInv, Exclusive, TypeOK
<1>6. CASE ~open
  <2>1. Stream' = Stream
    BY <1>1, <1>6 DEF Stream, Afloat
  <2> QED BY <1>1, <1>4, <1>5, <1>6, <2>1, SameStream DEF IInv
<1>7. CASE open
  <2>1. reader = "reading"
    BY <1>7 DEF IInv, Gone, TypeOK
  <2>2. Pending = <<>> /\ Pending' = encode_frame(m)
    BY <1>1, SocketConstants DEF Pending, IInv, TypeOK
  <2>3. Stream = Afloat /\ Stream' = Afloat \o encode_frame(m) /\ Afloat \in Seq(Units)
    BY <1>1, <1>7, <2>2, StreamType, ConcatEmptySeq DEF Stream, Afloat, IInv
  <2>4. PICK pos : /\ Laid(Stream, sent, Len(received), pos)
                   /\ Complete(Stream, sent, Len(received), pos)
    BY <1>7, <2>1 DEF IInv, Framed
  <2>5. Framed'
    <3>1. \E p : /\ Laid(Afloat \o encode_frame(m), Append(sent, m), Len(received), p)
                 /\ Complete(Afloat \o encode_frame(m), Append(sent, m), Len(received), p)
      BY <1>3, <2>3, <2>4, LaidAppend
    <3>2. sent' = Append(sent, m) /\ received' = received
      BY <1>1, <1>7
    <3> QED BY <2>3, <3>1, <3>2 DEF Framed
  <2>6. Len(sent') = Len(sent) + 1 /\ \A i \in 1..Len(sent) : sent'[i] = sent[i]
    BY <1>1, <1>3, <1>7, AppendProperties
  <2>7. Buffered'
    <3> SUFFICES ASSUME buf # <<>> PROVE Buffered'
      BY <1>1 DEF Buffered
    <3>1. 0 \in 0..Len(wire) /\ SubSeq(wire, 1, 0) = <<>> /\ buf \o <<>> = buf
      BY SubSeqEmpty, ConcatEmptySeq DEF IInv, TypeOK
    <3>2. Len(received) + 1 \in 1..Len(sent)
      BY <2>1, <3>1, BufferPiece
    <3> QED BY <1>1, <2>6, <3>2 DEF IInv, Buffered
  <2>8. Gone' /\ Delivered'
    BY <1>1, <1>3, <2>1, <2>6 DEF IInv, Gone, Delivered, TypeOK
  <2> QED BY <1>4, <1>5, <2>5, <2>7, <2>8 DEF IInv
<1> QED BY <1>6, <1>7

\* One write of send_all moves units from what is pending to the wire.
LEMMA TransmitStep ==
    ASSUME IInv, NEW t \in Threads, NEW n, Transmit(t, n)
    PROVE  IInv' /\ Stream' = Stream
<1> DEFINE taken == SubSeq(left[t], 1, n)
           rem == SubSeq(left[t], n + 1, Len(left[t]))
<1>1. /\ n \in 1..Len(left[t]) /\ left \in [Threads -> Seq(Units)]
      /\ left' = [left EXCEPT ![t] = rem]
      /\ wmu' = IF left'[t] = <<>> THEN Nobody ELSE wmu
      /\ UNCHANGED <<open, buf, reader, received, sent>>
  BY DEF IInv, TypeOK, Transmit, Remaining, receiver
<1>2. /\ taken \in Seq(Units) /\ rem \in Seq(Units) /\ left[t] = taken \o rem
      /\ Len(taken) = n
  <2>1. left[t] \in Seq(Units) /\ n \in 0..Len(left[t])
    BY <1>1
  <2> QED BY <2>1, Split
<1>3. left[t] # <<>> /\ wmu = t /\ t # Nobody
  BY <1>1, SocketConstants DEF IInv, Exclusive
<1>4. left'[t] = rem
  BY <1>1
<1>5. Pending = left[t] /\ Pending' = rem
  BY <1>3, <1>4, <1>1 DEF Pending
<1>6. Exclusive'
  BY <1>1, <1>3 DEF IInv, Exclusive
<1>7. wire \in Seq(Units) /\ buf \in Seq(Units) /\ Len(wire) <= Capacity
  BY DEF IInv, TypeOK
<1>8. \/ open /\ Len(wire) + n <= Capacity /\ wire' = wire \o taken
      \/ ~open /\ wire' = wire
  BY DEF Transmit
<1> HIDE DEF taken, rem
<1>9. wire' \in Seq(Units) /\ Len(wire') <= Capacity
  BY <1>2, <1>7, <1>8, ConcatProperties
<1>10. TypeOK'
  BY <1>1, <1>2, <1>3, <1>9 DEF IInv, TypeOK, decode_frame, Units
<1>11. Stream' = Stream
  <2>1. CASE ~open
    BY <1>1, <1>8, <2>1 DEF Stream, Afloat
  <2>2. CASE open
    <3>1. Afloat' = buf \o (wire \o taken) /\ open'
      BY <1>1, <1>8, <2>2 DEF Afloat
    <3>2. buf \o (wire \o taken) = Afloat \o taken
      <4>1. buf \in Seq(Units) /\ wire \in Seq(Units) /\ taken \in Seq(Units)
        BY <1>2, <1>7
      <4>2. (buf \o wire) \o taken = buf \o (wire \o taken)
        BY <4>1, Join
      <4> QED BY <4>2, Zenon DEF Afloat
    <3>3. Afloat \in Seq(Units)
      BY StreamType DEF IInv
    <3>4. (Afloat \o taken) \o rem = Afloat \o (taken \o rem)
      BY <1>2, <3>3, Join
    <3>5. Stream' = (Afloat \o taken) \o rem
      BY <1>5, <3>1, <3>2, Zenon DEF Stream
    <3>6. Stream = Afloat \o (taken \o rem)
      BY <1>2, <1>5, <2>2, Zenon DEF Stream
    <3> QED BY <3>4, <3>5, <3>6, Zenon
  <2> QED BY <2>1, <2>2
<1>12. Framed' /\ Buffered' /\ Gone' /\ Delivered'
  BY <1>1, <1>8, <1>11, SameStream
<1> QED BY <1>6, <1>10, <1>11, <1>12 DEF IInv

\* send_all gives up on a lost connection.
LEMMA SendFailsStep ==
    ASSUME IInv, NEW t \in Threads, SendFails(t)
    PROVE  IInv' /\ Stream' = Stream
<1>1. /\ left[t] # <<>> /\ ~open /\ left \in [Threads -> Seq(Units)]
      /\ left' = [left EXCEPT ![t] = <<>>] /\ wmu' = Nobody
      /\ UNCHANGED <<wire, open, buf, reader, received, sent>>
  BY DEF IInv, TypeOK, SendFails, receiver
<1>2. <<>> \in Seq(Units)
  BY EmptySeq
<1>3. TypeOK'
  BY <1>1, <1>2 DEF IInv, TypeOK, decode_frame, Units
<1>4. Exclusive'
  BY <1>1 DEF IInv, Exclusive
<1>5. Stream' = Stream
  BY <1>1 DEF Stream, Afloat
<1> QED BY <1>1, <1>3, <1>4, <1>5, SameStream DEF IInv

\* What recv_all gets is more of the next frame, and recv() returns that frame
\* when it is whole.
LEMMA RecvOutcome ==
    ASSUME IInv, NEW n, Recv(n)
    PROVE  LET got == buf \o SubSeq(wire, 1, n)
               rest == SubSeq(wire, n + 1, Len(wire))
               m == sent[Len(received) + 1]
           IN  /\ n \in 1..Len(wire) /\ reader = "reading" /\ reader' = "reading"
               /\ Len(received) + 1 \in 1..Len(sent) /\ m \in Messages
               /\ got # <<>> /\ Piece(m, got)
               /\ wire' = rest /\ UNCHANGED <<wmu, left, open, sent>>
               /\ \/ /\ Len(got) = FrameLen(m)
                     /\ buf' = <<>> /\ received' = Append(received, m)
                  \/ /\ Len(got) < FrameLen(m)
                     /\ buf' = got /\ received' = received
<1> DEFINE got == buf \o SubSeq(wire, 1, n)
           m == sent[Len(received) + 1]
           whole == Len(got) >= Wanted(got)
           decoded == IF whole THEN decode_frame(got) ELSE {}
<1>1. /\ n \in 1..Len(wire) /\ n <= Wanted(buf) - Len(buf) /\ reader = "reading"
      /\ wire' = SubSeq(wire, n + 1, Len(wire)) /\ UNCHANGED <<wmu, left, open, sent>>
      /\ buf' = IF whole THEN <<>> ELSE got
      /\ IF decoded = {} THEN UNCHANGED received
         ELSE \E k \in decoded : received' = Append(received, k)
      /\ reader' = IF whole /\ decoded = {} THEN "gone" ELSE "reading"
  BY DEF Recv, sender
<1>2. TypeOK /\ wire \in Seq(Units) /\ buf \in Seq(Units) /\ n \in 0..Len(wire)
  BY <1>1 DEF IInv, TypeOK
<1>3. got \in Seq(Units) /\ Len(got) = Len(buf) + n /\ Len(got) \in Nat /\ Len(buf) \in Nat
  BY <1>2, StreamParts
<1>4. got # <<>>
  <2> HIDE DEF got
  <2>1. Len(got) # 0
    BY <1>1, <1>3
  <2> QED BY <2>1, EmptySeq
<1>5. /\ Len(received) + 1 \in 1..Len(sent) /\ m \in Messages
      /\ Len(got) <= FrameLen(m) => Piece(m, got)
  BY <1>1, <1>2, <1>4, BufferPiece
<1> HIDE DEF got, m
<1>6. FrameLen(m) \in Nat /\ HeaderUnits \in Nat \ {0} /\ HeaderUnits < FrameLen(m)
  BY <1>5, FrameType
<1>7. Piece(m, buf)
  <2>1. CASE buf = <<>>
    BY <1>6, <2>1 DEF Piece
  <2>2. CASE buf # <<>>
    <3>1. Len(buf) < FrameLen(m)
      BY <2>2 DEF IInv, Buffered, m
    <3>2. 0 \in 0..Len(wire) /\ SubSeq(wire, 1, 0) = <<>> /\ buf \o <<>> = buf
      BY <1>2, SubSeqEmpty, ConcatEmptySeq
    <3>3. Len(buf) <= FrameLen(m) => Piece(m, buf)
      BY <1>1, <2>2, <3>2, BufferPiece DEF m
    <3> QED BY <1>3, <1>6, <3>1, <3>3
  <2> QED BY <2>1, <2>2
<1>8. Wanted(buf) \in Nat /\ Wanted(buf) <= FrameLen(m)
  BY <1>2, <1>5, <1>6, <1>7, WantedOfPiece
<1>9. Len(got) <= FrameLen(m) /\ Piece(m, got)
  BY <1>1, <1>3, <1>5, <1>6, <1>8
<1>10. Wanted(got) = IF HeaderUnits <= Len(got) THEN FrameLen(m) ELSE HeaderUnits
  BY <1>3, <1>5, <1>9, WantedOfPiece
<1>11. decode_frame(got) = IF Len(got) = FrameLen(m) THEN {m} ELSE {}
  BY <1>3, <1>5, <1>9, DecodePiece
<1>12. whole <=> Len(got) = FrameLen(m)
  BY <1>3, <1>6, <1>9, <1>10
<1>13. CASE whole
  <2>1. decoded = {m} /\ Len(got) = FrameLen(m)
    BY <1>11, <1>12, <1>13
  <2> HIDE DEF whole, decoded
  <2>2. buf' = <<>> /\ received' = Append(received, m) /\ reader' = "reading"
    BY <1>1, <1>13, <2>1
  <2> QED BY <1>1, <1>4, <1>5, <1>9, <2>1, <2>2 DEF got, m
<1>14. CASE ~whole
  <2>1. decoded = {} /\ Len(got) < FrameLen(m)
    BY <1>3, <1>6, <1>9, <1>12, <1>14
  <2> HIDE DEF whole, decoded
  <2>2. buf' = got /\ received' = received /\ reader' = "reading"
    BY <1>1, <1>14, <2>1
  <2> QED BY <1>1, <1>4, <1>5, <1>9, <2>1, <2>2 DEF got, m
<1> QED BY <1>13, <1>14

\* TcpSocket::recv.
LEMMA RecvStep ==
    ASSUME IInv, NEW n, Recv(n)
    PROVE  IInv'
<1> DEFINE got == buf \o SubSeq(wire, 1, n)
           rest == SubSeq(wire, n + 1, Len(wire))
           m == sent[Len(received) + 1]
           x == IF open THEN rest \o Pending ELSE rest
           r == Len(received)
<1>1. /\ n \in 1..Len(wire) /\ reader = "reading" /\ reader' = "reading"
      /\ r + 1 \in 1..Len(sent) /\ m \in Messages
      /\ got # <<>> /\ Piece(m, got)
      /\ wire' = rest /\ UNCHANGED <<wmu, left, open, sent>>
      /\ \/ /\ Len(got) = FrameLen(m)
            /\ buf' = <<>> /\ received' = Append(received, m)
         \/ /\ Len(got) < FrameLen(m)
            /\ buf' = got /\ received' = received
  BY RecvOutcome
<1>2. /\ TypeOK /\ wire \in Seq(Units) /\ sent \in Seq(Messages)
      /\ received \in Seq(Messages) /\ n \in 0..Len(wire)
  BY <1>1 DEF IInv, TypeOK
<1>3. /\ got \in Seq(Units) /\ rest \in Seq(Units) /\ x \in Seq(Units)
      /\ Len(rest) = Len(wire) - n
      /\ Afloat = got \o rest /\ Stream = got \o x
  BY <1>2, StreamParts
<1>4. PICK pos : /\ Laid(Stream, sent, r, pos)
                 /\ open => Complete(Stream, sent, r, pos)
  BY <1>1 DEF IInv, Framed
<1>5. Pending' = Pending
  BY <1>1 DEF Pending
<1>6. wire' \in Seq(Units) /\ Len(wire') <= Capacity
  <2> HIDE DEF rest, got, m, x, r
  <2>1. Len(wire) \in Nat /\ Len(wire) <= Capacity /\ Capacity \in Nat
    BY <1>2, SocketConstants DEF TypeOK
  <2>2. wire' = rest /\ n \in 1..Len(wire)
    BY <1>1
  <2> QED BY <1>3, <2>1, <2>2
<1>7. Exclusive' /\ Gone'
  BY <1>1 DEF IInv, Exclusive, Gone
<1> HIDE DEF got, rest, m
<1>8. CASE Len(got) = FrameLen(m) /\ buf' = <<>> /\ received' = Append(received, m)
  <2>1. received' \in Seq(Messages) /\ Len(received') = r + 1
    BY <1>1, <1>2, <1>8, AppendProperties
  <2>2. TypeOK'
    <3>1. buf' \in Seq(Units) /\ decode_frame(buf') = {}
      BY <1>8, EmptySeq, NothingDecodes
    <3> QED BY <1>1, <1>2, <1>6, <2>1, <3>1 DEF TypeOK, decode_frame, Units
  <2>3. Stream' = x
    <3>1. Afloat' = rest
      BY <1>1, <1>3, <1>8, ConcatEmptySeq DEF Afloat
    <3> QED BY <1>1, <1>5, <3>1 DEF Stream
  <2> HIDE DEF x
  <2>4. /\ Laid(x, sent, r + 1, pos)
        /\ Complete(got \o x, sent, r, pos) => Complete(x, sent, r + 1, pos)
    BY <1>1, <1>2, <1>3, <1>4, <1>8, LaidDrop DEF m
  <2>5. Framed'
    BY <1>1, <1>3, <1>4, <2>1, <2>3, <2>4 DEF Framed
  <2>6. Buffered' /\ Delivered'
    BY <1>1, <1>2, <1>8, <2>1 DEF Buffered, Delivered
  <2> QED BY <1>7, <2>2, <2>5, <2>6 DEF IInv
<1>9. CASE Len(got) < FrameLen(m) /\ buf' = got /\ received' = received
  <2>1. decode_frame(got) = {}
    <3>1. FrameLen(m) \in Nat
      BY <1>1, FrameType
    <3> QED BY <1>1, <1>3, <1>9, <3>1, DecodePiece
  <2>2. TypeOK'
    <3>1. buf' \in Seq(Units) /\ decode_frame(buf') = {}
      BY <1>3, <1>9, <2>1
    <3> QED BY <1>1, <1>2, <1>6, <1>9, <3>1 DEF TypeOK, decode_frame, Units
  <2>3. Stream' = Stream
    <3>1. Afloat' = Afloat
      BY <1>1, <1>3, <1>9 DEF Afloat
    <3> QED BY <1>1, <1>5, <3>1 DEF Stream
  <2>4. Framed'
    BY <1>1, <1>4, <1>9, <2>3 DEF Framed
  <2>5. Buffered' /\ Delivered'
    BY <1>1, <1>9 DEF IInv, Buffered, Delivered, m
  <2> QED BY <1>7, <2>2, <2>4, <2>5 DEF IInv
<1> QED BY <1>1, <1>8, <1>9

\* recv() answers false at the end of the stream.
LEMMA EndOfStreamStep ==
    ASSUME IInv, EndOfStream
    PROVE  IInv'
<1>1. /\ reader = "reading" /\ ~open /\ wire = <<>>
      /\ buf' = <<>> /\ reader' = "gone"
      /\ UNCHANGED <<wire, open, received, wmu, left, sent>>
  BY DEF EndOfStream, sender
<1>2. <<>> \in Seq(Units)
  BY EmptySeq
<1>3. decode_frame(<<>>)' = {}
  BY NothingDecodes DEF decode_frame
<1>4. TypeOK'
  BY <1>1, <1>2, <1>3 DEF IInv, TypeOK, Units, decode_frame
<1>5. Exclusive' /\ Framed' /\ Buffered' /\ Gone' /\ Delivered'
  BY <1>1 DEF IInv, Exclusive, Framed, Buffered, Gone, Delivered
<1> QED BY <1>4, <1>5 DEF IInv

\* The connection is lost, with the end of what is under way.
LEMMA CutStep ==
    ASSUME IInv, NEW n, Cut(n)
    PROVE  IInv'
<1> DEFINE kept == SubSeq(wire, 1, n)
           rest == SubSeq(wire, n + 1, Len(wire))
           got == buf \o kept
           x == IF open THEN rest \o Pending ELSE rest
<1>1. /\ open /\ n \in 0..Len(wire) /\ open' = FALSE /\ wire' = kept
      /\ UNCHANGED <<wmu, left, sent, buf, reader, received>>
  BY DEF Cut, sender, receiver
<1>2. TypeOK /\ wire \in Seq(Units) /\ Len(wire) \in Nat
  BY DEF IInv, TypeOK
<1>3. got \in Seq(Units) /\ x \in Seq(Units) /\ Stream = got \o x
  BY <1>1, <1>2, StreamParts
<1>4. kept \in Seq(Units) /\ Len(kept) = n
  BY <1>1, <1>2, Split
<1>5. TypeOK'
  <2> HIDE DEF kept
  <2>1. wire' \in Seq(Units) /\ Len(wire') <= Capacity
    BY <1>1, <1>2, <1>4, SocketConstants DEF TypeOK
  <2> QED BY <1>1, <1>2, <2>1 DEF TypeOK, decode_frame, Units
<1>6. Stream' = got
  BY <1>1 DEF Stream, Afloat
<1> HIDE DEF got, x
<1>7. Framed'
  <2>1. reader = "reading"
    BY <1>1, <1>2 DEF IInv, Gone, TypeOK
  <2>2. PICK pos : Laid(Stream, sent, Len(received), pos)
    BY <2>1 DEF IInv, Framed
  <2>3. Laid(got, sent, Len(received), pos)
    BY <1>3, <2>2, LaidPrefix
  <2> QED BY <1>1, <1>6, <2>3 DEF Framed
<1>8. Exclusive' /\ Buffered' /\ Gone' /\ Delivered'
  BY <1>1, <1>2 DEF IInv, Exclusive, Buffered, Gone, Delivered, TypeOK
<1> QED BY <1>5, <1>7, <1>8 DEF IInv

LEMMA InitIInv == Init => IInv
<1> SUFFICES ASSUME Init PROVE IInv
  OBVIOUS
<1>1. TypeOK
  BY EmptySeq, NothingDecodes, SocketConstants DEF Init, TypeOK
<1>2. Exclusive /\ Buffered /\ Gone /\ Delivered
  BY DEF Init, Exclusive, Buffered, Gone, Delivered
<1>3. Stream = <<>>
  BY ConcatEmptySeq DEF Init, Stream, Afloat, Pending
<1>4. Framed
  <2> DEFINE p == [j \in 1..1 |-> 0]
  <2>1. Laid(<<>>, <<>>, 0, p)
    BY DEF Laid
  <2>2. Complete(<<>>, <<>>, 0, p)
    BY DEF Complete
  <2>3. sent = <<>> /\ Len(received) = 0
    BY DEF Init
  <2> QED BY <1>3, <2>1, <2>2, <2>3 DEF Framed
<1> QED BY <1>1, <1>2, <1>4 DEF IInv

LEMMA StutterIInv ==
    ASSUME IInv, UNCHANGED vars
    PROVE  IInv'
<1>1. UNCHANGED <<wmu, left, wire, open, buf, reader, received, sent>>
  BY DEF vars
<1>2. TypeOK'
  BY <1>1 DEF IInv, TypeOK, decode_frame, Units
<1>3. Exclusive' /\ Buffered' /\ Gone' /\ Delivered'
  BY <1>1 DEF IInv, Exclusive, Buffered, Gone, Delivered
<1>4. Stream' = Stream
  BY <1>1 DEF Stream, Afloat, Pending
<1>5. Framed'
  BY <1>1, <1>4 DEF IInv, Framed
<1> QED BY <1>2, <1>3, <1>5 DEF IInv

LEMMA NextIInv == IInv /\ [Next]_vars => IInv'
<1> SUFFICES ASSUME IInv, [Next]_vars PROVE IInv'
  OBVIOUS
<1>1. ASSUME NEW t \in Threads, NEW m \in Messages, Begin(t, m) PROVE IInv'
  BY <1>1, BeginStep
<1>2. ASSUME NEW t \in Threads, Send(t) PROVE IInv'
  BY <1>2, TransmitStep, SendFailsStep DEF Send
<1>3. ASSUME Receive PROVE IInv'
  BY <1>3, RecvStep, EndOfStreamStep DEF Receive
<1>4. ASSUME NEW n, Cut(n) PROVE IInv'
  BY <1>4, CutStep
<1>5. CASE UNCHANGED vars
  BY <1>5, StutterIInv
<1> QED BY <1>1, <1>2, <1>3, <1>4, <1>5 DEF Next

\* The state stays well formed, and recv_all never buffers a whole frame.
THEOREM TypeCorrect == Spec => []TypeOK
<1>1. IInv => TypeOK
  BY DEF IInv
<1> QED BY InitIInv, NextIInv, <1>1, PTL DEF Spec

\* recv() declares the peer lost only after the connection ended: threads that
\* share a socket never make a frame the reader rejects.
THEOREM PeersAreLostForCause == Spec => []LostOnlyWhenCut
<1>1. IInv => LostOnlyWhenCut
  BY DEF IInv, Gone, LostOnlyWhenCut
<1> QED BY InitIInv, NextIInv, <1>1, PTL DEF Spec

-----------------------------------------------------------------------------
(* The socket implements the channel.                                      *)

\* Where in a stream a frame ends.
Ends(st) == {i \in DOMAIN st : st[i].unit = Len(encode_frame(st[i].message))}

\* The end of a frame, in terms of the frames laid out.
LEMMA EndOfLaid ==
    ASSUME NEW st \in Seq(Units), NEW ms \in Seq(Messages), NEW r, NEW pos,
           Laid(st, ms, r, pos), NEW i \in Ends(st)
    PROVE  /\ i \in 1..Len(st)
           /\ \E j \in (r + 1)..Len(ms) : pos[r + 1] + i = pos[j + 1]
<1>1. DOMAIN st = 1..Len(st) /\ Len(st) \in Nat /\ Len(ms) \in Nat
  OBVIOUS
<1>2. i \in 1..Len(st)
  BY <1>1 DEF Ends
<1>3. PICK j \in (r + 1)..Len(ms) :
          /\ pos[r + 1] + i <= pos[j + 1]
          /\ st[i] = [message |-> ms[j], unit |-> (pos[r + 1] + i) - pos[j]]
  BY <1>2 DEF Laid
<1>4. r \in 0..Len(ms) /\ j \in 1..Len(ms) /\ r + 1 \in 1..(Len(ms) + 1)
      /\ j \in 1..(Len(ms) + 1) /\ j + 1 \in 1..(Len(ms) + 1)
  BY <1>1 DEF Laid
<1>5. /\ pos[r + 1] \in Nat /\ pos[j] \in Nat /\ pos[j + 1] \in Nat
      /\ pos[j + 1] = pos[j] + FrameLen(ms[j])
  BY <1>4 DEF Laid
<1>6. ms[j] \in Messages
  BY <1>4, ElementOfSeq
<1>7. st[i].unit = FrameLen(st[i].message)
  <2>1. st[i].message \in Messages
    BY <1>3, <1>6
  <2> QED BY <2>1, FrameType DEF Ends
<1>8. (pos[r + 1] + i) - pos[j] = FrameLen(ms[j]) /\ FrameLen(ms[j]) \in Nat
  BY <1>3, <1>6, <1>7, FrameType
<1>9. pos[r + 1] + i = pos[j + 1]
  BY <1>2, <1>5, <1>8
<1> QED BY <1>2, <1>9

\* A stream holds no more whole frames than there are messages laid out in it.
LEMMA WholeFramesBound ==
    ASSUME NEW st \in Seq(Units), NEW ms \in Seq(Messages), NEW r, NEW pos,
           Laid(st, ms, r, pos)
    PROVE  /\ IsFiniteSet(Ends(st)) /\ WholeFrames(st) \in Nat
           /\ r + WholeFrames(st) <= Len(ms)
<1> DEFINE T == (r + 1)..Len(ms)
           f == [i \in Ends(st) |-> CHOOSE j \in T : pos[r + 1] + i = pos[j + 1]]
<1>1. r \in 0..Len(ms) /\ Len(ms) \in Nat /\ pos[r + 1] \in Nat
  <2>1. r \in 0..Len(ms) /\ Len(ms) \in Nat
    BY DEF Laid
  <2>2. r + 1 \in 1..(Len(ms) + 1)
    BY <2>1
  <2> QED BY <2>1, <2>2 DEF Laid
<1>2. \A i \in Ends(st) : f[i] \in T /\ pos[r + 1] + i = pos[f[i] + 1]
  <2> TAKE i \in Ends(st)
  <2>1. \E j \in T : pos[r + 1] + i = pos[j + 1]
    BY EndOfLaid
  <2> QED BY <2>1
<1>3. \A i \in Ends(st) : i \in Nat
  BY EndOfLaid
<1>4. f \in [Ends(st) -> T]
  BY <1>2
<1>5. \A a, b \in Ends(st) : f[a] = f[b] => a = b
  <2> HIDE DEF f
  <2> TAKE a, b \in Ends(st)
  <2> HAVE f[a] = f[b]
  <2>1. pos[r + 1] + a = pos[r + 1] + b
    BY <1>2, Zenon
  <2> QED BY <1>1, <1>3, <2>1
<1> HIDE DEF f
<1>6. f \in Injection(Ends(st), T)
  BY <1>4, <1>5 DEF Injection, IsInjective
<1>7. IsFiniteSet(T) /\ Cardinality(T) = Len(ms) - r
  <2>1. r + 1 \in Int /\ Len(ms) \in Int
    BY <1>1
  <2>2. /\ IsFiniteSet(T)
        /\ Cardinality(T) = IF r + 1 > Len(ms) THEN 0 ELSE (Len(ms) - (r + 1)) + 1
    BY <2>1, FS_Interval
  <2> QED BY <1>1, <2>2
<1> HIDE DEF T
<1>8. IsFiniteSet(Ends(st)) /\ Cardinality(Ends(st)) <= Cardinality(T)
  BY <1>6, <1>7, FS_Injection
<1>9. Cardinality(Ends(st)) \in Nat
  BY <1>8, FS_CardinalityType
<1> QED BY <1>1, <1>7, <1>8, <1>9 DEF WholeFrames, Ends

\* A frame that is received is one whole frame less in the stream.
LEMMA WholeFramesDrop ==
    ASSUME NEW g \in Seq(Units), NEW x \in Seq(Units), NEW m \in Messages,
           Piece(m, g), Len(g) = FrameLen(m),
           WholeFrames(x) \in Nat, IsFiniteSet(Ends(x))
    PROVE  WholeFrames(g \o x) = WholeFrames(x) + 1
<1> DEFINE n == Len(g)
           st == g \o x
           T == {i \in Ends(st) : i > n}
           f == [i \in Ends(x) |-> n + i]
<1>1. /\ n \in Nat \ {0} /\ Len(x) \in Nat /\ Len(st) = n + Len(x)
      /\ DOMAIN st = 1..(n + Len(x)) /\ DOMAIN x = 1..Len(x)
      /\ \A i \in 1..(n + Len(x)) : st[i] = IF i <= n THEN g[i] ELSE x[i - n]
  <2>1. st \in Seq(Units) /\ Len(st) = n + Len(x) /\ n \in Nat \ {0}
    BY ConcatProperties, FrameType
  <2> QED BY <2>1, ConcatProperties
<1> HIDE DEF st
<1>2. \A i \in 1..n : i \in Ends(st) <=> i = n
  <2> TAKE i \in 1..n
  <2>1. i \in DOMAIN st /\ st[i] = [message |-> m, unit |-> i]
    BY <1>1 DEF Piece
  <2>2. Len(encode_frame(m)) = n
    BY FrameType
  <2> QED BY <2>1, <2>2 DEF Ends
<1> HIDE DEF n
<1>3. \A i \in 1..Len(x) : n + i \in DOMAIN st /\ st[n + i] = x[i]
  BY <1>1
<1>4. \A i \in 1..Len(x) : n + i \in Ends(st) <=> i \in Ends(x)
  BY <1>1, <1>3 DEF Ends
<1>5. Ends(st) \subseteq 1..(n + Len(x)) /\ Ends(x) \subseteq 1..Len(x)
  BY <1>1 DEF Ends
<1>6. \A i \in Ends(x) : n + i \in T
  BY <1>1, <1>4, <1>5
<1>7. f \in [Ends(x) -> T] /\ \A a, b \in Ends(x) : f[a] = f[b] => a = b
  BY <1>1, <1>5, <1>6
<1>8. \A j \in T : \E i \in Ends(x) : f[i] = j
  <2> TAKE j \in T
  <2>0. j \in Ends(st) /\ j > n /\ j \in 1..(n + Len(x))
    BY <1>5
  <2>1. j - n \in 1..Len(x) /\ n + (j - n) = j /\ j \in Ends(st)
    BY <1>1, <2>0
  <2>2. j - n \in Ends(x)
    BY <1>4, <2>1
  <2> QED BY <2>1, <2>2
<1> HIDE DEF f
<1>9. f \in Bijection(Ends(x), T)
  BY <1>7, <1>8 DEF Bijection, Injection, Surjection, IsInjective
<1>10. IsFiniteSet(T) /\ Cardinality(T) = Cardinality(Ends(x))
  BY <1>9, FS_Bijection DEF ExistsBijection
<1>11. Ends(st) = T \cup {n} /\ n \notin T
  <2>1. \A i \in Ends(st) : i \in 1..n \/ i > n
    BY <1>1, <1>5
  <2>2. n \in 1..n /\ ~(n > n)
    BY <1>1
  <2> QED BY <1>2, <2>1, <2>2
<1> HIDE DEF T
<1>12. Cardinality(Ends(st)) = Cardinality(T) + 1
  BY <1>10, <1>11, FS_AddElement
<1> QED BY <1>10, <1>12 DEF WholeFrames, Ends, st

\* A piece that is not whole ends no frame.
LEMMA NoWholeFrame ==
    ASSUME NEW s \in Seq(Units), NEW m \in Messages, Piece(m, s), Len(s) < FrameLen(m)
    PROVE  WholeFrames(s) = 0
<1>1. ASSUME NEW i \in Ends(s) PROVE FALSE
  <2>1. i \in 1..Len(s) /\ Len(s) \in Nat /\ FrameLen(m) \in Nat
    BY <1>1, FrameType DEF Ends
  <2>2. s[i] = [message |-> m, unit |-> i]
    BY <2>1 DEF Piece
  <2>3. s[i].unit = Len(encode_frame(s[i].message))
    BY <1>1 DEF Ends
  <2>4. i = FrameLen(m)
    BY <2>2, <2>3, FrameType
  <2> QED BY <2>1, <2>4
<1>2. Ends(s) = {}
  BY <1>1
<1> QED BY <1>2, FS_EmptySet DEF WholeFrames, Ends

LEMMA NoFrameAtAll == WholeFrames(<<>>) = 0
<1>1. Ends(<<>>) = {}
  BY DEF Ends
<1> QED BY <1>1, FS_EmptySet DEF WholeFrames, Ends

\* What the channel holds is determined by the messages sent and received and,
\* once the connection is lost, by what is afloat.
LEMMA SameUnderWay ==
    ASSUME UNCHANGED <<sent, received, open>>, open \/ Afloat' = Afloat
    PROVE  UNCHANGED <<UnderWay, received, open>>
<1>1. CASE open
  BY <1>1 DEF UnderWay
<1>2. CASE Afloat' = Afloat
  <2>1. WholeFrames(Afloat)' = WholeFrames(Afloat)
    BY <1>2 DEF WholeFrames, encode_frame
  <2> QED BY <2>1 DEF UnderWay, Afloat
<1> QED BY <1>1, <1>2

\* The messages of s after the first a, up to the b-th.
LEMMA Window ==
    ASSUME NEW s \in Seq(Messages), NEW a \in Nat, NEW b \in Nat, a <= b, b <= Len(s)
    PROVE  /\ SubSeq(s, a + 1, b) \in Seq(Messages)
           /\ Len(SubSeq(s, a + 1, b)) = b - a
           /\ \A i \in 1..(b - a) : SubSeq(s, a + 1, b)[i] = s[a + i]
<1>1. \A i \in (a + 1)..b : s[i] \in Messages
  BY ElementOfSeq
<1>2. a + 1 \in Int /\ b \in Int
  OBVIOUS
<1>3. /\ SubSeq(s, a + 1, b) \in Seq(Messages)
      /\ Len(SubSeq(s, a + 1, b)) = IF a + 1 <= b THEN (b - (a + 1)) + 1 ELSE 0
      /\ \A i \in 1..((b - (a + 1)) + 1) : SubSeq(s, a + 1, b)[i] = s[(a + 1) + (i - 1)]
  BY <1>1, <1>2, SubSeqProperties
<1>4. (b - (a + 1)) + 1 = b - a /\ \A i \in 1..(b - a) : (a + 1) + (i - 1) = a + i
  OBVIOUS
<1> QED BY <1>3, <1>4

\* Taking the mutex is sending.
LEMMA BeginSends ==
    ASSUME IInv, NEW t \in Threads, NEW m \in Messages, Begin(t, m)
    PROVE  [Abstract!Next]_<<UnderWay, received, open>>
<1>1. /\ UNCHANGED <<wire, open, buf, received>>
      /\ sent' = IF open THEN Append(sent, m) ELSE sent
  BY DEF Begin, receiver
<1>2. CASE ~open
  <2>1. Afloat' = Afloat /\ UNCHANGED <<sent, received, open>>
    BY <1>1, <1>2 DEF Afloat
  <2> QED BY <2>1, SameUnderWay
<1>3. CASE open
  <2> DEFINE L == Len(sent)
             r == Len(received)
  <2>1. /\ sent \in Seq(Messages) /\ L \in Nat /\ r \in Nat /\ r <= L
        /\ received \in Seq(Messages)
    BY DEF IInv, TypeOK, Delivered
  <2>2. /\ sent' \in Seq(Messages) /\ Len(sent') = L + 1
        /\ sent'[L + 1] = m /\ \A i \in 1..L : sent'[i] = sent[i]
    BY <1>1, <1>3, <2>1, AppendProperties
  <2>3. /\ UnderWay = SubSeq(sent, r + 1, L)
        /\ UnderWay' = SubSeq(sent', r + 1, L + 1)
    BY <1>1, <1>3, <2>2 DEF UnderWay
  <2> HIDE DEF L, r
  <2>4. UnderWay \in Seq(Messages) /\ Len(UnderWay) = L - r
        /\ \A i \in 1..(L - r) : UnderWay[i] = sent[r + i]
    BY <2>1, <2>3, Window DEF L
  <2>5. UnderWay' \in Seq(Messages) /\ Len(UnderWay') = (L - r) + 1
        /\ \A i \in 1..((L - r) + 1) : UnderWay'[i] = sent'[r + i]
    <3>1. L + 1 \in Nat /\ r <= L + 1 /\ (L + 1) - r = (L - r) + 1
      BY <2>1
    <3> QED BY <2>1, <2>2, <2>3, <3>1, Window
  <2>6. UnderWay' = Append(UnderWay, m)
    <3>1. /\ Append(UnderWay, m) \in Seq(Messages)
          /\ Len(Append(UnderWay, m)) = (L - r) + 1
          /\ Append(UnderWay, m)[(L - r) + 1] = m
          /\ \A i \in 1..(L - r) : Append(UnderWay, m)[i] = UnderWay[i]
      BY <2>4, AppendProperties
    <3>2. \A i \in 1..((L - r) + 1) : UnderWay'[i] = Append(UnderWay, m)[i]
      <4> TAKE i \in 1..((L - r) + 1)
      <4>1. CASE i = (L - r) + 1
        <5>1. r + i = L + 1
          BY <2>1, <4>1
        <5> QED BY <2>2, <2>5, <3>1, <4>1, <5>1
      <4>2. CASE i # (L - r) + 1
        <5>1. i \in 1..(L - r) /\ r + i \in 1..L
          BY <2>1, <4>2
        <5> QED BY <2>2, <2>4, <2>5, <3>1, <5>1 DEF L
      <4> QED BY <4>1, <4>2
    <3> QED BY <2>5, <3>1, <3>2, SeqEqual
  <2>7. Abstract!Send(m)
    BY <1>1, <1>3, <2>6 DEF Abstract!Send
  <2> QED BY <2>7 DEF Abstract!Next
<1> QED BY <1>2, <1>3

\* Returning a whole frame is receiving the first message under way.
LEMMA RecvReceives ==
    ASSUME IInv, NEW n, Recv(n)
    PROVE  [Abstract!Next]_<<UnderWay, received, open>>
<1> DEFINE got == buf \o SubSeq(wire, 1, n)
           rest == SubSeq(wire, n + 1, Len(wire))
           m == sent[Len(received) + 1]
           x == IF open THEN rest \o Pending ELSE rest
           r == Len(received)
           L == Len(sent)
<1>1. /\ n \in 1..Len(wire) /\ reader = "reading"
      /\ r + 1 \in 1..L /\ m \in Messages
      /\ got # <<>> /\ Piece(m, got)
      /\ wire' = rest /\ UNCHANGED <<open, sent>>
      /\ \/ /\ Len(got) = FrameLen(m)
            /\ buf' = <<>> /\ received' = Append(received, m)
         \/ /\ Len(got) < FrameLen(m)
            /\ buf' = got /\ received' = received
  BY RecvOutcome
<1>2. /\ TypeOK /\ sent \in Seq(Messages) /\ received \in Seq(Messages)
      /\ n \in 0..Len(wire) /\ r \in Nat /\ L \in Nat
  BY <1>1 DEF IInv, TypeOK
<1>3. /\ got \in Seq(Units) /\ rest \in Seq(Units) /\ x \in Seq(Units)
      /\ Afloat = got \o rest /\ Stream = got \o x
  BY <1>2, StreamParts
<1> HIDE DEF got, rest, m
<1>4. CASE Len(got) < FrameLen(m) /\ buf' = got /\ received' = received
  <2>1. Afloat' = Afloat
    BY <1>1, <1>3, <1>4 DEF Afloat
  <2> QED BY <1>1, <1>4, <2>1, SameUnderWay
<1>5. CASE Len(got) = FrameLen(m) /\ buf' = <<>> /\ received' = Append(received, m)
  <2> DEFINE last == IF open THEN L ELSE r + WholeFrames(Afloat)
  <2>1. Len(received') = r + 1
    BY <1>1, <1>2, <1>5, AppendProperties
  <2>2. Afloat' = rest
    BY <1>1, <1>3, <1>5, ConcatEmptySeq DEF Afloat
  <2>3. /\ last \in (r + 1)..L
        /\ UnderWay = SubSeq(sent, r + 1, last)
        /\ UnderWay' = SubSeq(sent, (r + 1) + 1, last)
    <3>1. CASE open
      BY <1>1, <1>2, <2>1, <3>1 DEF UnderWay
    <3>2. CASE ~open
      <4>1. PICK pos : Laid(Stream, sent, r, pos)
        BY <1>1 DEF IInv, Framed
      <4>2. Laid(got \o rest, sent, r, pos)
        BY <1>3, <3>2, <4>1
      <4>3. Laid(rest, sent, r + 1, pos)
        BY <1>1, <1>2, <1>3, <1>5, <4>2, LaidDrop DEF m
      <4>4. /\ IsFiniteSet(Ends(rest)) /\ WholeFrames(rest) \in Nat
            /\ (r + 1) + WholeFrames(rest) <= L
        BY <1>2, <1>3, <4>3, WholeFramesBound
      <4>5. WholeFrames(Afloat) = WholeFrames(rest) + 1
        BY <1>1, <1>3, <1>5, <4>4, WholeFramesDrop
      <4>6. last = (r + 1) + WholeFrames(rest)
        BY <1>2, <3>2, <4>4, <4>5
      <4>7. UnderWay = SubSeq(sent, r + 1, last)
        BY <3>2 DEF UnderWay, Afloat
      <4>8. WholeFrames(Afloat)' = WholeFrames(rest)
        BY <2>2 DEF WholeFrames, encode_frame
      <4>9. UnderWay' = SubSeq(sent, (r + 1) + 1, (r + 1) + WholeFrames(rest))
        BY <1>1, <2>1, <3>2, <4>8 DEF UnderWay, Afloat
      <4>10. UnderWay' = SubSeq(sent, (r + 1) + 1, last)
        BY <4>6, <4>9, Zenon
      <4>11. last \in (r + 1)..L
        <5> HIDE DEF last, r, L
        <5> QED BY <1>2, <4>4, <4>6
      <4> QED BY <4>7, <4>10, <4>11, Zenon
    <3> QED BY <3>1, <3>2
  <2> HIDE DEF last, r, L
  <2>4. Head(UnderWay) = m /\ Tail(UnderWay) = UnderWay'
    <3>1. /\ Head(SubSeq(sent, r + 1, last)) = sent[r + 1]
          /\ Tail(SubSeq(sent, r + 1, last)) = SubSeq(sent, (r + 1) + 1, last)
      BY <1>1, <1>2, <2>3, HeadTailOfSubSeq DEF L
    <3> QED BY <2>3, <3>1 DEF m, r
  <2>5. UnderWay # <<>>
    <3>1. last \in Nat /\ r <= last /\ last <= L /\ last - r # 0
      BY <1>2, <2>3
    <3>2. UnderWay \in Seq(Messages) /\ Len(UnderWay) = last - r
      BY <1>2, <2>3, <3>1, Window DEF L
    <3> QED BY <3>1, <3>2, EmptySeq
  <2>6. Abstract!Receive
    BY <1>1, <1>5, <2>4, <2>5 DEF Abstract!Receive
  <2> QED BY <2>6 DEF Abstract!Next
<1> QED BY <1>1, <1>4, <1>5

\* Dropping the piece of a frame loses no message under way.
LEMMA EndOfStreamStutters ==
    ASSUME IInv, EndOfStream
    PROVE  UNCHANGED <<UnderWay, received, open>>
<1>1. /\ reader = "reading" /\ ~open /\ wire = <<>> /\ buf' = <<>> /\ wire' = <<>>
      /\ UNCHANGED <<open, received, sent>>
  BY DEF EndOfStream, sender
<1>2. buf \in Seq(Units) /\ wire \in Seq(Units)
  BY DEF IInv, TypeOK
<1>3. Afloat = buf /\ Afloat' = <<>>
  BY <1>1, <1>2, ConcatEmptySeq DEF Afloat
<1>4. WholeFrames(buf) = 0
  <2>1. CASE buf = <<>>
    BY <2>1, NoFrameAtAll
  <2>2. CASE buf # <<>>
    <3> DEFINE m == sent[Len(received) + 1]
    <3>1. Len(buf) < FrameLen(m) /\ Len(buf) \in Nat
      BY <1>2, <2>2 DEF IInv, Buffered
    <3>2. 0 \in 0..Len(wire) /\ SubSeq(wire, 1, 0) = <<>> /\ buf \o <<>> = buf
      BY <1>2, SubSeqEmpty, ConcatEmptySeq
    <3>3. m \in Messages /\ (Len(buf) <= FrameLen(m) => Piece(m, buf))
      BY <1>1, <2>2, <3>2, BufferPiece
    <3>4. FrameLen(m) \in Nat
      BY <3>3, FrameType
    <3> QED BY <1>2, <3>1, <3>3, <3>4, NoWholeFrame
  <2> QED BY <2>1, <2>2
<1>5. WholeFrames(Afloat) = 0
  BY <1>3, <1>4
<1>6. WholeFrames(Afloat)' = 0
  BY <1>3, NoFrameAtAll DEF WholeFrames, encode_frame
<1> QED BY <1>1, <1>5, <1>6 DEF UnderWay, Afloat

\* Losing the connection loses the end of what is under way.
LEMMA CutLoses ==
    ASSUME IInv, NEW n, Cut(n)
    PROVE  [Abstract!Next]_<<UnderWay, received, open>>
<1> DEFINE r == Len(received)
           L == Len(sent)
           c == WholeFrames(Afloat')
<1>1. open /\ open' = FALSE /\ UNCHANGED <<sent, received>>
  BY DEF Cut, sender, receiver
<1>2. /\ sent \in Seq(Messages) /\ r \in Nat /\ L \in Nat /\ r <= L
      /\ reader = "reading" /\ reader' = "reading"
  BY <1>1 DEF IInv, TypeOK, Delivered, Gone, Cut, receiver
<1>3. IInv'
  BY CutStep
<1>4. Stream' = Afloat'
  BY <1>1 DEF Stream
<1>5. Afloat' \in Seq(Units)
  <2>1. TypeOK'
    BY <1>3 DEF IInv
  <2>2. wire' \in Seq(Units) /\ buf' \in Seq(Units)
    BY <2>1 DEF TypeOK, Units
  <2> QED BY <2>2, ConcatProperties DEF Afloat
<1>6. \E pos : Laid(Afloat', sent, r, pos)
  BY <1>1, <1>2, <1>3, <1>4 DEF IInv, Framed
<1>7. c \in Nat /\ r + c <= L
  BY <1>2, <1>5, <1>6, WholeFramesBound
<1>8. UnderWay = SubSeq(sent, r + 1, L)
  BY <1>1 DEF UnderWay
<1>9. UnderWay' = SubSeq(sent, r + 1, r + c)
  BY <1>1 DEF UnderWay, Afloat
<1> HIDE DEF r, L, c
<1>10. /\ UnderWay \in Seq(Messages) /\ Len(UnderWay) = L - r
       /\ \A i \in 1..(L - r) : UnderWay[i] = sent[r + i]
  BY <1>2, <1>8, Window DEF L
<1>11. UnderWay' = SubSeq(UnderWay, 1, c)
  <2>1. UnderWay' \in Seq(Messages) /\ Len(UnderWay') = c
        /\ \A i \in 1..c : UnderWay'[i] = sent[r + i]
    <3>1. r + c \in Nat /\ r <= r + c /\ (r + c) - r = c
      BY <1>2, <1>7
    <3> QED BY <1>2, <1>7, <1>9, <3>1, Window DEF L
  <2>2. c <= Len(UnderWay) /\ 0 + 1 = 1 /\ c - 0 = c /\ 0 <= c
        /\ \A i \in 1..c : 0 + i = i /\ i \in 1..(L - r)
    BY <1>2, <1>7, <1>10
  <2>3. /\ SubSeq(UnderWay, 0 + 1, c) \in Seq(Messages)
        /\ Len(SubSeq(UnderWay, 0 + 1, c)) = c - 0
        /\ \A i \in 1..(c - 0) : SubSeq(UnderWay, 0 + 1, c)[i] = UnderWay[0 + i]
    BY <1>7, <1>10, <2>2, Window
  <2>4. /\ SubSeq(UnderWay, 1, c) \in Seq(Messages) /\ Len(SubSeq(UnderWay, 1, c)) = c
        /\ \A i \in 1..c : SubSeq(UnderWay, 1, c)[i] = UnderWay[i]
    BY <2>2, <2>3
  <2>5. \A i \in 1..c : UnderWay'[i] = SubSeq(UnderWay, 1, c)[i]
    BY <1>10, <2>1, <2>2, <2>4
  <2> QED BY <2>1, <2>4, <2>5, SeqEqual
<1>12. c \in 0..Len(UnderWay)
  BY <1>2, <1>7, <1>10
<1>13. Abstract!Lose
  BY <1>1, <1>11, <1>12 DEF Abstract!Lose
<1> QED BY <1>13 DEF Abstract!Next

\* The socket implements the channel: recv() returns what was sent, whole and in
\* the order in which the senders took the mutex, and a lost connection loses
\* only the end of that order.
THEOREM SocketImplementsChannel == Spec => ChannelSpec
<1>1. Init => Abstract!Init
  <2> SUFFICES ASSUME Init PROVE Abstract!Init
    OBVIOUS
  <2>1. SubSeq(<<>>, 1, 0) = <<>>
    BY SubSeqEmpty
  <2>2. sent = <<>> /\ received = <<>> /\ open = TRUE
    BY DEF Init
  <2>3. UnderWay = SubSeq(<<>>, 1, 0)
    BY <2>2 DEF UnderWay
  <2> QED BY <2>1, <2>2, <2>3 DEF Abstract!Init
<1>2. IInv /\ [Next]_vars => [Abstract!Next]_<<UnderWay, received, open>>
  <2> SUFFICES ASSUME IInv, [Next]_vars
               PROVE  [Abstract!Next]_<<UnderWay, received, open>>
    OBVIOUS
  <2>1. ASSUME NEW t \in Threads, NEW m \in Messages, Begin(t, m)
        PROVE  [Abstract!Next]_<<UnderWay, received, open>>
    BY <2>1, BeginSends
  <2>2. ASSUME NEW t \in Threads, NEW n, Transmit(t, n)
        PROVE  UNCHANGED <<UnderWay, received, open>>
    <3>1. UNCHANGED <<sent, received, open, buf>> /\ (open \/ wire' = wire)
      BY <2>2 DEF Transmit, receiver
    <3> QED BY <3>1, SameUnderWay DEF Afloat
  <2>3. ASSUME NEW t \in Threads, SendFails(t)
        PROVE  UNCHANGED <<UnderWay, received, open>>
    <3>1. UNCHANGED <<sent, received, open, buf, wire>>
      BY <2>3 DEF SendFails, receiver
    <3> QED BY <3>1, SameUnderWay DEF Afloat
  <2>4. ASSUME Receive
        PROVE  [Abstract!Next]_<<UnderWay, received, open>>
    BY <2>4, RecvReceives, EndOfStreamStutters DEF Receive
  <2>5. ASSUME NEW n, Cut(n)
        PROVE  [Abstract!Next]_<<UnderWay, received, open>>
    BY <2>5, CutLoses
  <2>6. CASE UNCHANGED vars
    <3>1. UNCHANGED <<sent, received, open, buf, wire>>
      BY <2>6 DEF vars
    <3> QED BY <3>1, SameUnderWay DEF Afloat
  <2> QED BY <2>1, <2>2, <2>3, <2>4, <2>5, <2>6 DEF Next, Send
<1> QED BY <1>1, <1>2, InitIInv, NextIInv, PTL DEF Spec, ChannelSpec, Abstract!Spec

=============================================================================
