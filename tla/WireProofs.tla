----------------------------- MODULE WireProofs -----------------------------
(***************************************************************************)
(* Theorems about Stream, Codec and Wire.                                  *)
(*                                                                         *)
(* - The stream delivers what was sent, in order, and implements Fifo: for *)
(*   every format that round-trips, every number of senders and packets    *)
(*   and every way of cutting the bytes into pieces.                       *)
(* - The format round-trips: what the one program writes of a packet the   *)
(*   other reads to its last byte, for every value of every packet type.   *)
(*   From the shapes of Codec upwards, the bytes e MEAN x to a format when *)
(*   it reads x wherever e stands in a buffer, and not a byte more; a      *)
(*   format is SOUND when what it writes of a value means that value.      *)
(* - Therefore the stream between the two programs is a queue of packets.  *)
(***************************************************************************)
EXTENDS Wire, WellFoundedInduction, SequenceTheorems, TLAPS

-----------------------------------------------------------------------------
(* The stream, for every format that round-trips.                          *)

\* Equal elements make equal parts of two sequences.
LEMMA EqualParts ==
  ASSUME NEW b \in Seq(Byte), NEW f \in Seq(Byte), NEW a \in Nat, NEW m \in Nat, NEW n \in Nat,
         m >= 1, a + n <= Len(b), n <= Len(f),
         \A j \in m..n : b[a + j] = f[j]
  PROVE  SubSeq(b, a + m, a + n) = SubSeq(f, m, n)
<1> DEFINE x == SubSeq(b, a + m, a + n)
           y == SubSeq(f, m, n)
<1>1. CASE m > n
  BY <1>1
<1>2. CASE m <= n
  <2>1. x \in Seq(Byte) /\ y \in Seq(Byte) /\ Len(x) = n - m + 1 /\ Len(y) = n - m + 1
    BY <1>2
  <2>2. ASSUME NEW i \in 1..(n - m + 1) PROVE x[i] = y[i]
    <3>1. x[i] = b[a + m + i - 1] /\ y[i] = f[m + i - 1]
      BY <1>2, <2>2, SMTT(20)
    <3>2. m + i - 1 \in m..n
      BY <1>2, <2>2
    <3> QED
      BY <3>1, <3>2
  <2> HIDE DEF x, y
  <2>3. x = y
    BY <2>1, <2>2
  <2> QED
    BY <2>3 DEF x, y
<1> QED
  BY <1>1, <1>2

LEMMA EqualHeaders ==
  ASSUME NEW b \in Seq(Byte), NEW f \in Seq(Byte), NEW a \in Nat,
         a + 8 <= Len(b), Len(f) >= 8,
         \A j \in 1..8 : b[a + j] = f[j]
  PROVE  SubSeq(b, a + 1, a + 8) = SubSeq(f, 1, 8)
<1>1. \A m, n \in Nat : m = 1 /\ n = 8 => SubSeq(b, a + m, a + n) = SubSeq(f, m, n)
  <2> TAKE m, n \in Nat
  <2> HAVE m = 1 /\ n = 8
  <2> QED
    BY EqualParts
<1> QED
  BY <1>1

LEMMA EqualPayloads ==
  ASSUME NEW b \in Seq(Byte), NEW f \in Seq(Byte), NEW a \in Nat,
         a + Len(f) <= Len(b),
         \A j \in 9..Len(f) : b[a + j] = f[j]
  PROVE  SubSeq(b, a + 9, a + Len(f)) = SubSeq(f, 9, Len(f))
<1>1. Len(f) \in Nat
  OBVIOUS
<1>2. \A m, n \in Nat : m = 9 /\ n = Len(f) => SubSeq(b, a + m, a + n) = SubSeq(f, m, n)
  <2> TAKE m, n \in Nat
  <2> HAVE m = 9 /\ n = Len(f)
  <2>1. m >= 1 /\ a + n <= Len(b) /\ n <= Len(f) /\ \A j \in m..n : b[a + j] = f[j]
    BY <1>1
  <2> QED
    BY <2>1, EqualParts
<1> QED
  BY <1>1, <1>2

\* What RoundTrip says of one packet.
LEMMA FrameFacts ==
  ASSUME RoundTrip, NEW d \in Dirs, NEW p \in Packets(d)
  PROVE  /\ Frame(d, p) \in Seq(Byte)
         /\ Len(Frame(d, p)) \in Nat
         /\ Len(Frame(d, p)) >= 8
         /\ Size(d, SubSeq(Frame(d, p), 1, 8)) = Len(Frame(d, p)) - 8
         /\ Decode(d, SubSeq(Frame(d, p), 9, Len(Frame(d, p)))).st = "ok"
         /\ Decode(d, SubSeq(Frame(d, p), 9, Len(Frame(d, p)))).v = View(d, p)
BY DEF RoundTrip, HeaderSize

LEMMA LengthFacts ==
  ASSUME RoundTrip, TypeOK, NEW i \in DOMAIN sent
  PROVE  /\ Frame(dir, sent[i]) \in Seq(Byte)
         /\ Length(i) \in Nat
         /\ Length(i) >= 8
<1>1. dir \in Dirs /\ sent[i] \in Packets(dir)
  BY DEF TypeOK
<1> QED
  BY <1>1, FrameFacts DEF Length

LEMMA EndFacts ==
  ASSUME RoundTrip, TypeOK, Len(starts) = Len(sent)
  PROVE  /\ End \in Nat
         /\ sent # <<>> => /\ Len(sent) \in DOMAIN sent
                           /\ End = starts[Len(sent)] + Length(Len(sent))
                           /\ starts[Len(sent)] \in Nat
<1>1. CASE sent = <<>>
  BY <1>1 DEF End
<1>2. CASE sent # <<>>
  <2>1. Len(sent) \in DOMAIN sent /\ Len(sent) \in DOMAIN starts
    BY <1>2 DEF TypeOK
  <2>2. starts[Len(sent)] \in Nat
    BY <2>1 DEF TypeOK
  <2>3. Length(Len(sent)) \in Nat
    BY <2>1, LengthFacts
  <2> QED
    BY <1>2, <2>1, <2>2, <2>3 DEF End
<1> QED
  BY <1>1, <1>2

-----------------------------------------------------------------------------
LEMMA InitInv == Init => StreamInv
<1> SUFFICES ASSUME Init PROVE StreamInv
  OBVIOUS
<1> USE DEF Init
<1>1. TypeOK
  BY DEF TypeOK
<1>2. Ordered /\ Intact /\ Exclusive /\ Complete
  BY DEF Ordered, Intact, Exclusive, Complete, End
<1>3. Faithful /\ Aligned
  BY DEF Faithful, Aligned
<1> QED
  BY <1>1, <1>2, <1>3 DEF StreamInv

-----------------------------------------------------------------------------
\* A new frame starts where the bytes end: the mutex was free.
LEMMA AcquireInv ==
  ASSUME RoundTrip, StreamInv, NEW s \in Senders, NEW p \in Packets(dir), Acquire(s, p)
  PROVE  StreamInv'
<1>0. PICK n \in Nat : n = Len(sent)
  BY DEF StreamInv, TypeOK
<1> DEFINE f == Frame(dir, p)
<1> USE DEF Acquire, reading
<1>1. TypeOK /\ Ordered /\ Intact /\ Exclusive /\ Complete /\ Faithful /\ Aligned
  BY DEF StreamInv
<1>2. dir \in Dirs /\ f \in Seq(Byte) /\ Len(f) \in Nat /\ Len(f) >= 8 /\ Len(bytes) \in Nat
  BY <1>1, FrameFacts DEF TypeOK
<1>3. /\ n \in Nat /\ Len(starts) = n /\ Len(bytes) = End
      /\ sent' = Append(sent, p) /\ Len(sent') = n + 1 /\ sent'[n + 1] = p
      /\ starts' = Append(starts, Len(bytes)) /\ Len(starts') = n + 1
      /\ starts'[n + 1] = Len(bytes)
      /\ \A i \in 1..n : sent'[i] = sent[i] /\ starts'[i] = starts[i]
      /\ Len(sent') \in Nat /\ DOMAIN sent = 1..n /\ DOMAIN starts = 1..n
      /\ DOMAIN sent' = 1..(n + 1)
  BY <1>0, <1>1, SMTT(20) DEF Exclusive, Ordered, TypeOK
<1>11. \A i \in 1..n : starts[i] \in Nat
  <2>1. starts \in Seq(Nat)
    BY <1>1 DEF TypeOK
  <2>2. DOMAIN starts = 1..n
    BY <1>3
  <2> QED
    BY <2>1, <2>2
<1>4. TypeOK'
  <2>1. left' \in [Senders -> Seq(Byte)] /\ sent' \in Seq(Packets(dir)) /\ starts' \in Seq(Nat)
    BY <1>1, <1>2, <1>3 DEF TypeOK
  <2> QED
    BY <1>1, <2>1 DEF TypeOK
<1>5. Length(n + 1)' = Len(f) /\ End' = Len(bytes) + Len(f)
  <2>1. sent' # <<>>
    BY <1>3
  <2>2. Length(n + 1)' = Len(f)
    BY <1>3 DEF Length
  <2>3. End' = starts'[Len(sent')] + Len(Frame(dir', sent'[Len(sent')]))
    BY <2>1 DEF End, Length
  <2> QED
    BY <1>3, <2>2, <2>3
<1>6. \A i \in 1..n : Length(i)' = Length(i)
  BY <1>3 DEF Length
<1>7. Ordered'
  <2>1. starts'[1] = 0
    <3>1. CASE n = 0
      BY <1>0, <1>1, <1>3, <3>1 DEF End
    <3>2. CASE n > 0
      BY <1>0, <1>1, <1>3, <3>2 DEF Ordered
    <3> QED
      BY <1>3, <3>1, <3>2
  <2>2. ASSUME NEW i \in 1..n PROVE starts'[i + 1] = starts'[i] + Length(i)'
    <3>1. CASE i < n
      BY <1>0, <1>1, <1>3, <1>6, <3>1 DEF Ordered
    <3>2. CASE i = n
      <4>1. End = starts[n] + Length(n)
        BY <1>0, <1>1, <1>3, <3>2, EndFacts
      <4> QED
        BY <1>3, <1>6, <3>2, <4>1
    <3> QED
      BY <1>3, <3>1, <3>2
  <2>3. Len(bytes) <= End'
    BY <1>2, <1>5
  <2>4. ASSUME NEW i \in 1..(n + 1), NEW j \in 1..(n + 1), i < j
        PROVE  starts'[i] + Length(i)' <= starts'[j]
    <3>4. i \in 1..n
      BY <1>3, <2>4
    <3>5. starts[i] \in Nat
      BY <1>11, <3>4
    <3>0. i \in DOMAIN sent /\ starts[i] \in Nat /\ Length(i) \in Nat
      BY <1>1, <1>3, <3>4, <3>5, LengthFacts
    <3>1. CASE j <= n
      <4>1. j \in 1..n /\ starts[i] + Length(i) <= starts[j]
        <5>1. i \in DOMAIN sent /\ j \in DOMAIN sent /\ j \in 1..n
          BY <1>3, <3>1, <3>4
        <5> QED
          BY <1>1, <2>4, <5>1 DEF Ordered
      <4> QED
        BY <1>3, <1>6, <3>4, <4>1
    <3>2. CASE j = n + 1 /\ i = n
      BY <1>3, <2>2, <3>2
    <3>3. CASE j = n + 1 /\ i < n
      <4>1. starts[i] + Length(i) <= starts[n]
        BY <1>0, <1>1, <1>3, <3>0, <3>3 DEF Ordered
      <4>2. starts[n] <= Len(bytes) /\ starts[n] \in Nat
        <5>1. sent # <<>> /\ n \in 1..n
          BY <1>3, <3>4
        <5>2. starts[n] \in Nat
          BY <1>11, <5>1
        <5> QED
          BY <1>0, <1>1, <5>1, <5>2 DEF Ordered
      <4> QED
        BY <1>2, <1>3, <1>6, <3>0, <3>3, <4>1, <4>2
    <3> QED
      BY <1>3, <2>4, <3>1, <3>2, <3>3
  <2> QED
    BY <1>2, <1>3, <2>1, <2>2, <2>3, <2>4 DEF Ordered
<1>8. Intact'
  <2> SUFFICES ASSUME NEW i \in 1..(n + 1), NEW j \in 1..Length(i)',
                      starts'[i] + j <= Len(bytes)
               PROVE  bytes[starts'[i] + j] = Frame(dir, sent'[i])[j]
    BY <1>3 DEF Intact
  <2>1. CASE i <= n
    BY <1>0, <1>1, <1>3, <1>6, <2>1 DEF Intact
  <2>2. CASE i = n + 1
    BY <1>2, <1>3, <1>5, <2>2
  <2> QED
    BY <1>3, <2>1, <2>2
<1>9. Exclusive'
  <2>1. left'[s] = f /\ \A t \in Senders : t # s => left'[t] = <<>>
    BY <1>1, NobodyAssumption DEF Exclusive, TypeOK
  <2>2. f = SubSeq(f, 1, Len(f))
    BY <1>2
  <2>3. Len(bytes) < End' /\ Len(bytes) - starts'[n + 1] + 1 = 1
    BY <1>2, <1>3, <1>5
  <2>4. holder' = s /\ s # Nobody /\ sent' # <<>>
    BY <1>3, NobodyAssumption
  <2> HIDE DEF f
  <2>5. left'[s] = SubSeq(Frame(dir, sent'[n + 1]),
                          Len(bytes) - starts'[n + 1] + 1, Length(n + 1)')
    BY <1>3, <1>5, <2>1, <2>2, <2>3 DEF f
  <2>6. UNCHANGED <<dir, bytes, open>>
    OBVIOUS
  <2> QED
    BY <1>3, <2>1, <2>3, <2>4, <2>5, <2>6 DEF Exclusive
<1>10. Complete' /\ Faithful' /\ Aligned'
  <2>1. Len(delivered) \in Nat /\ Len(delivered) <= n
    BY <1>0, <1>1 DEF Faithful, TypeOK
  <2>2. Complete'
    BY <1>3, <2>1 DEF Complete
  <2>3. Faithful'
    <3>1. DOMAIN delivered = 1..Len(delivered)
      BY <1>1 DEF TypeOK
    <3> QED
      BY <1>0, <1>1, <1>3, <2>1, <3>1 DEF Faithful
  <2>4. ASSUME reader \in {"head", "handle"}
        PROVE  pos = IF Len(delivered) < n + 1 THEN starts'[Len(delivered) + 1] ELSE Len(bytes)
    BY <1>0, <1>1, <1>3, <2>1, <2>4 DEF Aligned
  <2>5. ASSUME reader = "body"
        PROVE  /\ Len(delivered) < n + 1
               /\ pos = starts'[Len(delivered) + 1] + HeaderSize
               /\ size = Length(Len(delivered) + 1)' - HeaderSize
    BY <1>0, <1>1, <1>3, <1>6, <2>1, <2>5 DEF Aligned
  <2>6. Aligned'
    BY <1>3, <2>1, <2>4, <2>5 DEF Aligned
  <2> QED
    BY <2>2, <2>3, <2>6
<1> QED
  BY <1>4, <1>7, <1>8, <1>9, <1>10 DEF StreamInv

\* What is handed over continues the last frame, and only that.
LEMMA HandOverInv ==
  ASSUME RoundTrip, StreamInv, NEW s \in Senders, HandOver(s)
  PROVE  StreamInv'
<1>1. TypeOK /\ Ordered /\ Intact /\ Exclusive /\ Complete /\ Faithful /\ Aligned
  BY DEF StreamInv
<1> DEFINE n == Len(sent)
           f == Frame(dir, sent[n])
           done == Len(bytes) - starts[n]
           rest == left[s]
<1>2. holder = s /\ holder # Nobody /\ sent # <<>> /\ Len(bytes) < End
  BY <1>1, NobodyAssumption DEF Exclusive, HandOver
<1>3. /\ n \in DOMAIN sent /\ n \in Nat /\ n >= 1 /\ starts[n] \in Nat /\ Len(bytes) \in Nat
      /\ starts[n] <= Len(bytes) /\ End = starts[n] + Length(n) /\ Len(starts) = n
      /\ f \in Seq(Byte) /\ Length(n) = Len(f) /\ Len(f) \in Nat
  BY <1>1, <1>2, EndFacts, LengthFacts DEF Ordered, TypeOK, Length
<1>4. done \in Nat /\ done < Len(f) /\ rest = SubSeq(f, done + 1, Len(f))
  BY <1>1, <1>2, <1>3 DEF Exclusive
<1>5. /\ rest \in Seq(Byte) /\ Len(rest) = Len(f) - done
      /\ \A j \in 1..(Len(f) - done) : rest[j] = f[done + j]
  <2> HIDE DEF rest, f, done
  <2>1. done + 1 \in 1..Len(f) /\ Len(f) - (done + 1) + 1 = Len(f) - done
    BY <1>3, <1>4
  <2>2. /\ SubSeq(f, done + 1, Len(f)) \in Seq(Byte)
        /\ Len(SubSeq(f, done + 1, Len(f))) = Len(f) - done
    BY <1>3, <1>4, <2>1
  <2>3. ASSUME NEW j \in 1..(Len(f) - done) PROVE SubSeq(f, done + 1, Len(f))[j] = f[done + j]
    BY <1>3, <1>4, <2>1, <2>3
  <2> QED
    BY <1>4, <2>2, <2>3
<1> HIDE DEF rest, f, done
<1>6. PICK k \in 1..Len(rest) :
        /\ bytes' = bytes \o SubSeq(rest, 1, k)
        /\ left' = [left EXCEPT ![s] = SubSeq(rest, k + 1, Len(rest))]
        /\ holder' = IF k = Len(rest) THEN Nobody ELSE holder
  <2>1. Len(rest) \in Nat /\ Len(rest) >= 1
    BY <1>3, <1>4, <1>5
  <2>2. PICK k \in {Len(left[s])} \cup (Pieces(Len(left[s])) \cap 1..Len(left[s])) :
          /\ bytes' = bytes \o SubSeq(left[s], 1, k)
          /\ left' = [left EXCEPT ![s] = SubSeq(left[s], k + 1, Len(left[s]))]
          /\ holder' = IF k = Len(left[s]) THEN Nobody ELSE holder
    BY DEF HandOver
  <2>3. k \in 1..Len(rest)
    BY <2>1, <2>2 DEF rest
  <2> QED
    BY <2>2, <2>3 DEF rest
<1>7. UNCHANGED <<dir, open, sent, starts, reader, pos, size, delivered>>
  BY DEF HandOver, reading
<1>8. /\ bytes' \in Seq(Byte) /\ Len(bytes') = Len(bytes) + k /\ Len(bytes') \in Nat
      /\ \A j \in 1..Len(bytes) : bytes'[j] = bytes[j]
      /\ \A j \in 1..k : bytes'[Len(bytes) + j] = f[done + j]
  <2> DEFINE piece == SubSeq(rest, 1, k)
  <2>1. piece \in Seq(Byte) /\ Len(piece) = k /\ \A j \in 1..k : piece[j] = rest[j]
    BY <1>5, <1>6
  <2>2. bytes \in Seq(Byte)
    BY <1>1 DEF TypeOK
  <2>3. \A j \in 1..k : rest[j] = f[done + j]
    BY <1>3, <1>4, <1>5, <1>6, SMTT(20)
  <2> HIDE DEF piece
  <2>4. bytes' = bytes \o piece
    BY <1>6 DEF piece
  <2>5. /\ bytes' \in Seq(Byte) /\ Len(bytes') = Len(bytes) + k
        /\ \A j \in 1..Len(bytes) : bytes'[j] = bytes[j]
        /\ \A j \in 1..k : bytes'[Len(bytes) + j] = piece[j]
    BY <1>6, <2>1, <2>2, <2>4
  <2> QED
    BY <1>3, <1>6, <2>1, <2>3, <2>5, SMTT(20)
<1>16. /\ Len(bytes) = starts[n] + done /\ Len(f) = done + Len(rest) /\ k \in Nat
       /\ Len(rest) \in Nat /\ done \in Nat /\ Len(bytes') = starts[n] + done + k
       /\ End = starts[n] + done + Len(rest) /\ k <= Len(rest)
  <2>1. Len(bytes) = starts[n] + done
    BY <1>3 DEF done
  <2>2. Len(f) = done + Len(rest) /\ Len(rest) \in Nat
    BY <1>3, <1>4, <1>5
  <2>3. k \in Nat /\ k <= Len(rest) /\ done \in Nat
    BY <1>4, <1>6, <2>2
  <2>4. Len(bytes') = starts[n] + done + k
    BY <1>8, <2>1
  <2>5. End = starts[n] + done + Len(rest)
    BY <1>3, <2>2, <2>3
  <2> QED
    BY <2>1, <2>2, <2>3, <2>4, <2>5
<1>9. TypeOK'
  <2>1. SubSeq(rest, k + 1, Len(rest)) \in Seq(Byte)
    BY <1>5, <1>6
  <2>2. left' \in [Senders -> Seq(Byte)]
    BY <1>1, <1>6, <2>1 DEF TypeOK
  <2>3. holder' \in Senders \cup {Nobody}
    BY <1>2, <1>6
  <2>4. pos \in 0..Len(bytes')
    BY <1>1, <1>3, <1>6, <1>8 DEF TypeOK
  <2> QED
    BY <1>1, <1>7, <1>8, <2>2, <2>3, <2>4 DEF TypeOK
<1>10. End' = End /\ (\A i : Length(i)' = Length(i)) /\ Len(bytes') <= End
  <2>1. \A i : Length(i)' = Length(i)
    BY <1>7 DEF Length
  <2>2. End' = End
    BY <1>7, <2>1 DEF End
  <2>3. Len(bytes') <= End
    BY <1>3, <1>4, <1>5, <1>6, <1>8, SMTT(20) DEF done
  <2> QED
    BY <2>1, <2>2, <2>3
<1>11. Ordered'
  BY <1>1, <1>3, <1>6, <1>7, <1>8, <1>10, SMTT(20) DEF Ordered
<1>12. Intact'
  <2> SUFFICES ASSUME NEW i \in 1..n, NEW j \in 1..Length(i), starts[i] + j <= Len(bytes')
               PROVE  bytes'[starts[i] + j] = Frame(dir, sent[i])[j]
    BY <1>3, <1>7, <1>10 DEF Intact
  <2>4. i \in DOMAIN sent /\ i \in DOMAIN starts
    BY <1>1, <1>3 DEF TypeOK
  <2>5. starts[i] \in Nat
    BY <1>1, <2>4, SMTT(20) DEF TypeOK
  <2>0. starts[i] \in Nat /\ Length(i) \in Nat /\ i \in DOMAIN sent
    BY <1>1, <2>4, <2>5, LengthFacts
  <2>1. CASE starts[i] + j <= Len(bytes)
    <3>1. starts[i] + j \in 1..Len(bytes)
      BY <1>3, <2>0, <2>1
    <3> QED
      BY <1>1, <1>8, <2>0, <2>1, <3>1 DEF Intact
  <2>2. CASE starts[i] + j > Len(bytes) /\ i = n
    <3>1. starts[n] + j - Len(bytes) \in 1..k
      BY <1>3, <1>8, <2>0, <2>2, SMTT(20)
    <3>2. bytes'[Len(bytes) + (starts[n] + j - Len(bytes))] = f[done + (starts[n] + j - Len(bytes))]
      BY <1>8, <3>1
    <3>3. Len(bytes) + (starts[n] + j - Len(bytes)) = starts[n] + j
      BY <1>3
    <3>4. done + (starts[n] + j - Len(bytes)) = j
      BY <1>3 DEF done
    <3> QED
      BY <2>2, <3>2, <3>3, <3>4 DEF f
  <2>3. CASE starts[i] + j > Len(bytes) /\ i < n
    <3>1. starts[i] + Length(i) <= starts[n]
      BY <1>1, <1>3, <2>0, <2>3 DEF Ordered
    <3> QED
      BY <1>3, <2>0, <2>3, <3>1, SMTT(20)
  <2> QED
    BY <1>3, <2>0, <2>1, <2>2, <2>3
<1>13. Exclusive'
  <2>1. \A t \in Senders : t # s => left'[t] = <<>>
    BY <1>1, <1>2, <1>6 DEF Exclusive, TypeOK
  <2>2. left'[s] = SubSeq(rest, k + 1, Len(rest))
    BY <1>1, <1>6 DEF TypeOK
  <2>3. CASE k = Len(rest)
    <3>1. holder' = Nobody /\ left'[s] = <<>>
      BY <1>5, <1>6, <2>2, <2>3
    <3>2. Len(bytes') = End
      BY <1>3, <1>16, <2>3
    <3> QED
      BY <1>10, <2>1, <3>1, <3>2 DEF Exclusive
  <2>4. CASE k < Len(rest)
    <3>1. holder' = s /\ Len(bytes') < End
      BY <1>2, <1>3, <1>6, <1>16, <2>4
    <3>2. Len(bytes') - starts[n] + 1 = done + k + 1
      BY <1>3, <1>8, <1>6 DEF done
    <3>3. \A j \in (k + 1)..Len(rest) : f[done + j] = rest[j]
      BY <1>5, <1>6, <1>3, <1>4
    <3>4. SubSeq(f, done + (k + 1), done + Len(rest)) = SubSeq(rest, k + 1, Len(rest))
      <4>1. Len(rest) \in Nat /\ done \in Nat /\ k + 1 \in Nat /\ k + 1 >= 1
        BY <1>3, <1>4, <1>5, <1>6
      <4>2. done + Len(rest) <= Len(f)
        BY <1>3, <1>4, <1>5
      <4> QED
        BY <1>3, <1>5, <3>3, <4>1, <4>2, EqualParts
    <3>5. left'[s] = SubSeq(f, done + k + 1, Len(f))
      <4>1. done + (k + 1) = done + k + 1 /\ done + Len(rest) = Len(f)
        BY <1>16
      <4> QED
        BY <2>2, <3>4, <4>1
    <3>6. left'[s] = SubSeq(Frame(dir, sent[n]), Len(bytes') - starts[n] + 1, Length(n))
      BY <1>3, <3>2, <3>5 DEF f
    <3> QED
      BY <1>2, <1>7, <1>10, <2>1, <3>1, <3>6 DEF Exclusive
  <2> QED
    BY <1>3, <1>4, <1>5, <1>6, <2>3, <2>4
<1>14. Len(delivered) \in Nat /\ Len(delivered) < n
  BY <1>1, <1>2, <1>3, SMTT(20) DEF Complete, Faithful, TypeOK
<1>15. Complete' /\ Faithful' /\ Aligned'
  <2>1. Complete'
    BY <1>3, <1>7, <1>14 DEF Complete
  <2>2. Faithful'
    BY <1>1, <1>7 DEF Faithful
  <2>3. Aligned'
    BY <1>1, <1>7, <1>10, <1>14 DEF Aligned
  <2> QED
    BY <2>1, <2>2, <2>3
<1> QED
  BY <1>9, <1>11, <1>12, <1>13, <1>15 DEF StreamInv

-----------------------------------------------------------------------------
\* A send that fails leaves a frame without its end, and no frame follows it.
LEMMA SendFailsInv ==
  ASSUME RoundTrip, StreamInv, NEW s \in Senders, SendFails(s)
  PROVE  StreamInv'
<1>1. TypeOK /\ Ordered /\ Intact /\ Exclusive /\ Complete /\ Faithful /\ Aligned
  BY DEF StreamInv
<1>2. UNCHANGED <<dir, bytes, open, sent, starts, reader, pos, size, delivered>>
  BY DEF SendFails, reading
<1>3. (\A i : Length(i)' = Length(i)) /\ End' = End
  BY <1>2 DEF Length, End
<1>4. TypeOK'
  <2>1. left' \in [Senders -> Seq(Byte)] /\ holder' = Nobody
    BY <1>1 DEF SendFails, TypeOK
  <2> QED
    BY <1>1, <1>2, <2>1 DEF TypeOK
<1>5. Exclusive'
  <2>1. holder' = Nobody /\ ~open' /\ \A t \in Senders : left'[t] = <<>>
    BY <1>1, NobodyAssumption DEF SendFails, TypeOK, Exclusive
  <2> QED
    BY <2>1, NobodyAssumption DEF Exclusive
<1>6. Ordered' /\ Complete'
  BY <1>1, <1>2, <1>3 DEF Ordered, Complete
<1>7. Intact'
  BY <1>1, <1>2, <1>3 DEF Intact
<1>8. Faithful' /\ Aligned'
  BY <1>1, <1>2, <1>3 DEF Faithful, Aligned
<1> QED
  BY <1>4, <1>5, <1>6, <1>7, <1>8 DEF StreamInv

\* The sending side is not touched by what only the reader changes, but for the
\* connection, which may close.
LEMMA SendingKept ==
  ASSUME RoundTrip, StreamInv, UNCHANGED <<dir, sending>>, open' => open
  PROVE  /\ Ordered' /\ Intact' /\ Exclusive' /\ End' = End
         /\ \A i : Length(i)' = Length(i)
<1>1. Ordered /\ Intact /\ Exclusive
  BY DEF StreamInv
<1>2. UNCHANGED <<dir, holder, left, bytes, sent, starts>>
  BY DEF sending
<1>3. (\A i : Length(i)' = Length(i)) /\ End' = End
  BY <1>2 DEF Length, End
<1>4. Ordered'
  BY <1>1, <1>2, <1>3 DEF Ordered
<1>5. Intact'
  BY <1>1, <1>2, <1>3 DEF Intact
<1>6. Exclusive'
  BY <1>1, <1>2, <1>3 DEF Exclusive
<1> QED
  BY <1>3, <1>4, <1>5, <1>6

\* What the reader finds behind its position is the next frame.
LEMMA NextFrame ==
  ASSUME RoundTrip, StreamInv, reader \in {"head", "body"}, Available >= 0,
         reader = "head" => Available >= HeaderSize,
         NEW m, m = Len(delivered) + 1
  PROVE  /\ m \in DOMAIN sent /\ m \in Nat /\ m >= 1
         /\ starts[m] \in Nat /\ Length(m) \in Nat /\ Length(m) >= 8
         /\ Frame(dir, sent[m]) \in Seq(Byte)
         /\ pos = starts[m] + (IF reader = "head" THEN 0 ELSE 8)
         /\ \A j \in 1..Length(m) :
              starts[m] + j <= Len(bytes) => bytes[starts[m] + j] = Frame(dir, sent[m])[j]
<1>1. TypeOK /\ Ordered /\ Intact /\ Faithful /\ Aligned
  BY DEF StreamInv
<1>2. Len(delivered) \in Nat /\ Len(sent) \in Nat /\ Len(bytes) \in Nat /\ pos \in Nat
  BY <1>1 DEF TypeOK
<1>3. Len(delivered) < Len(sent)
  BY <1>1, <1>2 DEF Aligned, Available, HeaderSize, Faithful
<1>4. m \in DOMAIN sent /\ m \in DOMAIN starts /\ m \in Nat /\ m >= 1
  BY <1>1, <1>2, <1>3 DEF TypeOK, Ordered
<1>5. starts[m] \in Nat /\ Length(m) \in Nat /\ Length(m) >= 8 /\ Frame(dir, sent[m]) \in Seq(Byte)
  BY <1>1, <1>4, LengthFacts DEF TypeOK
<1>6. pos = starts[m] + (IF reader = "head" THEN 0 ELSE 8)
  BY <1>1, <1>3, <1>5 DEF Aligned, HeaderSize
<1> QED
  BY <1>1, <1>4, <1>5, <1>6 DEF Intact

LEMMA ReadHeaderInv ==
  ASSUME RoundTrip, StreamInv, ReadHeader
  PROVE  StreamInv'
<1>12. PICK m : m = Len(delivered) + 1
  OBVIOUS
<1>13. PICK f : f = Frame(dir, sent[m])
  OBVIOUS
<1>1. TypeOK /\ Complete /\ Faithful /\ Aligned
  BY DEF StreamInv
<1>2. /\ reader = "head" /\ Available >= HeaderSize /\ pos' = pos + 8
      /\ size' = Size(dir, SubSeq(bytes, pos + 1, pos + 8))
      /\ reader' \in {"body", "refused"} /\ (open' => open) /\ open' \in BOOLEAN
      /\ UNCHANGED <<dir, sending, delivered>>
  BY <1>1 DEF ReadHeader, HeaderSize, TypeOK
<1>3. UNCHANGED <<holder, left, bytes, sent, starts>>
  BY <1>2 DEF sending
<1>4. /\ m \in DOMAIN sent /\ m \in Nat /\ m >= 1
      /\ starts[m] \in Nat /\ Length(m) \in Nat /\ Length(m) >= 8
      /\ f \in Seq(Byte) /\ pos = starts[m]
      /\ \A j \in 1..Length(m) : starts[m] + j <= Len(bytes) => bytes[starts[m] + j] = f[j]
  <2>1. Available >= 0
    BY <1>1, <1>2 DEF HeaderSize, Available, TypeOK
  <2> QED
    BY <1>2, <1>12, <1>13, <2>1, NextFrame
<1>5. pos + 8 <= Len(bytes) /\ Len(bytes) \in Nat /\ bytes \in Seq(Byte)
  <2>1. Len(bytes) \in Nat /\ bytes \in Seq(Byte) /\ pos \in Nat
    BY <1>1 DEF TypeOK
  <2> QED
    BY <1>2, <2>1 DEF Available, HeaderSize
<1>6. SubSeq(bytes, pos + 1, pos + 8) = SubSeq(f, 1, 8)
  <2>1. \A j \in 1..8 : bytes[starts[m] + j] = f[j]
    BY <1>4, <1>5
  <2>2. Len(f) >= 8
    BY <1>4, <1>13 DEF Length
  <2>3. starts[m] + 8 <= Len(bytes)
    BY <1>4, <1>5
  <2>4. SubSeq(bytes, starts[m] + 1, starts[m] + 8) = SubSeq(f, 1, 8)
    <3>1. /\ starts[m] \in Nat /\ bytes \in Seq(Byte) /\ f \in Seq(Byte)
          /\ 1 \in Nat /\ 8 \in Nat /\ 1 >= 1
      BY <1>4, <1>5
    <3> QED
      BY <2>1, <2>2, <2>3, <3>1, EqualHeaders
  <2> QED
    BY <1>4, <2>4
<1>7. size' = Length(m) - 8
  <2>1. dir \in Dirs /\ sent[m] \in Packets(dir)
    BY <1>1, <1>4 DEF TypeOK
  <2> QED
    BY <1>2, <1>6, <1>13, <2>1, FrameFacts DEF Length
<1>8. Ordered' /\ Intact' /\ Exclusive' /\ End' = End /\ \A i : Length(i)' = Length(i)
  BY <1>2, SendingKept
<1>9. TypeOK'
  <2>1. size' \in Nat /\ pos' \in 0..Len(bytes)
    BY <1>2, <1>4, <1>5, <1>7
  <2> QED
    BY <1>1, <1>2, <1>3, <2>1 DEF TypeOK
<1>10. Complete' /\ Faithful'
  BY <1>1, <1>2, <1>3, <1>8 DEF Complete, Faithful
<1>11. Aligned'
  BY <1>1, <1>2, <1>3, <1>4, <1>7, <1>8, <1>12, SMTT(20) DEF Aligned, HeaderSize, TypeOK
<1> QED
  BY <1>8, <1>9, <1>10, <1>11 DEF StreamInv

\* What is decoded is the payload of the next frame.
LEMMA PayloadRead ==
  ASSUME RoundTrip, StreamInv, reader = "body", Available >= size,
         NEW m, m = Len(delivered) + 1
  PROVE  /\ m \in DOMAIN sent /\ m \in Nat /\ m >= 1
         /\ starts[m] \in Nat /\ Length(m) \in Nat
         /\ pos + size = starts[m] + Length(m) /\ pos + size <= Len(bytes)
         /\ Decode(dir, SubSeq(bytes, pos + 1, pos + size)).st = "ok"
         /\ Decode(dir, SubSeq(bytes, pos + 1, pos + size)).v = View(dir, sent[m])
<1> DEFINE f == Frame(dir, sent[m])
<1>1. TypeOK /\ Aligned
  BY DEF StreamInv
<1>2. size \in Nat /\ pos \in Nat /\ Len(bytes) \in Nat /\ bytes \in Seq(Byte)
  BY <1>1 DEF TypeOK
<1>3. /\ m \in DOMAIN sent /\ m \in Nat /\ m >= 1
      /\ starts[m] \in Nat /\ Length(m) \in Nat /\ Length(m) >= 8
      /\ f \in Seq(Byte) /\ pos = starts[m] + 8
      /\ \A j \in 1..Length(m) : starts[m] + j <= Len(bytes) => bytes[starts[m] + j] = f[j]
  <2>1. Available >= 0
    BY <1>2 DEF Available
  <2> QED
    BY <2>1, NextFrame
<1>4. size = Length(m) - 8 /\ pos + size = starts[m] + Length(m) /\ pos + size <= Len(bytes)
  <2>1. size = Length(m) - 8
    BY <1>1 DEF Aligned, HeaderSize
  <2>2. pos + size = starts[m] + Length(m)
    <3> HIDE DEF f
    <3> QED
      BY <1>3, <2>1
  <2>3. pos + size <= Len(bytes)
    BY <1>2 DEF Available
  <2> QED
    BY <2>1, <2>2, <2>3
<1>5. SubSeq(bytes, pos + 1, pos + size) = SubSeq(f, 9, Len(f))
  <2>1. Length(m) = Len(f)
    BY DEF Length
  <2> HIDE DEF f
  <2>2. /\ Len(f) \in Nat /\ starts[m] + Len(f) <= Len(bytes)
        /\ pos + 1 = starts[m] + 9 /\ pos + size = starts[m] + Len(f)
    BY <1>2, <1>3, <1>4, <2>1, SMTT(20)
  <2>5. starts[m] \in Nat /\ Len(bytes) \in Nat /\ bytes \in Seq(Byte) /\ f \in Seq(Byte)
    BY <1>2, <1>3
  <2>3. ASSUME NEW j \in 9..Len(f) PROVE bytes[starts[m] + j] = f[j]
    <3>1. starts[m] + j <= Len(bytes) /\ j \in 1..Len(f)
      BY <2>2, <2>5
    <3> QED
      BY <1>3, <2>1, <3>1
  <2>4. SubSeq(bytes, starts[m] + 9, starts[m] + Len(f)) = SubSeq(f, 9, Len(f))
    BY <2>2, <2>3, <2>5, EqualPayloads
  <2> QED
    BY <2>2, <2>4
<1>6. dir \in Dirs /\ sent[m] \in Packets(dir)
  BY <1>1, <1>3 DEF TypeOK
<1> QED
  BY <1>3, <1>4, <1>5, <1>6, FrameFacts

LEMMA ReadPayloadInv ==
  ASSUME RoundTrip, StreamInv, ReadPayload
  PROVE  StreamInv'
<1> DEFINE m == Len(delivered) + 1
<1>1. TypeOK /\ Ordered /\ Complete /\ Faithful /\ Aligned
  BY DEF StreamInv
<1>2. /\ m \in DOMAIN sent /\ m \in Nat /\ m >= 1
      /\ starts[m] \in Nat /\ Length(m) \in Nat
      /\ pos + size = starts[m] + Length(m) /\ pos + size <= Len(bytes)
      /\ Decode(dir, SubSeq(bytes, pos + 1, pos + size)).st = "ok"
      /\ Decode(dir, SubSeq(bytes, pos + 1, pos + size)).v = View(dir, sent[m])
  BY PayloadRead DEF ReadPayload
<1>3. /\ pos' = pos + size /\ reader' = "handle" /\ open' = open
      /\ delivered' = Append(delivered, View(dir, sent[m]))
      /\ UNCHANGED <<dir, sending, size>>
  BY <1>1, <1>2 DEF ReadPayload, TypeOK
<1>4. UNCHANGED <<holder, left, bytes, sent, starts>>
  BY <1>3 DEF sending
<1>5. Ordered' /\ Intact' /\ Exclusive' /\ End' = End /\ \A i : Length(i)' = Length(i)
  BY <1>3, SendingKept
<1>6. /\ View(dir, sent[m]) \in Views /\ delivered' \in Seq(Views) /\ Len(delivered') = m
      /\ Len(delivered) \in Nat /\ Len(sent) \in Nat /\ m <= Len(sent)
      /\ \A i \in 1..m : delivered'[i] = IF i < m THEN delivered[i] ELSE View(dir, sent[m])
  <2>1. View(dir, sent[m]) \in Views
    BY <1>1, <1>2 DEF TypeOK, Views
  <2>2. delivered \in Seq(Views) /\ Len(delivered) \in Nat /\ Len(sent) \in Nat
    BY <1>1 DEF TypeOK
  <2>3. m <= Len(sent)
    BY <1>2, <2>2
  <2> DEFINE v == View(dir, sent[m])
  <2> HIDE DEF v
  <2>4. ASSUME NEW d, d = Append(delivered, v), v \in Views
        PROVE  /\ d \in Seq(Views) /\ Len(d) = m
               /\ \A i \in 1..m : d[i] = IF i < m THEN delivered[i] ELSE v
    BY <2>2, <2>4
  <2> USE DEF v
  <2> QED
    BY <1>3, <2>1, <2>2, <2>3, <2>4
<1>7. TypeOK'
  <2>1. pos' \in 0..Len(bytes)
    BY <1>1, <1>2, <1>3 DEF TypeOK
  <2> QED
    BY <1>1, <1>3, <1>4, <1>6, <2>1 DEF TypeOK
<1>8. Faithful'
  BY <1>1, <1>3, <1>4, <1>6 DEF Faithful
<1>9. m = Len(sent) => Len(bytes) = End /\ pos' = End
  <2> SUFFICES ASSUME m = Len(sent) PROVE Len(bytes) = End /\ pos' = End
    OBVIOUS
  <2>1. End = starts[m] + Length(m) /\ Len(bytes) <= End /\ Len(bytes) \in Nat
    BY <1>1, <1>2, EndFacts DEF Ordered, TypeOK
  <2> QED
    BY <1>2, <1>3, <2>1
<1>10. Complete'
  BY <1>4, <1>5, <1>6, <1>9 DEF Complete
<1>11. Aligned'
  <2>1. CASE m = Len(sent)
    BY <1>3, <1>4, <1>6, <1>9, <2>1 DEF Aligned
  <2>2. CASE m < Len(sent)
    <3>1. starts[m + 1] = starts[m] + Length(m)
      BY <1>1, <1>2, <1>6, <2>2 DEF Ordered
    <3> QED
      BY <1>2, <1>3, <1>4, <1>6, <2>2, <3>1 DEF Aligned
  <2> QED
    BY <1>6, <2>1, <2>2
<1> QED
  BY <1>5, <1>7, <1>8, <1>10, <1>11 DEF StreamInv

\* A handler, whether it returns or panics, leaves the reader between two frames.
LEMMA HandlerInv ==
  ASSUME RoundTrip, StreamInv, HandlerReturns \/ HandlerPanics
  PROVE  StreamInv'
<1>1. TypeOK /\ Complete /\ Faithful /\ Aligned
  BY DEF StreamInv
<1>2. /\ UNCHANGED <<dir, sending, open, pos, size, delivered>>
      /\ reader = "handle" /\ reader' \in {"head", "died"}
  BY DEF HandlerReturns, HandlerPanics
<1>3. UNCHANGED <<holder, left, bytes, sent, starts>>
  BY <1>2 DEF sending
<1>4. Ordered' /\ Intact' /\ Exclusive' /\ End' = End /\ \A i : Length(i)' = Length(i)
  BY <1>2, SendingKept
<1>5. TypeOK'
  BY <1>1, <1>2, <1>3 DEF TypeOK
<1>6. Complete' /\ Faithful'
  BY <1>1, <1>2, <1>3, <1>4 DEF Complete, Faithful
<1>7. Aligned'
  BY <1>1, <1>2, <1>3, <1>4 DEF Aligned
<1> QED
  BY <1>4, <1>5, <1>6, <1>7 DEF StreamInv

\* A close, and a read that fails on it, move nothing.
LEMMA CloseInv ==
  ASSUME RoundTrip, StreamInv, ReadFails \/ Lose
  PROVE  StreamInv'
<1>1. TypeOK /\ Complete /\ Faithful /\ Aligned
  BY DEF StreamInv
<1>2. /\ UNCHANGED <<dir, sending, pos, size, delivered>> /\ (open' => open) /\ open' \in BOOLEAN
      /\ reader' = reader \/ reader' = "ended"
  <2>1. CASE ReadFails
    BY <1>1, <2>1 DEF ReadFails, TypeOK
  <2>2. CASE Lose
    BY <1>1, <2>2 DEF Lose, reading, TypeOK
  <2> QED
    BY <2>1, <2>2
<1>3. UNCHANGED <<holder, left, bytes, sent, starts>>
  BY <1>2 DEF sending
<1>4. Ordered' /\ Intact' /\ Exclusive' /\ End' = End /\ \A i : Length(i)' = Length(i)
  BY <1>2, SendingKept
<1>5. TypeOK'
  BY <1>1, <1>2, <1>3 DEF TypeOK
<1>6. Complete' /\ Faithful' /\ Aligned'
  BY <1>1, <1>2, <1>3, <1>4 DEF Complete, Faithful, Aligned
<1> QED
  BY <1>4, <1>5, <1>6 DEF StreamInv

LEMMA StutterInv ==
  ASSUME RoundTrip, StreamInv, UNCHANGED vars
  PROVE  StreamInv'
<1>1. TypeOK /\ Complete /\ Faithful /\ Aligned
  BY DEF StreamInv
<1>2. UNCHANGED <<dir, sending, open, reader, pos, size, delivered,
                  holder, left, bytes, sent, starts>>
  BY DEF vars, sending
<1>3. Ordered' /\ Intact' /\ Exclusive' /\ End' = End /\ \A i : Length(i)' = Length(i)
  BY <1>2, SendingKept
<1>4. TypeOK' /\ Complete' /\ Faithful' /\ Aligned'
  BY <1>1, <1>2, <1>3 DEF TypeOK, Complete, Faithful, Aligned
<1> QED
  BY <1>3, <1>4 DEF StreamInv

LEMMA StepInv == ASSUME RoundTrip, StreamInv, [Next]_vars PROVE StreamInv'
BY AcquireInv, HandOverInv, SendFailsInv, ReadHeaderInv, ReadPayloadInv, HandlerInv, CloseInv,
   StutterInv
   DEF Next

\* Whatever the senders' tasks and the reader do, and wherever the connection
\* breaks, the frames lie intact one behind the other in the stream and the
\* reader stands where one of them begins or behind its header.
THEOREM StreamCorrect == ASSUME RoundTrip PROVE Spec => []StreamInv
<1>1. Init => StreamInv
  BY InitInv
<1>2. StreamInv /\ [Next]_vars => StreamInv'
  BY StepInv
<1> QED
  BY <1>1, <1>2, PTL DEF Spec

\* The packet handlers see the packets that were sent, in order, without a gap.
THEOREM StreamFaithful == ASSUME RoundTrip PROVE Spec => []Faithful
<1>1. StreamInv => Faithful
  BY DEF StreamInv
<1> QED
  BY <1>1, StreamCorrect, PTL

\* Every variable keeps its type; no decoder fails, as no reader is in a state
\* that a failure leads to.
THEOREM StreamTypeCorrect == ASSUME RoundTrip PROVE Spec => []TypeOK
<1>1. StreamInv => TypeOK
  BY DEF StreamInv
<1> QED
  BY <1>1, StreamCorrect, PTL

-----------------------------------------------------------------------------
(* Stream implements Fifo: getting the mutex puts a packet into the queue,     *)
(* decoding it takes it out, and every other step is invisible.                *)

Shown == [i \in DOMAIN sent |-> View(dir, sent[i])]

LEMMA PutStep ==
  ASSUME StreamInv, NEW s \in Senders, NEW p \in Packets(dir), Acquire(s, p)
  PROVE  \E i \in Views : Queue!Put(i)
<1>1. TypeOK
  BY DEF StreamInv
<1>2. View(dir, p) \in Views
  BY <1>1 DEF TypeOK, Views
<1>3. sent' = Append(sent, p) /\ dir' = dir /\ delivered' = delivered
  BY DEF Acquire, reading
<1>4. Shown' = Append(Shown, View(dir, p))
  <2>1. sent \in Seq(Packets(dir))
    BY <1>1 DEF TypeOK
  <2>2. Shown \in Seq(Views) /\ Len(Shown) = Len(sent)
    BY <1>1, <2>1 DEF Shown, Views, TypeOK
  <2>3. DOMAIN Shown' = 1..(Len(sent) + 1)
    BY <1>3, <2>1 DEF Shown
  <2>4. ASSUME NEW i \in 1..(Len(sent) + 1) PROVE Shown'[i] = Append(Shown, View(dir, p))[i]
    BY <1>3, <2>1, <2>2, <2>4 DEF Shown
  <2>5. /\ Append(Shown, View(dir, p)) = [i \in 1..(Len(sent) + 1) |->
                                          Append(Shown, View(dir, p))[i]]
        /\ Shown' = [i \in 1..(Len(sent) + 1) |-> Shown'[i]]
    BY <1>3, <2>1, <2>2, <2>3 DEF Shown
  <2> HIDE DEF Shown
  <2> QED
    BY <2>4, <2>5
<1> QED
  BY <1>2, <1>3, <1>4 DEF Queue!Put, Shown

LEMMA TakeStep ==
  ASSUME RoundTrip, StreamInv, ReadPayload
  PROVE  Queue!Take
<1> DEFINE m == Len(delivered) + 1
<1>1. /\ m \in DOMAIN sent /\ m \in Nat
      /\ Decode(dir, SubSeq(bytes, pos + 1, pos + size)).st = "ok"
      /\ Decode(dir, SubSeq(bytes, pos + 1, pos + size)).v = View(dir, sent[m])
  BY PayloadRead DEF ReadPayload
<1>2. /\ delivered' = Append(delivered, View(dir, sent[m]))
      /\ dir' = dir /\ sent' = sent
  BY <1>1 DEF ReadPayload, sending
<1>3. Len(Shown) = Len(sent) /\ Len(sent) \in Nat /\ m <= Len(sent)
  BY <1>1 DEF StreamInv, TypeOK, Shown
<1>4. Len(delivered) < Len(Shown) /\ Shown[m] = View(dir, sent[m]) /\ Shown' = Shown
  BY <1>1, <1>2, <1>3 DEF Shown, StreamInv, TypeOK
<1> QED
  BY <1>2, <1>4 DEF Queue!Take, Shown

LEMMA QueueStep ==
  ASSUME RoundTrip, StreamInv, [Next]_vars
  PROVE  [Queue!Next]_(Queue!vars)
<1>1. ASSUME NEW s \in Senders, NEW p \in Packets(dir), Acquire(s, p)
      PROVE  Queue!Next
  BY <1>1, PutStep DEF Queue!Next
<1>2. CASE ReadPayload
  BY <1>2, TakeStep DEF Queue!Next
<1>3. ASSUME UNCHANGED <<dir, sent, delivered>> PROVE UNCHANGED Queue!vars
  BY <1>3 DEF Queue!vars
<1>4. ASSUME NEW s \in Senders, HandOver(s) \/ SendFails(s) PROVE UNCHANGED <<dir, sent, delivered>>
  BY <1>4 DEF HandOver, SendFails, reading
<1>6. CASE UNCHANGED vars
  BY <1>3, <1>6 DEF vars
<1>7. CASE \/ ReadHeader \/ HandlerReturns \/ HandlerPanics \/ ReadFails \/ Lose
           \/ \E s \in Senders : HandOver(s) \/ SendFails(s)
  <2>1. UNCHANGED <<dir, sent, delivered>>
    BY <1>4, <1>7 DEF ReadHeader, HandlerReturns, HandlerPanics, ReadFails, Lose, sending, reading
  <2> QED
    BY <1>3, <2>1
<1> QED
  BY <1>1, <1>2, <1>6, <1>7 DEF Next

\* The stream of a connection is a queue of packets, whatever the pieces in
\* which the bytes travel and whoever sends.
THEOREM StreamIsQueue == ASSUME RoundTrip PROVE Spec => IsQueue
<1>1. Init => Queue!Init
  BY DEF Init, Queue!Init
<1>2. StreamInv /\ [Next]_vars => [Queue!Next]_(Queue!vars)
  BY QueueStep
<1> QED
  BY <1>1, <1>2, StreamCorrect, PTL DEF Spec, IsQueue, Queue!Spec

-----------------------------------------------------------------------------
(* Codec: numbers in little-endian bytes.  What a function that is defined *)
(* by recursion over 0..n is follows from there being one and no other.    *)

LessThan == {p \in Nat \X Nat : p[1] < p[2]}

LEMMA LeastNumber ==
  ASSUME NEW T, T \subseteq Nat, T # {}
  PROVE  \E n \in T : \A m \in T : n <= m
<1>1. IsWellFoundedOn(LessThan, Nat)
  BY NatLessThanWellFounded DEF OpToRel, LessThan
<1>2. PICK n \in T : \A m \in T : <<m, n>> \notin LessThan
  BY <1>1, WFMin
<1>3. ASSUME NEW m \in T PROVE n <= m
  <2>1. m \in Nat /\ n \in Nat
    OBVIOUS
  <2>2. m < n => <<m, n>> \in LessThan
    BY <2>1 DEF LessThan
  <2> QED
    BY <1>2, <2>1, <2>2
<1> QED
  BY <1>2, <1>3

\* The form in which it is used: what holds at 0 and is passed on holds up to N.
LEMMA UpTo ==
  ASSUME NEW N \in Nat, NEW T, 0 \in T, \A n \in 0..N : n \in T /\ n < N => n + 1 \in T
  PROVE  0..N \subseteq T
<1>1. SUFFICES ASSUME NEW x \in 0..N, x \notin T PROVE FALSE
  OBVIOUS
<1> DEFINE Bad == {n \in 0..N : n \notin T}
<1>2. PICK n \in Bad : \A m \in Bad : n <= m
  <2>1. Bad \subseteq Nat /\ Bad # {}
    BY <1>1
  <2> QED
    BY <2>1, LeastNumber
<1>3. n # 0 /\ n - 1 \in 0..N /\ n - 1 \notin Bad /\ n - 1 < N
  BY <1>2
<1> QED
  BY <1>2, <1>3

\* A function that is computed from 0 upwards, with a step for each number.
Computed(n, x, step, g) == g = [i \in 0..n |-> IF i = 0 THEN x ELSE step[i][g[i - 1]]]

LEMMA ComputedExists ==
  ASSUME NEW N \in Nat, NEW x, NEW step
  PROVE  \E g : Computed(N, x, step, g)
<1> DEFINE T == {n \in 0..N : \E g : Computed(n, x, step, g)}
<1>1. 0 \in T
  <2>1. Computed(0, x, step, [i \in 0..0 |-> x])
    BY DEF Computed
  <2> QED
    BY <2>1
<1>2. ASSUME NEW n \in 0..N, n \in T, n < N PROVE n + 1 \in T
  <2>1. PICK g : Computed(n, x, step, g)
    BY <1>2
  <2> DEFINE h == [i \in 0..(n + 1) |-> IF i <= n THEN g[i] ELSE step[n + 1][g[n]]]
  <2>2. ASSUME NEW i \in 0..(n + 1)
        PROVE  h[i] = IF i = 0 THEN x ELSE step[i][h[i - 1]]
    <3>1. CASE i = 0
      BY <3>1, <2>1 DEF Computed
    <3>2. CASE i \in 1..n
      <4>1. h[i] = g[i] /\ h[i - 1] = g[i - 1]
        BY <3>2
      <4>2. g[i] = step[i][g[i - 1]]
        BY <3>2, <2>1 DEF Computed
      <4> QED
        BY <4>1, <4>2, <3>2
    <3>3. CASE i = n + 1
      <4>1. h[i] = step[n + 1][g[n]] /\ h[i - 1] = g[n]
        BY <3>3
      <4> QED
        BY <4>1, <3>3
    <3> QED
      BY <3>1, <3>2, <3>3
  <2>3. Computed(n + 1, x, step, h)
    BY <2>2 DEF Computed
  <2> HIDE DEF h
  <2>4. n + 1 \in 0..N
    BY <1>2
  <2> QED
    BY <2>3, <2>4
<1> HIDE DEF T
<1>3. 0..N \subseteq T
  BY <1>1, <1>2, UpTo
<1>4. N \in T
  BY <1>3
<1> QED
  BY <1>4 DEF T

\* With a step from X to X, the values are of X.
Runs(n, X, x, step, g) ==
  /\ g \in [0..n -> X]
  /\ g[0] = x
  /\ \A i \in 1..n : g[i] = step[i][g[i - 1]]

LEMMA ComputedIn ==
  ASSUME NEW N \in Nat, NEW X, NEW x \in X, NEW step \in [1..N -> [X -> X]]
  PROVE  \E g : Runs(N, X, x, step, g)
<1>1. PICK g : Computed(N, x, step, g)
  BY ComputedExists
<1>2. g[0] = x /\ \A i \in 1..N : g[i] = step[i][g[i - 1]]
  BY <1>1 DEF Computed
<1> DEFINE T == {n \in 0..N : g[n] \in X}
<1>3. 0 \in T
  BY <1>2
<1>4. ASSUME NEW n \in 0..N, n \in T, n < N PROVE n + 1 \in T
  <2>1. n + 1 \in 1..N /\ g[n] \in X /\ (n + 1) - 1 = n
    BY <1>4
  <2>2. g[n + 1] = step[n + 1][g[n]]
    BY <2>1, <1>2
  <2> QED
    BY <2>1, <2>2
<1> HIDE DEF T
<1>5. 0..N \subseteq T
  BY <1>3, <1>4, UpTo
<1>6. \A n \in 0..N : g[n] \in X
  BY <1>5 DEF T
<1>7. g = [i \in 0..N |-> g[i]]
  BY <1>1 DEF Computed
<1> QED
  BY <1>2, <1>6, <1>7 DEF Runs

-------------------------------------------------------------------------------
(* Powers of 256.                                                              *)

LEMMA PlacesFact == Places \in Nat /\ Places >= 1
  BY PlacesAssumption

LEMMA PowerFacts ==
  /\ Pow256[0] = 1
  /\ \A n \in 1..Places : Pow256[n] = 256 * Pow256[n - 1]
  /\ \A n \in 0..Places : Pow256[n] \in Nat /\ Pow256[n] >= 1
<1> DEFINE Is(g) == g = [n \in 0..Places |-> IF n = 0 THEN 1 ELSE 256 * g[n - 1]]
           step == [i \in 1..Places |-> [m \in Nat |-> 256 * m]]
<1>1. \E g : Is(g)
  <2>1. step \in [1..Places -> [Nat -> Nat]]
    BY PlacesFact
  <2>2. \A m \in Nat : \A i \in 1..Places : step[i][m] = 256 * m
    BY PlacesFact
  <2> HIDE DEF step, Is
  <2>3. PICK g : Runs(Places, Nat, 1, step, g)
    BY <2>1, ComputedIn, PlacesFact
  <2>4. \A i \in 1..Places : g[i] = 256 * g[i - 1]
    <3> TAKE i \in 1..Places
    <3>1. g[i - 1] \in Nat /\ g[i] = step[i][g[i - 1]]
      BY <2>3, PlacesFact DEF Runs
    <3> QED
      BY <3>1, <2>2
  <2>5. g = [n \in 0..Places |-> IF n = 0 THEN 1 ELSE 256 * g[n - 1]]
    BY <2>3, <2>4, PlacesFact DEF Runs
  <2> QED
    BY <2>5 DEF Is
<1>2. Pow256 = CHOOSE g : Is(g)
  BY DEF Pow256, Is
<1>3. Is(Pow256)
  BY <1>1, <1>2
<1>4. Pow256[0] = 1 /\ \A n \in 1..Places : Pow256[n] = 256 * Pow256[n - 1]
  BY <1>3, PlacesFact DEF Is
<1> DEFINE T == {n \in 0..Places : Pow256[n] \in Nat /\ Pow256[n] >= 1}
<1>5. 0 \in T
  BY <1>4, PlacesFact
<1>6. ASSUME NEW n \in 0..Places, n \in T, n < Places PROVE n + 1 \in T
  <2>1. n + 1 \in 1..Places /\ (n + 1) - 1 = n
    BY <1>6, PlacesFact
  <2>2. Pow256[n + 1] = 256 * Pow256[n]
    BY <2>1, <1>4
  <2> QED
    BY <2>1, <2>2, <1>6
<1> HIDE DEF T
<1>7. 0..Places \subseteq T
  BY <1>5, <1>6, UpTo, PlacesFact
<1> QED
  BY <1>4, <1>7 DEF T

-------------------------------------------------------------------------------
(* Little-endian numbers.                                                      *)

Division(w, n, g) == g = [i \in 0..w |-> IF i = 0 THEN n ELSE g[i - 1] \div 256]
Rest(w, n) == CHOOSE g : Division(w, n, g)

LEMMA LittleEndianIs ==
  ASSUME NEW w, NEW n
  PROVE  LittleEndian(w, n) = [i \in 1..w |-> Rest(w, n)[i - 1] % 256]
  BY DEF LittleEndian, Rest, Division

Quotients(w, n, r) ==
  /\ r \in [0..w -> Nat]
  /\ r[0] = n
  /\ \A i \in 1..w : r[i] = r[i - 1] \div 256

LEMMA RestFacts ==
  ASSUME NEW w \in Nat, NEW n \in Nat
  PROVE  Quotients(w, n, Rest(w, n))
<1> DEFINE step == [i \in 1..w |-> [m \in Nat |-> m \div 256]]
<1>1. step \in [1..w -> [Nat -> Nat]]
  <2>1. \A m \in Nat : m \div 256 \in Nat
    OBVIOUS
  <2> QED
    BY <2>1
<1>2. \A m \in Nat : \A i \in 1..w : step[i][m] = m \div 256
  OBVIOUS
<1> HIDE DEF step
<1>3. PICK g : Runs(w, Nat, n, step, g)
  BY <1>1, ComputedIn
<1>4. g \in [0..w -> Nat] /\ g[0] = n
  BY <1>3 DEF Runs
<1>5. \A i \in 1..w : g[i] = g[i - 1] \div 256
  <2> TAKE i \in 1..w
  <2>1. g[i - 1] \in Nat /\ g[i] = step[i][g[i - 1]]
    BY <1>3 DEF Runs
  <2> QED
    BY <2>1, <1>2
<1>6. Division(w, n, g)
  BY <1>4, <1>5 DEF Division
<1>7. Division(w, n, Rest(w, n))
  BY <1>6 DEF Rest
<1> DEFINE r == Rest(w, n)
<1> HIDE DEF r
<1>8. r[0] = n /\ \A i \in 1..w : r[i] = r[i - 1] \div 256
  BY <1>7 DEF Division, r
<1> DEFINE T == {i \in 0..w : r[i] \in Nat}
<1>9. 0 \in T
  BY <1>8
<1>10. ASSUME NEW i \in 0..w, i \in T, i < w PROVE i + 1 \in T
  <2>1. i + 1 \in 1..w /\ (i + 1) - 1 = i /\ r[i] \in Nat
    BY <1>10
  <2>2. r[i + 1] = r[i] \div 256
    BY <2>1, <1>8
  <2>3. r[i] \div 256 \in Nat
    BY <2>1
  <2> QED
    BY <2>1, <2>2, <2>3
<1> HIDE DEF T
<1>11. 0..w \subseteq T
  BY <1>9, <1>10, UpTo
<1>12. \A i \in 0..w : r[i] \in Nat
  BY <1>11 DEF T
<1>13. r = [i \in 0..w |-> r[i]]
  BY <1>7 DEF Division, r
<1> QED
  BY <1>8, <1>12, <1>13 DEF r, Quotients

LEMMA LittleEndianType ==
  ASSUME NEW w \in Nat, NEW n \in Nat
  PROVE  /\ LittleEndian(w, n) \in Seq(Octet)
         /\ Len(LittleEndian(w, n)) = w
         /\ DOMAIN LittleEndian(w, n) = 1..w
         /\ \A i \in 1..w : /\ LittleEndian(w, n)[i] = Rest(w, n)[i - 1] % 256
                            /\ LittleEndian(w, n)[i] \in Octet
<1> DEFINE e == LittleEndian(w, n)
<1>1. e = [i \in 1..w |-> Rest(w, n)[i - 1] % 256]
  BY LittleEndianIs
<1> HIDE DEF e
<1>2. ASSUME NEW i \in 1..w PROVE e[i] = Rest(w, n)[i - 1] % 256 /\ e[i] \in Octet
  <2>1. Rest(w, n)[i - 1] \in Nat
    BY RestFacts DEF Quotients
  <2>2. Rest(w, n)[i - 1] % 256 \in 0..255
    BY <2>1
  <2> QED
    BY <2>2, <1>1 DEF Octet
<1>3. DOMAIN e = 1..w /\ e = [i \in 1..w |-> e[i]]
  BY <1>1
<1>4. e \in [1..w -> Octet]
  BY <1>2, <1>3
<1>5. e \in Seq(Octet) /\ Len(e) = w
  BY <1>4
<1> QED
  BY <1>2, <1>3, <1>5 DEF e

\* Every division takes a factor of 256 from the bound of a number.
LEMMA RestBound ==
  ASSUME NEW w \in Nat, NEW n \in Nat, NEW j \in 0..Places, j <= w, NEW M \in 1..256,
         n < M * Pow256[j]
  PROVE  Rest(w, n)[j] < M
<1> DEFINE r == Rest(w, n)
           T == {i \in 0..j : r[i] < M * Pow256[j - i]}
<1> HIDE DEF r
<1>1. r \in [0..w -> Nat] /\ r[0] = n /\ \A i \in 1..w : r[i] = r[i - 1] \div 256
  <2>1. Quotients(w, n, r)
    BY RestFacts DEF r
  <2> QED
    BY <2>1 DEF Quotients
<1>2. j \in Nat /\ Places \in Nat
  BY PlacesFact
<1>3. 0 \in T
  BY <1>1, <1>2
<1>4. ASSUME NEW i \in 0..j, i \in T, i < j PROVE i + 1 \in T
  <2>1. /\ i + 1 \in 1..w
        /\ (i + 1) - 1 = i /\ r[i] \in Nat
        /\ j - i \in 1..Places /\ j - i - 1 \in 0..Places
    BY <1>1, <1>2, <1>4
  <2>2. r[i + 1] = r[i] \div 256
    BY <2>1, <1>1
  <2> DEFINE P == Pow256[j - i - 1]
             Q == M * P
  <2>3. P \in Nat /\ Pow256[j - i] = 256 * P
    BY <2>1, PowerFacts
  <2> HIDE DEF P
  <2>4. M * (256 * P) = 256 * Q /\ Q \in Nat
    BY <2>3, <1>2
  <2> HIDE DEF Q
  <2>5. r[i] < 256 * Q
    BY <1>4, <2>3, <2>4
  <2>6. r[i] \div 256 < Q
    BY <2>5, <2>4, <2>1
  <2>7. j - (i + 1) = j - i - 1
    BY <1>2
  <2>8. r[i + 1] < M * Pow256[j - (i + 1)]
    BY <2>2, <2>6, <2>7 DEF P, Q
  <2> QED
    BY <2>8, <1>2, <1>4
<1> HIDE DEF T
<1>5. 0..j \subseteq T
  BY <1>2, <1>3, <1>4, UpTo
<1>6. j \in T
  BY <1>2, <1>5
<1>7. r[j] < M * Pow256[0]
  <2>1. j - j = 0
    BY <1>2
  <2> QED
    BY <1>6, <2>1 DEF T
<1> QED
  BY <1>7, PowerFacts DEF r

LEMMA RestZero ==
  ASSUME NEW w \in Nat, NEW n \in Nat, NEW k \in 0..w, Rest(w, n)[k] = 0
  PROVE  \A i \in k..w : Rest(w, n)[i] = 0
<1> DEFINE r == Rest(w, n)
           T == {i \in 0..(w - k) : r[k + i] = 0}
<1> HIDE DEF r
<1>1. r \in [0..w -> Nat] /\ \A i \in 1..w : r[i] = r[i - 1] \div 256
  <2>1. Quotients(w, n, r)
    BY RestFacts DEF r
  <2> QED
    BY <2>1 DEF Quotients
<1>2. 0 \in T
  BY DEF r
<1>3. ASSUME NEW i \in 0..(w - k), i \in T, i < w - k PROVE i + 1 \in T
  <2>1. k + i + 1 \in 1..w /\ (k + i + 1) - 1 = k + i /\ r[k + i] = 0
    BY <1>3
  <2>2. r[k + i + 1] = 0 \div 256
    BY <2>1, <1>1
  <2> QED
    BY <2>2, <1>3
<1> HIDE DEF T
<1>4. w - k \in Nat
  OBVIOUS
<1>5. 0..(w - k) \subseteq T
  BY <1>2, <1>3, <1>4, UpTo
<1>6. ASSUME NEW i \in k..w PROVE r[i] = 0
  <2>1. i - k \in 0..(w - k) /\ k + (i - k) = i
    OBVIOUS
  <2> QED
    BY <2>1, <1>5 DEF T
<1> QED
  BY <1>6 DEF r

Horner(b, k, g) == g = [i \in 0..k |-> IF i = 0 THEN 0 ELSE 256 * g[i - 1] + b[k + 1 - i]]
Top(b, k) == CHOOSE g : Horner(b, k, g)

LEMMA FromLittleEndianIs ==
  ASSUME NEW b
  PROVE  FromLittleEndian(b) =
           IF \E i \in DOMAIN b : i > Places /\ b[i] # 0 THEN Huge
           ELSE Top(b, Width(Len(b)))[Width(Len(b))]
  BY DEF FromLittleEndian, Top, Horner

LEMMA WidthFacts ==
  ASSUME NEW w \in Nat \ {0}
  PROVE  /\ Width(w) \in 1..w
         /\ Width(w) \in 1..Places
         /\ Width(w) - 1 \in 0..Places
         /\ w > Places => Width(w) = Places
  BY PlacesFact DEF Width

\* A number that fits is read from the bytes that are written for it.
LEMMA NumberRead ==
  ASSUME NEW w \in Nat \ {0}, NEW n \in Nat, n < Pow256[Width(w)]
  PROVE  FromLittleEndian(LittleEndian(w, n)) = n
<1> DEFINE e == LittleEndian(w, n)
           k == Width(w)
           r == Rest(w, n)
           h == [i \in 0..k |-> r[k - i]]
           t == Top(e, k)
<1> HIDE DEF e, k, r, h, t
<1>1. /\ k \in 1..w
      /\ k \in 1..Places /\ k - 1 \in 0..Places
      /\ k - 1 <= w /\ (w > Places => k = Places)
  BY WidthFacts DEF k
<1>2. w \in Nat /\ n \in Nat /\ k \in Nat /\ Places \in Nat
  BY <1>1, PlacesFact
<1>3. r \in [0..w -> Nat] /\ r[0] = n /\ \A i \in 1..w : r[i] = r[i - 1] \div 256
  <2>1. Quotients(w, n, r)
    BY RestFacts DEF r
  <2> QED
    BY <2>1 DEF Quotients
<1>4. e \in Seq(Octet) /\ Len(e) = w /\ DOMAIN e = 1..w /\ \A i \in 1..w : e[i] = r[i - 1] % 256
  BY LittleEndianType DEF e, r
<1>5. r[k] = 0
  <2>1. n < 256 * Pow256[k - 1]
    BY <1>1, PowerFacts DEF k
  <2>2. r[k - 1] < 256
    BY <2>1, <1>1, <1>2, RestBound DEF r
  <2>3. r[k - 1] \in Nat /\ r[k] = r[k - 1] \div 256
    BY <1>1, <1>3
  <2> QED
    BY <2>2, <2>3
<1>6. \A i \in k..w : r[i] = 0
  <2>1. k \in 0..w
    BY <1>1
  <2> QED
    BY <2>1, <1>5, RestZero DEF r
<1>7. ~ \E i \in DOMAIN e : i > Places /\ e[i] # 0
  <2> SUFFICES ASSUME NEW i \in 1..w, i > Places PROVE e[i] = 0
    BY <1>4
  <2>1. i - 1 \in k..w
    BY <1>1, <1>2
  <2>2. e[i] = r[i - 1] % 256
    BY <1>4
  <2>3. r[i - 1] = 0
    BY <2>1, <1>6
  <2> QED
    BY <2>2, <2>3
<1>8. Horner(e, k, h)
  <2>1. ASSUME NEW i \in 1..k PROVE h[i] = 256 * h[i - 1] + e[k + 1 - i]
    <3>1. k - i \in 0..w /\ k - i + 1 \in 1..w /\ k + 1 - i \in 1..w
      BY <1>1
    <3>2. h[i] = r[k - i] /\ h[i - 1] = r[k - i + 1]
      <4>1. k - (i - 1) = k - i + 1 /\ i - 1 \in 0..k /\ i \in 0..k
        BY <1>1
      <4> QED
        BY <4>1 DEF h
    <3>3. r[k - i] \in Nat /\ r[k - i + 1] = r[k - i] \div 256
      <4>1. (k - i + 1) - 1 = k - i
        BY <1>1
      <4>2. r[k - i + 1] = r[(k - i + 1) - 1] \div 256
        BY <3>1, <1>3
      <4>3. r[k - i] \in Nat
        BY <3>1, <1>3
      <4> QED
        BY <4>1, <4>2, <4>3
    <3>4. e[k + 1 - i] = r[k - i] % 256
      <4>1. (k + 1 - i) - 1 = k - i
        BY <1>1
      <4> QED
        BY <4>1, <3>1, <1>4
    <3>5. r[k - i] % 256 = r[k - i] - 256 * (r[k - i] \div 256)
      <4>1. \A q \in Nat : q % 256 = q - 256 * (q \div 256)
        OBVIOUS
      <4> QED
        BY <4>1, <3>3
    <3>6. e[k + 1 - i] = h[i] - 256 * h[i - 1]
      BY <3>2, <3>3, <3>4, <3>5
    <3>7. h[i] \in Nat /\ h[i - 1] \in Nat /\ e[k + 1 - i] \in Int
      <4>1. \A q \in Nat : q \div 256 \in Nat /\ q % 256 \in Int
        OBVIOUS
      <4> QED
        BY <4>1, <3>2, <3>3, <3>4
    <3> QED
      BY <3>6, <3>7
  <2>2. h[0] = 0
    <3>1. k - 0 = k /\ 0 \in 0..k
      BY <1>2
    <3> QED
      BY <3>1, <1>5 DEF h
  <2>3. h = [i \in 0..k |-> h[i]]
    BY DEF h
  <2>4. ASSUME NEW i \in 0..k PROVE h[i] = IF i = 0 THEN 0 ELSE 256 * h[i - 1] + e[k + 1 - i]
    <3>1. CASE i = 0
      BY <3>1, <2>2
    <3>2. CASE i \in 1..k
      BY <3>2, <2>1
    <3> QED
      BY <3>1, <3>2, <1>2
  <2>5. [i \in 0..k |-> h[i]] = [i \in 0..k |-> IF i = 0 THEN 0 ELSE 256 * h[i - 1] + e[k + 1 - i]]
    BY <2>4
  <2> QED
    BY <2>3, <2>5 DEF Horner
<1>9. Horner(e, k, t)
  BY <1>8 DEF t, Top
<1> DEFINE T == {i \in 0..k : t[i] = h[i]}
<1>10. 0 \in T
  BY <1>2, <1>8, <1>9 DEF Horner
<1>11. ASSUME NEW i \in 0..k, i \in T, i < k PROVE i + 1 \in T
  <2>1. i + 1 \in 1..k /\ (i + 1) - 1 = i
    BY <1>2, <1>11
  <2>2. t[i + 1] = 256 * t[i] + e[k + 1 - (i + 1)] /\ h[i + 1] = 256 * h[i] + e[k + 1 - (i + 1)]
    BY <2>1, <1>8, <1>9 DEF Horner
  <2> QED
    BY <2>1, <2>2, <1>11
<1> HIDE DEF T
<1>12. 0..k \subseteq T
  BY <1>2, <1>10, <1>11, UpTo
<1>13. t[k] = h[k]
  BY <1>2, <1>12 DEF T
<1>14. h[k] = n
  BY <1>2, <1>3 DEF h
<1>15. FromLittleEndian(e) = IF \E i \in DOMAIN e : i > Places /\ e[i] # 0 THEN Huge
                             ELSE Top(e, Width(Len(e)))[Width(Len(e))]
  BY FromLittleEndianIs
<1> QED
  BY <1>4, <1>7, <1>13, <1>14, <1>15 DEF e, k, t

-------------------------------------------------------------------------------
(* Bytes that stand in a buffer, and what a format makes of them.              *)

Stands(e, b, at) ==
  /\ at + Len(e) <= Len(b)
  /\ \A i \in 1..Len(e) : b[at + i] = e[i]

\* Wherever the bytes e stand, the format reads x, and not a byte more.
Means(f, e, x) ==
  /\ e \in Seq(Octet)
  /\ \A b \in Seq(Octet) : \A at \in Nat :
       Stands(e, b, at) => f.read[b][at] = Ok(x, at + Len(e))

\* What a format writes it reads; what it writes is at least a byte.
Sound(f) == \A v \in f.vals : Means(f, f.write[v], v)
Filled(f) == \A v \in f.vals : Len(f.write[v]) >= 1

LEMMA StandsAlone ==
  ASSUME NEW e \in Seq(Octet)
  PROVE  Stands(e, e, 0)
  BY DEF Stands

LEMMA StandsSlice ==
  ASSUME NEW e \in Seq(Octet), NEW b \in Seq(Octet), NEW at \in Nat, Stands(e, b, at)
  PROVE  Slice(b, at, Len(e)) = Ok(e, at + Len(e))
<1>1. Len(e) \in Nat /\ Len(b) \in Nat
  OBVIOUS
<1>2. at + Len(e) <= Len(b) /\ \A i \in 1..Len(e) : b[at + i] = e[i]
  BY DEF Stands
<1> DEFINE s == SubSeq(b, at + 1, at + Len(e))
<1>3. s = e
  <2>1. s \in Seq(Octet) /\ Len(s) = Len(e)
    <3>1. CASE Len(e) = 0
      BY <3>1, <1>1
    <3>2. CASE Len(e) > 0
      BY <3>2, <1>1, <1>2
    <3> QED
      BY <3>1, <3>2, <1>1
  <2>2. ASSUME NEW i \in 1..Len(e) PROVE s[i] = e[i]
    <3>1. s[i] = b[at + 1 + i - 1]
      BY <1>1, <1>2
    <3>2. at + 1 + i - 1 = at + i
      BY <1>1
    <3> QED
      BY <3>1, <3>2, <1>2
  <2> HIDE DEF s
  <2> QED
    BY <2>1, <2>2
<1>4. ~(at + Len(e) > Len(b))
  BY <1>1, <1>2
<1> QED
  BY <1>3, <1>4 DEF Slice

LEMMA StandsParts ==
  ASSUME NEW e \in Seq(Octet), NEW f \in Seq(Octet), NEW b \in Seq(Octet), NEW at \in Nat,
         Stands(e \o f, b, at)
  PROVE  /\ Stands(e, b, at)
         /\ Stands(f, b, at + Len(e))
         /\ Len(e \o f) = Len(e) + Len(f)
         /\ e \o f \in Seq(Octet)
<1>1. Len(e) \in Nat /\ Len(f) \in Nat /\ Len(b) \in Nat
  OBVIOUS
<1>2. Len(e \o f) = Len(e) + Len(f) /\ e \o f \in Seq(Octet)
  OBVIOUS
<1>3. at + (Len(e) + Len(f)) <= Len(b) /\ \A i \in 1..(Len(e) + Len(f)) : b[at + i] = (e \o f)[i]
  BY <1>2 DEF Stands
<1>4. ASSUME NEW i \in 1..Len(e) PROVE b[at + i] = e[i]
  <2>1. (e \o f)[i] = e[i] /\ i \in 1..(Len(e) + Len(f))
    BY <1>1
  <2> QED
    BY <2>1, <1>3
<1>5. ASSUME NEW i \in 1..Len(f) PROVE b[at + Len(e) + i] = f[i]
  <2>1. (e \o f)[Len(e) + i] = f[i] /\ Len(e) + i \in 1..(Len(e) + Len(f))
    BY <1>1
  <2>2. at + Len(e) + i = at + (Len(e) + i)
    BY <1>1
  <2> QED
    BY <2>1, <2>2, <1>3
<1> QED
  BY <1>1, <1>2, <1>3, <1>4, <1>5 DEF Stands

-------------------------------------------------------------------------------
(* Numbers and flags.                                                          *)

LEMMA UintParts ==
  ASSUME NEW w \in Nat
  PROVE  /\ Uint(w).vals = {n \in Nat : n < Pow256[Width(w)]}
         /\ \A n \in Uint(w).vals : Uint(w).write[n] = LittleEndian(w, n)
         /\ \A b \in Seq(Octet) : \A at \in Nat :
              Uint(w).read[b][at] =
                IF Slice(b, at, w).st = "ok"
                THEN Ok(FromLittleEndian(Slice(b, at, w).v), Slice(b, at, w).at)
                ELSE Slice(b, at, w)
<1>1. Uint(w).vals = {n \in Nat : n < Pow256[Width(w)]}
  BY DEF Uint, Format
<1>2. \A n \in Uint(w).vals : Uint(w).write[n] = LittleEndian(w, n)
  BY DEF Uint, Format
<1>3. \A b \in Seq(Octet) : \A at \in Nat :
        Uint(w).read[b][at] =
          IF Slice(b, at, w).st = "ok"
          THEN Ok(FromLittleEndian(Slice(b, at, w).v), Slice(b, at, w).at)
          ELSE Slice(b, at, w)
  BY DEF Uint, Format, Then
<1> QED
  BY <1>1, <1>2, <1>3

LEMMA UintSound ==
  ASSUME NEW w \in Nat \ {0}
  PROVE  /\ Sound(Uint(w))
         /\ \A n \in Uint(w).vals : Uint(w).write[n] \in Seq(Octet) /\ Len(Uint(w).write[n]) = w
<1> SUFFICES ASSUME NEW n \in Uint(w).vals
             PROVE  /\ Means(Uint(w), Uint(w).write[n], n)
                    /\ Uint(w).write[n] \in Seq(Octet)
                    /\ Len(Uint(w).write[n]) = w
  BY DEF Sound
<1> DEFINE e == LittleEndian(w, n)
<1> HIDE DEF e
<1>1. n \in Nat /\ n < Pow256[Width(w)] /\ Uint(w).write[n] = e
  BY UintParts DEF e
<1>2. e \in Seq(Octet) /\ Len(e) = w
  BY <1>1, LittleEndianType DEF e
<1>3. FromLittleEndian(e) = n
  BY <1>1, NumberRead DEF e
<1>4. ASSUME NEW b \in Seq(Octet), NEW at \in Nat, Stands(e, b, at)
      PROVE  Uint(w).read[b][at] = Ok(n, at + Len(e))
  <2>1. Slice(b, at, w) = Ok(e, at + Len(e))
    BY <1>2, <1>4, StandsSlice
  <2>2. Slice(b, at, w).st = "ok" /\ Slice(b, at, w).v = e /\ Slice(b, at, w).at = at + Len(e)
    BY <2>1 DEF Ok
  <2>3. Uint(w).read[b][at] = Ok(FromLittleEndian(e), at + Len(e))
    BY <2>2, UintParts
  <2> QED
    BY <2>3, <1>3
<1> QED
  BY <1>1, <1>2, <1>4 DEF Means

LEMMA SignByte ==
  ASSUME NEW w \in Nat \ {0}, NEW n \in Nat, n < 128 * Pow256[Width(w) - 1]
  PROVE  LittleEndian(w, n)[w] <= 127 /\ n < Pow256[Width(w)]
<1> DEFINE k == Width(w)
           r == Rest(w, n)
<1> HIDE DEF k, r
<1>1. k \in 1..w /\ k \in 1..Places /\ k - 1 \in 0..Places /\ k - 1 <= w
  BY WidthFacts DEF k
<1>2. w \in Nat /\ k \in Nat /\ Places \in Nat
  BY <1>1, PlacesFact
<1>3. r \in [0..w -> Nat] /\ \A i \in 1..w : r[i] = r[i - 1] \div 256
  <2>1. Quotients(w, n, r)
    BY RestFacts DEF r
  <2> QED
    BY <2>1 DEF Quotients
<1>4. r[k - 1] < 128 /\ r[k - 1] \in Nat
  <2>1. n < 128 * Pow256[k - 1]
    BY DEF k
  <2>2. r[k - 1] < 128
    BY <2>1, <1>1, <1>2, RestBound DEF r
  <2> QED
    BY <2>2, <1>1, <1>3
<1>5. r[w - 1] < 128 /\ r[w - 1] \in Nat
  <2>1. CASE k = w
    BY <2>1, <1>4
  <2>2. CASE k < w
    <3>1. r[k] = r[k - 1] \div 256
      BY <1>1, <1>3
    <3>2. r[k] = 0
      BY <3>1, <1>4
    <3>3. k \in 0..w /\ w - 1 \in k..w
      BY <2>2, <1>1, <1>2
    <3>4. r[w - 1] = 0
      BY <3>2, <3>3, <1>2, RestZero DEF r
    <3> QED
      BY <3>4
  <2> QED
    BY <2>1, <2>2, <1>1, <1>2
<1>6. LittleEndian(w, n)[w] = r[w - 1] % 256
  BY <1>2, LittleEndianType DEF r
<1>7. \A m \in Nat : m < 128 => m % 256 <= 127
  OBVIOUS
<1>8. n < Pow256[Width(w)]
  <2>1. Pow256[k] = 256 * Pow256[k - 1] /\ Pow256[k - 1] \in Nat
    BY <1>1, PowerFacts
  <2>2. n < 128 * Pow256[k - 1]
    BY DEF k
  <2>3. n < Pow256[k]
    BY <2>1, <2>2
  <2> QED
    BY <2>3 DEF k
<1> QED
  BY <1>5, <1>6, <1>7, <1>8

LEMMA InvertedFacts ==
  ASSUME NEW e \in Seq(Octet)
  PROVE  /\ Inverted(e) \in Seq(Octet)
         /\ Len(Inverted(e)) = Len(e)
         /\ \A i \in 1..Len(e) : Inverted(e)[i] = 255 - e[i]
         /\ Inverted(Inverted(e)) = e
<1>1. DOMAIN e = 1..Len(e) /\ Len(e) \in Nat /\ \A i \in 1..Len(e) : e[i] \in 0..255
  <2>1. \A i \in 1..Len(e) : e[i] \in Octet
    OBVIOUS
  <2> QED
    BY <2>1 DEF Octet
<1> DEFINE d == Inverted(e)
<1>2. d = [i \in 1..Len(e) |-> 255 - e[i]]
  BY <1>1 DEF Inverted
<1> HIDE DEF d
<1>3. ASSUME NEW i \in 1..Len(e) PROVE d[i] = 255 - e[i] /\ d[i] \in Octet /\ 255 - d[i] = e[i]
  <2>1. e[i] \in 0..255 /\ d[i] = 255 - e[i]
    BY <1>1, <1>2
  <2>2. PICK x \in 0..255 : x = e[i]
    BY <2>1
  <2>3. 255 - x \in 0..255 /\ 255 - (255 - x) = x
    OBVIOUS
  <2>4. d[i] = 255 - x
    BY <2>1, <2>2
  <2> QED
    BY <2>2, <2>3, <2>4 DEF Octet
<1>4. d \in Seq(Octet) /\ Len(d) = Len(e) /\ DOMAIN d = 1..Len(e)
  <2>1. d \in [1..Len(e) -> Octet]
    BY <1>2, <1>3
  <2> QED
    BY <2>1, <1>1
<1>5. Inverted(d) = e
  <2>1. Inverted(d) = [i \in 1..Len(e) |-> 255 - d[i]]
    BY <1>4 DEF Inverted
  <2>2. \A i \in 1..Len(e) : 255 - d[i] = e[i]
    BY <1>3
  <2>3. Inverted(d) = [i \in 1..Len(e) |-> e[i]]
    BY <2>1, <2>2
  <2> QED
    BY <2>3, <1>1
<1> QED
  BY <1>3, <1>4, <1>5 DEF d

LEMMA SintParts ==
  ASSUME NEW w \in Nat
  PROVE  /\ Sint(w).vals = {n \in Int :
                             -(128 * Pow256[Width(w) - 1]) <= n /\ n < 128 * Pow256[Width(w) - 1]}
         /\ \A n \in Sint(w).vals :
              Sint(w).write[n] =
                IF n < 0 THEN Inverted(LittleEndian(w, -n - 1))
                ELSE LittleEndian(w, n)
         /\ \A b \in Seq(Octet) : \A at \in Nat :
              Sint(w).read[b][at] =
                IF Slice(b, at, w).st = "ok"
                THEN Ok(IF Slice(b, at, w).v[w] > 127
                        THEN -1 - FromLittleEndian(Inverted(Slice(b, at, w).v))
                        ELSE FromLittleEndian(Slice(b, at, w).v), Slice(b, at, w).at)
                ELSE Slice(b, at, w)
<1>1. Sint(w).vals = {n \in Int :
                       -(128 * Pow256[Width(w) - 1]) <= n /\ n < 128 * Pow256[Width(w) - 1]}
  BY DEF Sint, Format
<1>2. \A n \in Sint(w).vals :
        Sint(w).write[n] = IF n < 0 THEN Inverted(LittleEndian(w, -n - 1)) ELSE LittleEndian(w, n)
  BY DEF Sint, Format
<1>3. \A b \in Seq(Octet) : \A at \in Nat :
        Sint(w).read[b][at] =
          IF Slice(b, at, w).st = "ok"
          THEN Ok(IF Slice(b, at, w).v[w] > 127
                  THEN -1 - FromLittleEndian(Inverted(Slice(b, at, w).v))
                  ELSE FromLittleEndian(Slice(b, at, w).v), Slice(b, at, w).at)
          ELSE Slice(b, at, w)
  BY DEF Sint, Format, Then
<1> QED
  BY <1>1, <1>2, <1>3

LEMMA SintSound ==
  ASSUME NEW w \in Nat \ {0}
  PROVE  Sound(Sint(w)) /\ \A n \in Sint(w).vals : Len(Sint(w).write[n]) = w
<1> SUFFICES ASSUME NEW n \in Sint(w).vals
             PROVE  Means(Sint(w), Sint(w).write[n], n) /\ Len(Sint(w).write[n]) = w
  BY DEF Sound
<1> DEFINE half == 128 * Pow256[Width(w) - 1]
           m == IF n < 0 THEN -n - 1 ELSE n
           l == LittleEndian(w, m)
           e == IF n < 0 THEN Inverted(l) ELSE l
<1>1. n \in Int /\ -half <= n /\ n < half /\ Sint(w).write[n] = e
  BY SintParts
<1>2. half \in Int
  BY WidthFacts, PowerFacts
<1>3. m \in Nat /\ m < 128 * Pow256[Width(w) - 1]
  BY <1>1, <1>2
<1> HIDE DEF half, m
<1>4. l \in Seq(Octet) /\ Len(l) = w /\ ~(l[w] > 127) /\ 255 - l[w] > 127
  <2>1. l \in Seq(Octet) /\ Len(l) = w /\ l[w] \in Octet
    BY <1>3, LittleEndianType
  <2>2. PICK x \in 0..255 : x = l[w]
    BY <2>1 DEF Octet
  <2>3. x <= 127
    BY <2>2, <1>3, SignByte
  <2>4. ~(x > 127) /\ 255 - x > 127
    BY <2>3
  <2> QED
    BY <2>1, <2>2, <2>4
<1>5. FromLittleEndian(l) = m
  BY <1>3, SignByte, NumberRead
<1> HIDE DEF l
<1>6. /\ e \in Seq(Octet) /\ Len(e) = w
      /\ n < 0 => e[w] > 127 /\ Inverted(e) = l
      /\ ~(n < 0) => ~(e[w] > 127) /\ e = l
  <2>1. CASE n < 0
    <3>1. /\ Inverted(l) \in Seq(Octet) /\ Len(Inverted(l)) = w /\ Inverted(Inverted(l)) = l
          /\ Inverted(l)[w] = 255 - l[w]
      BY <1>4, InvertedFacts
    <3>2. e = Inverted(l)
      BY <2>1
    <3> HIDE DEF e
    <3> QED
      BY <3>1, <3>2, <2>1, <1>4
  <2>2. CASE ~(n < 0)
    <3>1. e = l
      BY <2>2
    <3> HIDE DEF e
    <3> QED
      BY <3>1, <2>2, <1>4
  <2> QED
    BY <2>1, <2>2
<1>7. (IF e[w] > 127 THEN -1 - FromLittleEndian(Inverted(e)) ELSE FromLittleEndian(e)) = n
  <2>1. CASE n < 0
    <3>1. m = -n - 1 /\ FromLittleEndian(Inverted(e)) = m /\ e[w] > 127
      BY <2>1, <1>5, <1>6 DEF m
    <3>2. -1 - (-n - 1) = n
      BY <1>1
    <3> QED
      BY <3>1, <3>2
  <2>2. CASE ~(n < 0)
    BY <2>2, <1>5, <1>6 DEF m
  <2> QED
    BY <2>1, <2>2
<1> HIDE DEF e
<1>8. ASSUME NEW b \in Seq(Octet), NEW at \in Nat, Stands(e, b, at)
      PROVE  Sint(w).read[b][at] = Ok(n, at + Len(e))
  <2>1. Slice(b, at, w) = Ok(e, at + Len(e))
    BY <1>6, <1>8, StandsSlice
  <2>2. Slice(b, at, w).st = "ok" /\ Slice(b, at, w).v = e /\ Slice(b, at, w).at = at + Len(e)
    BY <2>1 DEF Ok
  <2>3. Sint(w).read[b][at] =
          Ok(IF e[w] > 127 THEN -1 - FromLittleEndian(Inverted(e))
             ELSE FromLittleEndian(e), at + Len(e))
    BY <2>2, SintParts
  <2> QED
    BY <2>3, <1>7
<1> QED
  BY <1>1, <1>6, <1>8 DEF Means

LEMMA FlagParts ==
  /\ Flag.vals = BOOLEAN
  /\ \A v \in BOOLEAN : Flag.write[v] = IF v THEN <<1>> ELSE <<0>>
  /\ \A b \in Seq(Octet) : \A at \in Nat :
       Flag.read[b][at] =
         IF Slice(b, at, 1).st = "ok"
         THEN IF Slice(b, at, 1).v[1] > 1 THEN Error
              ELSE Ok(Slice(b, at, 1).v[1] = 1, Slice(b, at, 1).at)
         ELSE Slice(b, at, 1)
<1>1. Flag.vals = BOOLEAN
  BY DEF Flag, Format
<1>2. \A v \in BOOLEAN : Flag.write[v] = IF v THEN <<1>> ELSE <<0>>
  BY DEF Flag, Format
<1>3. \A b \in Seq(Octet) : \A at \in Nat :
        Flag.read[b][at] =
          IF Slice(b, at, 1).st = "ok"
          THEN IF Slice(b, at, 1).v[1] > 1 THEN Error
               ELSE Ok(Slice(b, at, 1).v[1] = 1, Slice(b, at, 1).at)
          ELSE Slice(b, at, 1)
  BY DEF Flag, Format, Then
<1> QED
  BY <1>1, <1>2, <1>3

LEMMA FlagSound == Sound(Flag) /\ \A v \in Flag.vals : Len(Flag.write[v]) = 1
<1> SUFFICES ASSUME NEW v \in BOOLEAN
             PROVE  Means(Flag, Flag.write[v], v) /\ Len(Flag.write[v]) = 1
  BY FlagParts DEF Sound
<1> DEFINE e == Flag.write[v]
<1>1. e = IF v THEN <<1>> ELSE <<0>>
  BY FlagParts
<1> HIDE DEF e
<1>2. e \in Seq(Octet) /\ Len(e) = 1 /\ (v => e[1] = 1) /\ (~v => e[1] = 0)
  <2>1. \A o \in Octet : <<o>> \in Seq(Octet) /\ Len(<<o>>) = 1 /\ <<o>>[1] = o
    OBVIOUS
  <2>2. 0 \in Octet /\ 1 \in Octet
    BY DEF Octet
  <2> QED
    BY <2>1, <2>2, <1>1
<1>3. ASSUME NEW b \in Seq(Octet), NEW at \in Nat, Stands(e, b, at)
      PROVE  Flag.read[b][at] = Ok(v, at + Len(e))
  <2>1. Slice(b, at, 1) = Ok(e, at + Len(e))
    BY <1>2, <1>3, StandsSlice
  <2>2. Slice(b, at, 1).st = "ok" /\ Slice(b, at, 1).v = e /\ Slice(b, at, 1).at = at + Len(e)
    BY <2>1 DEF Ok
  <2>3. Flag.read[b][at] = IF e[1] > 1 THEN Error ELSE Ok(e[1] = 1, at + Len(e))
    BY <2>2, FlagParts
  <2>4. ~(e[1] > 1) /\ (e[1] = 1) = v
    BY <1>2
  <2> QED
    BY <2>3, <2>4
<1> QED
  BY <1>2, <1>3 DEF Means, e

-------------------------------------------------------------------------------
(* Text, and sequences of encodings.                                           *)

LEMMA UsizeSound ==
  /\ Sound(Usize)
  /\ Usize.vals \subseteq Nat
  /\ \A n \in Usize.vals : Usize.write[n] \in Seq(Octet) /\ Len(Usize.write[n]) = 8
<1>1. 8 \in Nat \ {0}
  OBVIOUS
<1>2. Uint(8).vals \subseteq Nat
  BY UintParts
<1> QED
  BY <1>1, <1>2, UintSound DEF Usize

\* A length of 64 bits is read in front of what it is the length of.
LEMMA LengthRead ==
  ASSUME NEW n \in Usize.vals, NEW e \in Seq(Octet), NEW b \in Seq(Octet), NEW at \in Nat,
         Stands(Usize.write[n] \o e, b, at)
  PROVE  /\ Usize.read[b][at] = Ok(n, at + 8)
         /\ Stands(e, b, at + 8)
         /\ Len(Usize.write[n] \o e) = 8 + Len(e)
         /\ Usize.write[n] \o e \in Seq(Octet)
<1> DEFINE h == Usize.write[n]
<1>1. h \in Seq(Octet) /\ Len(h) = 8 /\ Means(Usize, h, n)
  BY UsizeSound DEF Sound
<1> HIDE DEF h
<1>2. Stands(h \o e, b, at)
  BY DEF h
<1>3. Stands(h, b, at) /\ Stands(e, b, at + 8) /\ Len(h \o e) = 8 + Len(e) /\ h \o e \in Seq(Octet)
  BY <1>1, <1>2, StandsParts
<1>4. Usize.read[b][at] = Ok(n, at + 8)
  BY <1>1, <1>3 DEF Means
<1> QED
  BY <1>3, <1>4 DEF h

LEMMA TextParts ==
  /\ Text.vals = {s \in Seq(Octet) : Len(s) \in Usize.vals}
  /\ \A s \in Text.vals : Text.write[s] = Usize.write[Len(s)] \o s
  /\ \A b \in Seq(Octet) : \A at \in Nat :
       Text.read[b][at] = IF Usize.read[b][at].st = "ok"
                          THEN Slice(b, Usize.read[b][at].at, Usize.read[b][at].v)
                          ELSE Usize.read[b][at]
<1>1. Text.vals = {s \in Seq(Octet) : Len(s) \in Usize.vals}
  BY DEF Text, Format
<1>2. \A s \in Text.vals : Text.write[s] = Usize.write[Len(s)] \o s
  BY DEF Text, Format
<1>3. \A b \in Seq(Octet) : \A at \in Nat :
       Text.read[b][at] = IF Usize.read[b][at].st = "ok"
                          THEN Slice(b, Usize.read[b][at].at, Usize.read[b][at].v)
                          ELSE Usize.read[b][at]
  BY DEF Text, Format, Then
<1> QED
  BY <1>1, <1>2, <1>3

LEMMA TextSound == Sound(Text) /\ Filled(Text)
<1> SUFFICES ASSUME NEW s \in Text.vals
             PROVE  Means(Text, Text.write[s], s) /\ Len(Text.write[s]) >= 1
  BY DEF Sound, Filled
<1>1. s \in Seq(Octet) /\ Len(s) \in Usize.vals /\ Text.write[s] = Usize.write[Len(s)] \o s
  BY TextParts
<1> DEFINE h == Usize.write[Len(s)]
<1>2. h \in Seq(Octet) /\ Len(h) = 8
  BY <1>1, UsizeSound
<1> HIDE DEF h
<1>3. h \o s \in Seq(Octet) /\ Len(h \o s) = 8 + Len(s) /\ Len(s) \in Nat
  <2>1. s \in Seq(Octet) /\ h \in Seq(Octet)
    BY <1>1, <1>2
  <2>2. h \o s \in Seq(Octet) /\ Len(h \o s) = Len(h) + Len(s) /\ Len(s) \in Nat
    BY <2>1
  <2> QED
    BY <2>2, <1>2
<1>4. ASSUME NEW b \in Seq(Octet), NEW at \in Nat, Stands(h \o s, b, at)
      PROVE  Text.read[b][at] = Ok(s, at + Len(h \o s))
  <2>1. Usize.read[b][at] = Ok(Len(s), at + 8) /\ Stands(s, b, at + 8)
    BY <1>1, <1>4, LengthRead DEF h
  <2>2. Usize.read[b][at].st = "ok" /\ Usize.read[b][at].v = Len(s) /\ Usize.read[b][at].at = at + 8
    BY <2>1 DEF Ok
  <2>3. Text.read[b][at] = Slice(b, at + 8, Len(s))
    BY <2>2, TextParts
  <2>4. at + 8 \in Nat
    OBVIOUS
  <2>5. Slice(b, at + 8, Len(s)) = Ok(s, (at + 8) + Len(s))
    BY <1>1, <2>1, <2>4, StandsSlice
  <2>6. (at + 8) + Len(s) = at + Len(h \o s)
    BY <1>3
  <2> QED
    BY <2>3, <2>5, <2>6
<1> QED
  BY <1>1, <1>3, <1>4 DEF Means, h

\* h holds the concatenations of the first encodings of e.
Joins(e, h) ==
  /\ h \in [0..Len(e) -> Seq(Octet)]
  /\ h[0] = <<>>
  /\ \A i \in 1..Len(e) : h[i] = h[i - 1] \o e[i]

Flattens(e, g) == g = [i \in 1..Len(e) |-> IF i = 1 THEN e[i] ELSE g[i - 1] \o e[i]]
Flat(e) == CHOOSE g : Flattens(e, g)

LEMMA FlattenIs ==
  ASSUME NEW e
  PROVE  FlattenSeq(e) = IF Len(e) = 0 THEN e ELSE Flat(e)[Len(e)]
  BY DEF FlattenSeq, Flat, Flattens

LEMMA FlattenJoins ==
  ASSUME NEW e \in Seq(Seq(Octet))
  PROVE  \E h : Joins(e, h) /\ FlattenSeq(e) = h[Len(e)]
<1> DEFINE n == Len(e)
           B == Seq(Octet)
           step == [i \in 1..n |-> [y \in B |-> y \o e[i]]]
<1>1. n \in Nat /\ \A i \in 1..n : e[i] \in B
  OBVIOUS
<1>2. \A y, z \in B : y \o z \in B
  OBVIOUS
<1>3. <<>> \in B /\ \A y \in B : <<>> \o y = y
  OBVIOUS
<1> HIDE DEF n, B
<1>4. step \in [1..n -> [B -> B]] /\ \A i \in 1..n : \A y \in B : step[i][y] = y \o e[i]
  BY <1>1, <1>2
<1> HIDE DEF step
<1>5. PICK h : Runs(n, B, <<>>, step, h)
  BY <1>1, <1>3, <1>4, ComputedIn
<1>6. h \in [0..n -> B] /\ h[0] = <<>> /\ \A i \in 1..n : h[i - 1] \in B /\ h[i] = step[i][h[i - 1]]
  BY <1>1, <1>5 DEF Runs
<1>7. \A i \in 1..n : h[i] = h[i - 1] \o e[i]
  BY <1>4, <1>6
<1>8. Joins(e, h)
  BY <1>6, <1>7 DEF Joins, n, B
<1>9. FlattenSeq(e) = h[n]
  <2>1. CASE n = 0
    <3>1. FlattenSeq(e) = e
      BY <2>1, FlattenIs DEF n
    <3>2. e = <<>>
      BY <2>1 DEF n
    <3> QED
      BY <3>1, <3>2, <2>1, <1>6
  <2>2. CASE n > 0
    <3> DEFINE k == [i \in 1..n |-> h[i]]
               t == Flat(e)
    <3>1. ASSUME NEW i \in 1..n PROVE h[i] = IF i = 1 THEN e[i] ELSE k[i - 1] \o e[i]
      <4>1. CASE i = 1
        <5>0. h[i] = h[i - 1] \o e[i] /\ e[i] \in B
          BY <1>1, <1>7
        <5>1. h[i] = h[i - 1] \o e[i] /\ e[i] \in B /\ i - 1 = 0
          BY <4>1, <5>0
        <5>2. h[i] = <<>> \o e[i]
          BY <5>1, <1>6
        <5> QED
          BY <5>1, <5>2, <4>1, <1>3
      <4>2. CASE i > 1
        <5>1. i - 1 \in 1..n /\ ~(i = 1)
          BY <4>2, <1>1
        <5>2. k[i - 1] = h[i - 1]
          BY <5>1
        <5> QED
          BY <5>1, <5>2, <1>7
      <4> QED
        BY <4>1, <4>2
    <3>2. k = [i \in 1..n |-> IF i = 1 THEN e[i] ELSE k[i - 1] \o e[i]]
      BY <3>1
    <3>3. Flattens(e, k)
      BY <3>2 DEF Flattens, n
    <3> HIDE DEF k
    <3>4. Flattens(e, t)
      BY <3>3 DEF Flat
    <3> HIDE DEF t
    <3>5. /\ t[1] = e[1]
          /\ \A i \in 1..n : i > 1 => t[i] = t[i - 1] \o e[i]
      <4>1. t = [i \in 1..n |-> IF i = 1 THEN e[i] ELSE t[i - 1] \o e[i]]
        BY <3>4 DEF Flattens, n
      <4>2. 1 \in 1..n
        BY <2>2, <1>1
      <4>3. \A i \in 1..n : t[i] = IF i = 1 THEN e[i] ELSE t[i - 1] \o e[i]
        BY <4>1
      <4>4. \A i \in 1..n : i > 1 => ~(i = 1)
        BY <1>1
      <4> QED
        BY <4>2, <4>3, <4>4
    <3> DEFINE T == {i \in 0..n : i = 0 \/ t[i] = h[i]}
    <3>6. 0 \in T
      BY <1>1
    <3>7. ASSUME NEW i \in 0..n, i \in T, i < n PROVE i + 1 \in T
      <4>1. i + 1 \in 1..n /\ (i + 1) - 1 = i
        BY <1>1, i < n
      <4>2. CASE i = 0
        <5>1. h[1] = e[1]
          BY <4>1, <4>2, <3>1
        <5> QED
          BY <5>1, <4>1, <4>2, <3>5
      <4>3. CASE i > 0
        <5>1. i + 1 > 1 /\ ~(i = 0)
          BY <4>3, <1>1
        <5>2. t[i + 1] = t[i] \o e[i + 1]
          BY <5>1, <4>1, <3>5
        <5>3. h[i + 1] = h[i] \o e[i + 1]
          BY <4>1, <1>7
        <5>4. t[i] = h[i]
          BY <5>1, <3>7
        <5>5. i + 1 \in 0..n
          BY <4>1, <1>1
        <5> QED
          BY <5>2, <5>3, <5>4, <5>5
      <4> QED
        BY <4>2, <4>3
    <3> HIDE DEF T
    <3>8. 0..n \subseteq T
      BY <3>6, <3>7, <1>1, UpTo
    <3>9. t[n] = h[n]
      BY <3>8, <2>2, <1>1 DEF T
    <3> QED
      BY <3>9, <2>2, <1>1, FlattenIs DEF n, t
  <2> QED
    BY <2>1, <2>2, <1>1
<1> QED
  BY <1>8, <1>9 DEF n

LEMMA JoinsFacts ==
  ASSUME NEW e \in Seq(Seq(Octet)), NEW h, Joins(e, h)
  PROVE  /\ h[0] = <<>>
         /\ \A i \in 0..Len(e) : h[i] \in Seq(Octet) /\ Len(h[i]) \in Nat
         /\ \A i \in 1..Len(e) : e[i] \in Seq(Octet) /\ h[i] = h[i - 1] \o e[i]
<1>1. /\ h \in [0..Len(e) -> Seq(Octet)]
      /\ h[0] = <<>>
      /\ \A i \in 1..Len(e) : h[i] = h[i - 1] \o e[i]
  BY DEF Joins
<1>2. \A i \in 0..Len(e) : h[i] \in Seq(Octet)
  BY <1>1
<1>3. \A y \in Seq(Octet) : Len(y) \in Nat
  OBVIOUS
<1>4. \A i \in 1..Len(e) : e[i] \in Seq(Octet)
  OBVIOUS
<1> QED
  BY <1>1, <1>2, <1>3, <1>4

LEMMA JoinsLength ==
  ASSUME NEW e \in Seq(Seq(Octet)), NEW h, Joins(e, h), \A i \in 1..Len(e) : Len(e[i]) >= 1
  PROVE  Len(h[Len(e)]) >= Len(e)
<1> DEFINE n == Len(e)
           T == {i \in 0..n : Len(h[i]) >= i}
<1>1. n \in Nat /\ \A i \in 1..n : e[i] \in Seq(Octet) /\ Len(e[i]) >= 1 /\ Len(e[i]) \in Nat
  OBVIOUS
<1> HIDE DEF n
<1>2. h[0] = <<>> /\ \A i \in 0..n : h[i] \in Seq(Octet) /\ Len(h[i]) \in Nat
  BY JoinsFacts DEF n
<1>3. \A i \in 1..n : h[i] = h[i - 1] \o e[i]
  BY JoinsFacts DEF n
<1>4. 0 \in T
  BY <1>1, <1>2
<1>5. ASSUME NEW i \in 0..n, i \in T, i < n PROVE i + 1 \in T
  <2>1. i + 1 \in 1..n /\ i + 1 \in 0..n /\ (i + 1) - 1 = i
    BY <1>5, <1>1
  <2>2. h[i + 1] = h[i] \o e[i + 1] /\ h[i] \in Seq(Octet) /\ e[i + 1] \in Seq(Octet)
    BY <2>1, <1>1, <1>2, <1>3
  <2>3. Len(h[i + 1]) = Len(h[i]) + Len(e[i + 1])
    BY <2>2
  <2>4. Len(h[i]) >= i /\ Len(h[i]) \in Nat /\ Len(e[i + 1]) \in Nat /\ Len(e[i + 1]) >= 1
    BY <2>1, <1>1, <1>2, <1>5
  <2>5. \A k, l \in Nat : k >= i /\ l >= 1 => k + l >= i + 1
    BY <2>1
  <2>6. Len(h[i + 1]) >= i + 1
    BY <2>3, <2>4, <2>5
  <2> QED
    BY <2>1, <2>6
<1> HIDE DEF T
<1>6. 0..n \subseteq T
  BY <1>1, <1>4, <1>5, UpTo
<1>7. n \in T
  BY <1>1, <1>6
<1> QED
  BY <1>7 DEF T, n

\* Where all of them stand, each stands behind those in front of it.
Laid(e, h, b, at) ==
  /\ \A i \in 0..Len(e) : Len(h[i]) \in Nat
  /\ Len(h[0]) = 0
  /\ \A i \in 1..Len(e) : /\ Stands(e[i], b, at + Len(h[i - 1]))
                          /\ Len(h[i]) = Len(h[i - 1]) + Len(e[i])

LEMMA JoinsStands ==
  ASSUME NEW e \in Seq(Seq(Octet)), NEW h, Joins(e, h), NEW b \in Seq(Octet), NEW at \in Nat,
         Stands(h[Len(e)], b, at)
  PROVE  Laid(e, h, b, at)
<1> DEFINE n == Len(e)
           T == {i \in 0..n : Stands(h[n - i], b, at)}
<1>1. n \in Nat /\ \A i \in 1..n : e[i] \in Seq(Octet)
  OBVIOUS
<1> HIDE DEF n
<1>2. h[0] = <<>> /\ \A i \in 0..n : h[i] \in Seq(Octet) /\ Len(h[i]) \in Nat
  BY JoinsFacts DEF n
<1>3. \A i \in 1..n : h[i] = h[i - 1] \o e[i]
  BY JoinsFacts DEF n
<1>4. ASSUME NEW i \in 1..n, Stands(h[i], b, at)
      PROVE  /\ Stands(h[i - 1], b, at)
             /\ Stands(e[i], b, at + Len(h[i - 1]))
             /\ Len(h[i]) = Len(h[i - 1]) + Len(e[i])
  <2>1. i - 1 \in 0..n
    BY <1>1
  <2>2. h[i] = h[i - 1] \o e[i] /\ h[i - 1] \in Seq(Octet) /\ e[i] \in Seq(Octet)
    BY <2>1, <1>1, <1>2, <1>3
  <2>3. Stands(h[i - 1] \o e[i], b, at)
    BY <2>2, <1>4
  <2>4. /\ Stands(h[i - 1], b, at)
        /\ Stands(e[i], b, at + Len(h[i - 1]))
        /\ Len(h[i - 1] \o e[i]) = Len(h[i - 1]) + Len(e[i])
    BY <2>2, <2>3, StandsParts
  <2> QED
    BY <2>2, <2>4
<1>5. 0 \in T
  <2>1. n - 0 = n
    BY <1>1
  <2> QED
    BY <2>1, <1>1 DEF n
<1>6. ASSUME NEW i \in 0..n, i \in T, i < n PROVE i + 1 \in T
  <2>1. n - i \in 1..n /\ n - (i + 1) = (n - i) - 1 /\ i + 1 \in 0..n
    BY <1>1, <1>6
  <2>2. Stands(h[(n - i) - 1], b, at)
    BY <2>1, <1>4, <1>6
  <2> QED
    BY <2>1, <2>2
<1> HIDE DEF T
<1>7. 0..n \subseteq T
  BY <1>1, <1>5, <1>6, UpTo
<1>8. ASSUME NEW i \in 1..n PROVE Stands(h[i], b, at)
  <2>1. n - i \in 0..n /\ n - (n - i) = i
    BY <1>1
  <2> QED
    BY <2>1, <1>7 DEF T
<1>9. Len(h[0]) = 0
  BY <1>2
<1> QED
  BY <1>2, <1>4, <1>8, <1>9 DEF n, Laid

-------------------------------------------------------------------------------
(* Reads, one behind the other.                                                *)

Reading(n, reads, b, at, g) ==
  g = [i \in 0..n |->
         IF i = 0 THEN Ok(<<>>, at)
         ELSE IF g[i - 1].st = "ok"
              THEN IF reads[i][b][g[i - 1].at].st = "ok"
                   THEN Ok(Append(g[i - 1].v, reads[i][b][g[i - 1].at].v),
                           reads[i][b][g[i - 1].at].at)
                   ELSE reads[i][b][g[i - 1].at]
              ELSE g[i - 1]]

LEMMA ReadAllIs ==
  ASSUME NEW n, NEW reads, NEW b, NEW at
  PROVE  ReadAll(n, reads, b, at) = (CHOOSE g : Reading(n, reads, b, at, g))[n]
  BY DEF ReadAll, Reading, Then

\* Each of the n reads, where its encoding stands in b, gives its element of x.
ReadsEach(n, reads, e, x, b) ==
  \A i \in 1..n : \A p \in Nat :
    Stands(e[i], b, p) => reads[i][b][p] = Ok(x[i], p + Len(e[i]))

LEMMA SubSeqGrows ==
  ASSUME NEW X, NEW x \in Seq(X), NEW i \in 1..Len(x)
  PROVE  Append(SubSeq(x, 1, i - 1), x[i]) = SubSeq(x, 1, i)
<1> DEFINE s == SubSeq(x, 1, i - 1)
           t == SubSeq(x, 1, i)
<1>1. i \in Nat /\ i >= 1 /\ i <= Len(x) /\ Len(x) \in Nat /\ x[i] \in X
  OBVIOUS
<1>2. s \in Seq(X) /\ Len(s) = i - 1 /\ \A j \in 1..(i - 1) : s[j] = x[j]
  <2>1. CASE i = 1
    BY <2>1, <1>1
  <2>2. CASE i > 1
    BY <2>2, <1>1
  <2> QED
    BY <2>1, <2>2, <1>1
<1>3. t \in Seq(X) /\ Len(t) = i /\ \A j \in 1..i : t[j] = x[j]
  BY <1>1
<1> HIDE DEF s, t
<1>4. Append(s, x[i]) \in Seq(X) /\ Len(Append(s, x[i])) = i
  BY <1>1, <1>2
<1>5. ASSUME NEW j \in 1..i PROVE Append(s, x[i])[j] = t[j]
  <2>1. CASE j = i
    BY <2>1, <1>1, <1>2, <1>3
  <2>2. CASE j < i
    <3>1. j \in 1..(i - 1)
      BY <2>2, <1>1
    <3>2. Append(s, x[i])[j] = s[j]
      BY <3>1, <1>1, <1>2
    <3> QED
      BY <3>1, <3>2, <1>2, <1>3
  <2>3. \A m \in Nat : \A k \in 1..m : k = m \/ k < m
    OBVIOUS
  <2>4. j = i \/ j < i
    BY <2>3, <1>1
  <2> QED
    BY <2>1, <2>2, <2>4
<1>6. Append(s, x[i]) = t
  BY <1>3, <1>4, <1>5
<1> QED
  BY <1>6 DEF s, t

LEMMA ReadAllStands ==
  ASSUME NEW X, NEW x \in Seq(X), NEW e \in Seq(Seq(Octet)), Len(x) = Len(e), NEW reads,
         NEW b \in Seq(Octet), NEW at \in Nat,
         ReadsEach(Len(e), reads, e, x, b), Stands(FlattenSeq(e), b, at)
  PROVE  ReadAll(Len(e), reads, b, at) = Ok(x, at + Len(FlattenSeq(e)))
<1>1. PICK h : Joins(e, h) /\ FlattenSeq(e) = h[Len(e)]
  BY FlattenJoins
<1> DEFINE n == Len(e)
           l(i) == Len(h[i])
           g == [i \in 0..n |-> Ok(SubSeq(x, 1, i), at + l(i))]
           f == CHOOSE c : Reading(n, reads, b, at, c)
<1>2. n \in Nat
  OBVIOUS
<1>3. /\ \A i \in 0..n : l(i) \in Nat
      /\ l(0) = 0
      /\ \A i \in 1..n : Stands(e[i], b, at + l(i - 1)) /\ l(i) = l(i - 1) + Len(e[i])
  <2>1. Joins(e, h) /\ Stands(h[Len(e)], b, at)
    BY <1>1
  <2>2. Laid(e, h, b, at)
    BY <2>1, JoinsStands
  <2> QED
    BY <2>2 DEF Laid
<1> HIDE DEF n, l
<1>4. \A i \in 0..n : /\ g[i].st = "ok"
                      /\ g[i].v = SubSeq(x, 1, i)
                      /\ g[i].at = at + l(i)
                      /\ g[i] = Ok(SubSeq(x, 1, i), at + l(i))
  BY DEF Ok
<1>5. ASSUME NEW i \in 0..n
      PROVE  g[i] = IF i = 0 THEN Ok(<<>>, at)
                    ELSE IF g[i - 1].st = "ok"
                         THEN IF reads[i][b][g[i - 1].at].st = "ok"
                              THEN Ok(Append(g[i - 1].v, reads[i][b][g[i - 1].at].v),
                                      reads[i][b][g[i - 1].at].at)
                              ELSE reads[i][b][g[i - 1].at]
                         ELSE g[i - 1]
  <2>1. CASE i = 0
    <3>1. SubSeq(x, 1, 0) = <<>> /\ at + 0 = at
      OBVIOUS
    <3> QED
      BY <3>1, <2>1, <1>3, <1>4
  <2>2. CASE i \in 1..n
    <3>1. i - 1 \in 0..n
      BY <2>2, <1>2
    <3> DEFINE p == at + l(i - 1)
               r == reads[i][b][p]
    <3>2. p \in Nat
      BY <3>1, <1>3
    <3>3. r = Ok(x[i], p + Len(e[i]))
      BY <2>2, <3>2, <1>3 DEF ReadsEach, n
    <3>4. p + Len(e[i]) = at + l(i)
      <4>1. Len(e[i]) \in Nat
        BY <2>2 DEF n
      <4> QED
        BY <4>1, <2>2, <3>1, <1>3
    <3>5. g[i - 1].st = "ok" /\ g[i - 1].v = SubSeq(x, 1, i - 1) /\ g[i - 1].at = p
      BY <3>1, <1>4
    <3> HIDE DEF g, p, r
    <3>6. r.st = "ok" /\ r.v = x[i] /\ r.at = at + l(i)
      BY <3>3, <3>4 DEF Ok
    <3>7. Append(SubSeq(x, 1, i - 1), x[i]) = SubSeq(x, 1, i)
      BY <2>2, SubSeqGrows DEF n
    <3>8. ~(i = 0)
      BY <2>2, <1>2
    <3>9. g[i] = Ok(Append(g[i - 1].v, r.v), r.at)
      BY <3>5, <3>6, <3>7, <1>4
    <3>10. r = reads[i][b][g[i - 1].at]
      BY <3>5 DEF r
    <3> QED
      BY <3>5, <3>6, <3>8, <3>9, <3>10
  <2>3. i = 0 \/ i \in 1..n
    BY <1>2
  <2> HIDE DEF g
  <2> QED
    BY <2>1, <2>2, <2>3
<1>6. g = [i \in 0..n |-> g[i]]
  OBVIOUS
<1> HIDE DEF g
<1>7. Reading(n, reads, b, at, g)
  BY <1>5, <1>6 DEF Reading
<1>8. Reading(n, reads, b, at, f)
  BY <1>7
<1> HIDE DEF f
<1> DEFINE T == {i \in 0..n : f[i] = g[i]}
<1>9. 0 \in T
  BY <1>2, <1>7, <1>8 DEF Reading
<1>10. ASSUME NEW i \in 0..n, i \in T, i < n PROVE i + 1 \in T
  <2>1. i + 1 \in 0..n /\ ~(i + 1 = 0) /\ (i + 1) - 1 = i /\ f[i] = g[i]
    BY <1>2, <1>10
  <2> DEFINE q == IF f[i].st = "ok"
                  THEN IF reads[i + 1][b][f[i].at].st = "ok"
                       THEN Ok(Append(f[i].v, reads[i + 1][b][f[i].at].v),
                               reads[i + 1][b][f[i].at].at)
                       ELSE reads[i + 1][b][f[i].at]
                  ELSE f[i]
  <2>2. f[i + 1] = q
    BY <2>1, <1>8, Zenon DEF Reading
  <2> DEFINE p == IF g[i].st = "ok"
                  THEN IF reads[i + 1][b][g[i].at].st = "ok"
                       THEN Ok(Append(g[i].v, reads[i + 1][b][g[i].at].v),
                               reads[i + 1][b][g[i].at].at)
                       ELSE reads[i + 1][b][g[i].at]
                  ELSE g[i]
  <2>3. g[i + 1] = p
    <3>1. i + 1 \in 0..n /\ ~(i + 1 = 0) /\ (i + 1) - 1 = i
      BY <2>1
    <3> QED
      BY <3>1, <1>7, Zenon DEF Reading
  <2>4. p = q
    BY <2>1
  <2> QED
    BY <2>1, <2>2, <2>3, <2>4
<1> HIDE DEF T
<1>11. 0..n \subseteq T
  BY <1>2, <1>9, <1>10, UpTo
<1>12. f[n] = g[n]
  BY <1>2, <1>11 DEF T
<1>13. g[n] = Ok(x, at + l(n))
  <2>1. SubSeq(x, 1, Len(x)) = x
    OBVIOUS
  <2>2. n = Len(x) /\ n \in 0..n
    BY <1>2 DEF n
  <2> QED
    BY <2>1, <2>2, <1>4
<1> QED
  BY <1>1, <1>12, <1>13, ReadAllIs DEF f, n, l

-------------------------------------------------------------------------------
(* Lists, maps and options.                                                    *)

LEMMA FlattenType ==
  ASSUME NEW e \in Seq(Seq(Octet))
  PROVE  /\ FlattenSeq(e) \in Seq(Octet)
         /\ (\A i \in 1..Len(e) : Len(e[i]) >= 1) => Len(FlattenSeq(e)) >= Len(e)
<1>1. PICK h : Joins(e, h) /\ FlattenSeq(e) = h[Len(e)]
  BY FlattenJoins
<1>2. Len(e) \in 0..Len(e)
  OBVIOUS
<1>3. h[Len(e)] \in Seq(Octet)
  BY <1>1, <1>2, JoinsFacts
<1>4. ASSUME \A i \in 1..Len(e) : Len(e[i]) >= 1 PROVE Len(h[Len(e)]) >= Len(e)
  BY <1>1, <1>4, JoinsLength
<1> QED
  BY <1>1, <1>3, <1>4

LEMMA ManyParts ==
  ASSUME NEW f
  PROVE  /\ Many(f).vals = {s \in Seq(f.vals) : Len(s) \in Usize.vals}
         /\ \A s \in Many(f).vals :
              Many(f).write[s] =
                Usize.write[Len(s)] \o FlattenSeq([i \in 1..Len(s) |-> f.write[s[i]]])
         /\ \A b \in Seq(Octet) : \A at \in Nat :
              Many(f).read[b][at] =
                IF Usize.read[b][at].st = "ok"
                THEN IF Usize.read[b][at].v > Len(b) THEN Panic
                     ELSE ReadAll(Usize.read[b][at].v, [i \in 1..Usize.read[b][at].v |-> f.read],
                                  b, Usize.read[b][at].at)
                ELSE Usize.read[b][at]
<1>1. Many(f).vals = {s \in Seq(f.vals) : Len(s) \in Usize.vals}
  BY DEF Many, Format
<1>2. \A s \in Many(f).vals :
        Many(f).write[s] = Usize.write[Len(s)] \o FlattenSeq([i \in 1..Len(s) |-> f.write[s[i]]])
  BY DEF Many, Format
<1>3. \A b \in Seq(Octet) : \A at \in Nat :
        Many(f).read[b][at] =
          IF Usize.read[b][at].st = "ok"
          THEN IF Usize.read[b][at].v > Len(b) THEN Panic
               ELSE ReadAll(Usize.read[b][at].v, [i \in 1..Usize.read[b][at].v |-> f.read],
                            b, Usize.read[b][at].at)
          ELSE Usize.read[b][at]
  BY DEF Many, Format, Then
<1> QED
  BY <1>1, <1>2, <1>3

\* Elements that are read from encodings of at least a byte make a list.
LEMMA ManyMeans ==
  ASSUME NEW f, NEW X, NEW x \in Seq(X), NEW e \in Seq(Seq(Octet)), Len(x) = Len(e),
         Len(e) \in Usize.vals,
         \A i \in 1..Len(e) : Means(f, e[i], x[i]) /\ Len(e[i]) >= 1
  PROVE  Means(Many(f), Usize.write[Len(e)] \o FlattenSeq(e), x)
<1> DEFINE n == Len(e)
           c == FlattenSeq(e)
           h == Usize.write[n]
<1>1. n \in Nat /\ Len(x) = n /\ n \in Usize.vals
  OBVIOUS
<1>2. c \in Seq(Octet) /\ Len(c) >= n /\ Len(c) \in Nat
  BY FlattenType
<1>3. h \in Seq(Octet) /\ Len(h) = 8
  BY UsizeSound
<1> HIDE DEF n, c, h
<1>4. h \o c \in Seq(Octet)
  BY <1>2, <1>3
<1>5. ASSUME NEW b \in Seq(Octet), NEW at \in Nat, Stands(h \o c, b, at)
      PROVE  Many(f).read[b][at] = Ok(x, at + Len(h \o c))
  <2>1. Usize.read[b][at] = Ok(n, at + 8) /\ Stands(c, b, at + 8) /\ Len(h \o c) = 8 + Len(c)
    BY <1>1, <1>2, <1>5, LengthRead DEF h
  <2> DEFINE u == Usize.read[b][at]
  <2>2. u.st = "ok" /\ u.v = n /\ u.at = at + 8
    BY <2>1 DEF Ok
  <2>3. ~(n > Len(b))
    <3>1. (at + 8) + Len(c) <= Len(b) /\ Len(b) \in Nat
      BY <2>1 DEF Stands
    <3> QED
      BY <3>1, <1>1, <1>2
  <2> DEFINE reads == [i \in 1..n |-> f.read]
  <2>4. Many(f).read[b][at] = ReadAll(n, reads, b, at + 8)
    <3>1. Many(f).read[b][at] =
            IF u.st = "ok"
            THEN IF u.v > Len(b) THEN Panic ELSE ReadAll(u.v, [i \in 1..u.v |-> f.read], b, u.at)
            ELSE u
      BY ManyParts
    <3> HIDE DEF u
    <3>2. Many(f).read[b][at] = ReadAll(u.v, [i \in 1..u.v |-> f.read], b, u.at)
      BY <3>1, <2>2, <2>3
    <3> QED
      BY <3>2, <2>2
  <2>5. ReadsEach(n, reads, e, x, b)
    BY DEF ReadsEach, Means, n
  <2> HIDE DEF reads
  <2>6. at + 8 \in Nat
    OBVIOUS
  <2>7. ReadAll(n, reads, b, at + 8) = Ok(x, (at + 8) + Len(c))
    BY <1>1, <2>1, <2>5, <2>6, ReadAllStands DEF c, n
  <2>8. (at + 8) + Len(c) = at + Len(h \o c)
    BY <2>1, <1>2
  <2> QED
    BY <2>4, <2>7, <2>8
<1> QED
  BY <1>4, <1>5 DEF Means, n, c, h

\* The encodings of the elements of a list.
Written(f, s) == [i \in 1..Len(s) |-> f.write[s[i]]]

LEMMA WrittenFacts ==
  ASSUME NEW f, Sound(f), Filled(f), NEW s \in Seq(f.vals)
  PROVE  /\ Written(f, s) \in Seq(Seq(Octet))
         /\ Len(Written(f, s)) = Len(s)
         /\ \A i \in 1..Len(s) : /\ Written(f, s)[i] = f.write[s[i]]
                                 /\ Means(f, Written(f, s)[i], s[i])
                                 /\ Len(Written(f, s)[i]) >= 1
<1> DEFINE e == Written(f, s)
<1>1. \A i \in 1..Len(s) : s[i] \in f.vals
  OBVIOUS
<1>2. Len(s) \in Nat /\ e = [i \in 1..Len(s) |-> f.write[s[i]]]
  BY DEF Written
<1> HIDE DEF e
<1>3. \A i \in 1..Len(s) : /\ e[i] = f.write[s[i]]
                           /\ Means(f, e[i], s[i])
                           /\ Len(e[i]) >= 1
                           /\ e[i] \in Seq(Octet)
  BY <1>1, <1>2 DEF Sound, Filled, Means
<1>4. e \in [1..Len(s) -> Seq(Octet)]
  BY <1>2, <1>3
<1>5. e \in Seq(Seq(Octet)) /\ Len(e) = Len(s)
  BY <1>2, <1>4
<1> QED
  BY <1>3, <1>5 DEF e

LEMMA ManySound ==
  ASSUME NEW f, Sound(f), Filled(f)
  PROVE  Sound(Many(f)) /\ Filled(Many(f))
<1> SUFFICES ASSUME NEW s \in Many(f).vals
             PROVE  Means(Many(f), Many(f).write[s], s) /\ Len(Many(f).write[s]) >= 1
  BY DEF Sound, Filled
<1> DEFINE e == Written(f, s)
<1>1. s \in Seq(f.vals) /\ Len(s) \in Usize.vals
  BY ManyParts
<1>2. Many(f).write[s] = Usize.write[Len(s)] \o FlattenSeq(e)
  BY ManyParts DEF Written
<1>3. /\ e \in Seq(Seq(Octet)) /\ Len(e) = Len(s)
      /\ \A i \in 1..Len(s) : Means(f, e[i], s[i]) /\ Len(e[i]) >= 1
  BY <1>1, WrittenFacts
<1> HIDE DEF e
<1>4. Means(Many(f), Usize.write[Len(e)] \o FlattenSeq(e), s)
  BY <1>1, <1>3, ManyMeans
<1>5. Len(Usize.write[Len(s)] \o FlattenSeq(e)) >= 1
  <2> DEFINE h == Usize.write[Len(s)]
             c == FlattenSeq(e)
  <2>1. h \in Seq(Octet) /\ Len(h) = 8 /\ c \in Seq(Octet)
    BY <1>1, <1>3, UsizeSound, FlattenType
  <2> HIDE DEF h, c
  <2>2. Len(h \o c) = Len(h) + Len(c) /\ Len(c) \in Nat
    <3>1. h \in Seq(Octet) /\ c \in Seq(Octet)
      BY <2>1
    <3> QED
      BY <3>1
  <2>3. Len(h \o c) >= 1
    BY <2>1, <2>2
  <2> QED
    BY <2>3 DEF h, c
<1> QED
  BY <1>2, <1>3, <1>4, <1>5

LEMMA KeyedMeans ==
  ASSUME NEW key, NEW f, NEW e, NEW x, Means(Many(f), e, x)
  PROVE  Means(Keyed(key, f), e, Latest(key, x))
<1>1. \A b \in Seq(Octet) : \A at \in Nat :
        Keyed(key, f).read[b][at] =
          IF Many(f).read[b][at].st = "ok"
          THEN Ok(Latest(key, Many(f).read[b][at].v), Many(f).read[b][at].at)
          ELSE Many(f).read[b][at]
  BY DEF Keyed, Format, Then
<1>2. ASSUME NEW b \in Seq(Octet), NEW at \in Nat, Stands(e, b, at)
      PROVE  Keyed(key, f).read[b][at] = Ok(Latest(key, x), at + Len(e))
  <2> DEFINE r == Many(f).read[b][at]
  <2>1. r = Ok(x, at + Len(e))
    BY <1>2 DEF Means
  <2> HIDE DEF r
  <2>2. r.st = "ok" /\ r.v = x /\ r.at = at + Len(e)
    BY <2>1 DEF Ok
  <2>3. Keyed(key, f).read[b][at] = IF r.st = "ok" THEN Ok(Latest(key, r.v), r.at) ELSE r
    BY <1>1 DEF r
  <2> QED
    BY <2>2, <2>3
<1> QED
  BY <1>2 DEF Means

\* A byte in front: the number of a variant, or whether there is a value.
LEMMA ByteRead ==
  ASSUME NEW o \in Octet, NEW e \in Seq(Octet), NEW b \in Seq(Octet), NEW at \in Nat,
         Stands(<<o>> \o e, b, at)
  PROVE  /\ Slice(b, at, 1) = Ok(<<o>>, at + 1)
         /\ Stands(<<o>>, b, at)
         /\ Stands(e, b, at + 1)
         /\ Len(<<o>> \o e) = 1 + Len(e)
         /\ <<o>> \o e \in Seq(Octet)
<1> DEFINE h == <<o>>
<1>1. h \in Seq(Octet) /\ Len(h) = 1
  OBVIOUS
<1>2. Stands(h \o e, b, at)
  OBVIOUS
<1> HIDE DEF h
<1>3. Stands(h, b, at) /\ Stands(e, b, at + 1) /\ Len(h \o e) = 1 + Len(e) /\ h \o e \in Seq(Octet)
  BY <1>1, <1>2, StandsParts
<1>4. Slice(b, at, 1) = Ok(h, at + 1)
  BY <1>1, <1>3, StandsSlice
<1> QED
  BY <1>3, <1>4 DEF h

\* What is made of a flag.
Optional(f, b, r) ==
  IF r.st = "ok"
  THEN IF ~r.v THEN Ok(<<>>, r.at)
       ELSE IF f.read[b][r.at].st = "ok" THEN Ok(<<f.read[b][r.at].v>>, f.read[b][r.at].at)
            ELSE f.read[b][r.at]
  ELSE r

LEMMA MaybeParts ==
  ASSUME NEW f
  PROVE  /\ Maybe(f).vals = {<<>>} \cup [{1} -> f.vals]
         /\ \A v \in Maybe(f).vals :
              Maybe(f).write[v] = IF v = <<>> THEN <<0>> ELSE <<1>> \o f.write[v[1]]
         /\ \A b \in Seq(Octet) : \A at \in Nat :
              Maybe(f).read[b][at] = Optional(f, b, Flag.read[b][at])
<1>1. Maybe(f).vals = {<<>>} \cup [{1} -> f.vals]
  BY DEF Maybe, Format
<1>2. \A v \in Maybe(f).vals :
        Maybe(f).write[v] = IF v = <<>> THEN <<0>> ELSE <<1>> \o f.write[v[1]]
  BY DEF Maybe, Format
<1>3. \A b \in Seq(Octet) : \A at \in Nat :
        Maybe(f).read[b][at] = Optional(f, b, Flag.read[b][at])
  BY DEF Maybe, Format, Then, Optional
<1> QED
  BY <1>1, <1>2, <1>3

\* A flag in front.
LEMMA FlagRead ==
  ASSUME NEW v \in BOOLEAN, NEW e \in Seq(Octet), NEW b \in Seq(Octet), NEW at \in Nat,
         Stands(Flag.write[v] \o e, b, at)
  PROVE  /\ Flag.read[b][at] = Ok(v, at + 1)
         /\ Stands(e, b, at + 1)
         /\ Len(Flag.write[v] \o e) = 1 + Len(e)
         /\ Flag.write[v] \o e \in Seq(Octet)
<1> DEFINE h == Flag.write[v]
<1>1. Means(Flag, h, v) /\ Len(h) = 1
  BY FlagSound, FlagParts DEF Sound
<1>2. h \in Seq(Octet)
  BY <1>1 DEF Means
<1> HIDE DEF h
<1>3. Stands(h, b, at) /\ Stands(e, b, at + 1) /\ Len(h \o e) = 1 + Len(e) /\ h \o e \in Seq(Octet)
  BY <1>1, <1>2, StandsParts DEF h
<1>4. Flag.read[b][at] = Ok(v, at + 1)
  BY <1>1, <1>3 DEF Means
<1> QED
  BY <1>3, <1>4 DEF h

LEMMA MaybeSound ==
  ASSUME NEW f, Sound(f)
  PROVE  Sound(Maybe(f))
<1> SUFFICES ASSUME NEW v \in Maybe(f).vals PROVE Means(Maybe(f), Maybe(f).write[v], v)
  BY DEF Sound
<1>1. CASE v = <<>>
  <2> DEFINE e == Flag.write[FALSE]
  <2>1. Maybe(f).write[v] = e
    BY <1>1, MaybeParts, FlagParts
  <2>2. Means(Flag, e, FALSE)
    BY FlagSound, FlagParts DEF Sound
  <2> HIDE DEF e
  <2>3. ASSUME NEW b \in Seq(Octet), NEW at \in Nat, Stands(e, b, at)
        PROVE  Maybe(f).read[b][at] = Ok(<<>>, at + Len(e))
    <3> DEFINE r == Flag.read[b][at]
    <3>1. r = Ok(FALSE, at + Len(e))
      BY <2>2, <2>3 DEF Means
    <3>2. r.st = "ok" /\ ~r.v /\ r.at = at + Len(e)
      BY <3>1 DEF Ok
    <3>3. Maybe(f).read[b][at] = Optional(f, b, r)
      BY MaybeParts
    <3> HIDE DEF r
    <3> QED
      BY <3>2, <3>3 DEF Optional
  <2> QED
    BY <1>1, <2>1, <2>2, <2>3 DEF Means
<1>2. CASE v # <<>>
  <2>1. v \in [{1} -> f.vals] /\ v[1] \in f.vals
    BY <1>2, MaybeParts
  <2>2. <<v[1]>> = v
    BY <2>1
  <2> DEFINE h == Flag.write[TRUE]
             e == f.write[v[1]]
  <2>3. Maybe(f).write[v] = h \o e
    <3>1. h = <<1>>
      BY FlagParts
    <3> QED
      BY <3>1, <1>2, MaybeParts
  <2>4. Means(f, e, v[1]) /\ e \in Seq(Octet)
    BY <2>1 DEF Sound, Means
  <2> HIDE DEF e, h
  <2>5. h \o e \in Seq(Octet)
    <3>1. h \in Seq(Octet)
      BY FlagSound, FlagParts DEF Sound, Means, h
    <3> QED
      BY <2>4, <3>1
  <2>6. ASSUME NEW b \in Seq(Octet), NEW at \in Nat, Stands(h \o e, b, at)
        PROVE  Maybe(f).read[b][at] = Ok(<<v[1]>>, at + Len(h \o e))
    <3> DEFINE r == Flag.read[b][at]
               s == f.read[b][at + 1]
    <3>1. r = Ok(TRUE, at + 1) /\ Stands(e, b, at + 1) /\ Len(h \o e) = 1 + Len(e)
      BY <2>4, <2>6, FlagRead DEF h
    <3>2. r.st = "ok" /\ r.v = TRUE /\ r.at = at + 1
      BY <3>1 DEF Ok
    <3>3. s = Ok(v[1], (at + 1) + Len(e))
      <4>1. at + 1 \in Nat
        OBVIOUS
      <4> QED
        BY <4>1, <3>1, <2>4 DEF Means
    <3>4. (at + 1) + Len(e) = at + Len(h \o e)
      BY <3>1, <2>4
    <3>5. s.st = "ok" /\ s.v = v[1] /\ s.at = at + Len(h \o e)
      BY <3>3, <3>4 DEF Ok
    <3>6. Maybe(f).read[b][at] = Optional(f, b, r)
      BY MaybeParts
    <3> HIDE DEF r
    <3>7. Maybe(f).read[b][at] = IF s.st = "ok" THEN Ok(<<s.v>>, s.at) ELSE s
      BY <3>2, <3>6 DEF Optional
    <3> QED
      BY <3>5, <3>7
  <2> QED
    BY <2>2, <2>3, <2>5, <2>6 DEF Means
<1> QED
  BY <1>1, <1>2

-------------------------------------------------------------------------------
(* Structs.                                                                    *)

Names(fields) == {fields[i][1] : i \in 1..Len(fields)}
Place(fields, name) == CHOOSE i \in 1..Len(fields) : fields[i][1] = name

\* What is made of the values of the fields.
Assembled(fields, r) ==
  IF r.st = "ok"
  THEN Ok([name \in Names(fields) |-> r.v[Place(fields, name)]], r.at)
  ELSE r

LEMMA StructParts ==
  ASSUME NEW type, NEW fields
  PROVE  /\ Struct(type, fields).vals = type
         /\ \A v \in type :
              Struct(type, fields).write[v] =
                FlattenSeq([i \in 1..Len(fields) |-> fields[i][2].write[v[fields[i][1]]]])
         /\ \A b \in Seq(Octet) : \A at \in Nat :
              Struct(type, fields).read[b][at] =
                Assembled(fields,
                          ReadAll(Len(fields), [i \in 1..Len(fields) |-> fields[i][2].read], b, at))
<1>1. Struct(type, fields).vals = type
  BY DEF Struct, Format
<1>2. \A v \in type :
        Struct(type, fields).write[v] =
          FlattenSeq([i \in 1..Len(fields) |-> fields[i][2].write[v[fields[i][1]]]])
  BY DEF Struct, Format
<1>3. \A b \in Seq(Octet) : \A at \in Nat :
        Struct(type, fields).read[b][at] =
          Assembled(fields,
                    ReadAll(Len(fields), [i \in 1..Len(fields) |-> fields[i][2].read], b, at))
  BY DEF Struct, Format, Then, Assembled, Names, Place
<1> QED
  BY <1>1, <1>2, <1>3

\* n fields of different names.
Distinct(fields) == \A i, j \in 1..Len(fields) : fields[i][1] = fields[j][1] => i = j

LEMMA StructMeans ==
  ASSUME NEW type, NEW fields, NEW e \in Seq(Seq(Octet)), Len(fields) = Len(e), Distinct(fields),
         NEW x, x = [name \in Names(fields) |-> x[name]],
         \A i \in 1..Len(fields) : Means(fields[i][2], e[i], x[fields[i][1]])
  PROVE  Means(Struct(type, fields), FlattenSeq(e), x)
<1> DEFINE n == Len(fields)
           c == FlattenSeq(e)
           X == {x[name] : name \in Names(fields)}
           y == [i \in 1..n |-> x[fields[i][1]]]
           reads == [i \in 1..n |-> fields[i][2].read]
<1>1. n \in Nat /\ Len(e) = n
  OBVIOUS
<1>2. c \in Seq(Octet) /\ Len(c) \in Nat
  BY FlattenType
<1>3. y \in Seq(X) /\ Len(y) = n
  <2>1. \A i \in 1..n : y[i] \in X
    BY DEF Names
  <2>2. y \in [1..n -> X]
    BY <2>1
  <2>3. \A m \in Nat : \A s \in [1..m -> X] : s \in Seq(X) /\ Len(s) = m
    OBVIOUS
  <2> HIDE DEF n, X, y
  <2> QED
    BY <2>2, <2>3, <1>1
<1>4. [name \in Names(fields) |-> y[Place(fields, name)]] = x
  <2>1. ASSUME NEW name \in Names(fields) PROVE y[Place(fields, name)] = x[name]
    <3>1. \E i \in 1..n : fields[i][1] = name
      BY DEF Names
    <3>2. Place(fields, name) \in 1..n /\ fields[Place(fields, name)][1] = name
      BY <3>1 DEF Place
    <3> QED
      BY <3>2
  <2> QED
    BY <2>1
<1> HIDE DEF c
<1>5. ASSUME NEW b \in Seq(Octet), NEW at \in Nat, Stands(c, b, at)
      PROVE  Struct(type, fields).read[b][at] = Ok(x, at + Len(c))
  <2> DEFINE r == ReadAll(n, reads, b, at)
  <2>1. ReadsEach(n, reads, e, y, b)
    BY DEF ReadsEach, Means
  <2>2. Struct(type, fields).read[b][at] = Assembled(fields, r)
    BY StructParts
  <2> HIDE DEF n, X, y, reads
  <2>3. r = Ok(y, at + Len(c))
    BY <1>1, <1>3, <1>5, <2>1, ReadAllStands DEF c
  <2> HIDE DEF r
  <2>4. r.st = "ok" /\ r.v = y /\ r.at = at + Len(c)
    BY <2>3 DEF Ok
  <2>5. Assembled(fields, r) = Ok([name \in Names(fields) |-> y[Place(fields, name)]], at + Len(c))
    BY <2>4 DEF Assembled
  <2> QED
    BY <2>2, <2>5, <1>4
<1> QED
  BY <1>2, <1>5 DEF Means, c

\* The type is that of the fields.
Fits(type, fields) ==
  /\ Len(fields) \in Nat
  /\ Distinct(fields)
  /\ \A v \in type : /\ v = [name \in Names(fields) |-> v[name]]
                     /\ \A i \in 1..Len(fields) : v[fields[i][1]] \in fields[i][2].vals

\* The encodings of the fields of a value.
FieldsWritten(fields, v) == [i \in 1..Len(fields) |-> fields[i][2].write[v[fields[i][1]]]]

LEMMA FieldsWrittenFacts ==
  ASSUME NEW type, NEW fields, Fits(type, fields), \A i \in 1..Len(fields) : Sound(fields[i][2]),
         NEW v \in type
  PROVE  /\ FieldsWritten(fields, v) \in Seq(Seq(Octet))
         /\ Len(FieldsWritten(fields, v)) = Len(fields)
         /\ \A i \in 1..Len(fields) :
              Means(fields[i][2], FieldsWritten(fields, v)[i], v[fields[i][1]])
<1> DEFINE e == FieldsWritten(fields, v)
<1>1. \A i \in 1..Len(fields) : v[fields[i][1]] \in fields[i][2].vals
  BY DEF Fits
<1>2. Len(fields) \in Nat /\ e = [i \in 1..Len(fields) |-> fields[i][2].write[v[fields[i][1]]]]
  BY DEF FieldsWritten, Fits
<1> HIDE DEF e
<1>3. \A i \in 1..Len(fields) : /\ Means(fields[i][2], e[i], v[fields[i][1]])
                                /\ e[i] \in Seq(Octet)
  BY <1>1, <1>2 DEF Sound, Means
<1>4. e \in [1..Len(fields) -> Seq(Octet)]
  BY <1>2, <1>3
<1>5. e \in Seq(Seq(Octet)) /\ Len(e) = Len(fields)
  BY <1>2, <1>4
<1> QED
  BY <1>3, <1>5 DEF e

LEMMA StructSound ==
  ASSUME NEW type, NEW fields, Fits(type, fields), \A i \in 1..Len(fields) : Sound(fields[i][2])
  PROVE  Sound(Struct(type, fields))
<1> SUFFICES ASSUME NEW v \in type
             PROVE  Means(Struct(type, fields), Struct(type, fields).write[v], v)
  BY StructParts DEF Sound
<1> DEFINE e == FieldsWritten(fields, v)
<1>1. Struct(type, fields).write[v] = FlattenSeq(e)
  BY StructParts DEF FieldsWritten
<1>2. /\ e \in Seq(Seq(Octet)) /\ Len(e) = Len(fields)
      /\ \A i \in 1..Len(fields) : Means(fields[i][2], e[i], v[fields[i][1]])
  BY FieldsWrittenFacts
<1> HIDE DEF e
<1>3. Distinct(fields) /\ v = [name \in Names(fields) |-> v[name]]
  BY DEF Fits
<1>4. Means(Struct(type, fields), FlattenSeq(e), v)
  BY <1>2, <1>3, StructMeans
<1> QED
  BY <1>1, <1>4

-------------------------------------------------------------------------------
(* Enums.                                                                      *)

Collects(variants, g) ==
  g = [i \in 0..Len(variants) |->
         IF i = 0 THEN {} ELSE g[i - 1] \cup ({variants[i][1]} \X variants[i][2].vals)]
Collected(variants) == CHOOSE g : Collects(variants, g)

Index(variants, v) == CHOOSE i \in 1..Len(variants) : variants[i][1] = v[1]

\* What is made of the number of a variant.
Chosen(variants, b, r) ==
  IF r.st = "ok"
  THEN IF r.v[1] + 1 > Len(variants) THEN Error
       ELSE IF variants[r.v[1] + 1][2].read[b][r.at].st = "ok"
            THEN Ok(Val(variants[r.v[1] + 1][1], variants[r.v[1] + 1][2].read[b][r.at].v),
                    variants[r.v[1] + 1][2].read[b][r.at].at)
            ELSE variants[r.v[1] + 1][2].read[b][r.at]
  ELSE r

LEMMA EnumParts ==
  ASSUME NEW variants
  PROVE  /\ Enum(variants).vals = Collected(variants)[Len(variants)]
         /\ \A v \in Enum(variants).vals :
              Enum(variants).write[v] =
                <<Index(variants, v) - 1>> \o variants[Index(variants, v)][2].write[v[2]]
         /\ \A b \in Seq(Octet) : \A at \in Nat :
              Enum(variants).read[b][at] = Chosen(variants, b, Slice(b, at, 1))
<1>1. Enum(variants).vals = Collected(variants)[Len(variants)]
  BY DEF Enum, Format, Collected, Collects
<1>2. \A v \in Enum(variants).vals :
        Enum(variants).write[v] =
          <<Index(variants, v) - 1>> \o variants[Index(variants, v)][2].write[v[2]]
  BY Zenon DEF Enum, Format, Index
<1>3. \A b \in Seq(Octet) : \A at \in Nat :
        Enum(variants).read[b][at] = Chosen(variants, b, Slice(b, at, 1))
  BY DEF Enum, Format, Then, Chosen
<1> QED
  BY <1>1, <1>2, <1>3

LEMMA EnumVals ==
  ASSUME NEW variants, Len(variants) \in Nat, NEW v \in Enum(variants).vals
  PROVE  \E i \in 1..Len(variants) : v \in {variants[i][1]} \X variants[i][2].vals
<1> DEFINE n == Len(variants)
           P(i) == {variants[i][1]} \X variants[i][2].vals
           g == [i \in 0..n |-> {x \in UNION {P(j) : j \in 1..n} : \E j \in 1..i : x \in P(j)}]
           f == Collected(variants)
<1>1. n \in Nat
  OBVIOUS
<1> HIDE DEF n, P
<1>2. \A i \in 0..n : \A x : x \in g[i] <=> \E j \in 1..i : x \in P(j)
  <2> TAKE i \in 0..n
  <2> TAKE x
  <2>1. \A j \in 1..i : j \in 1..n
    BY <1>1
  <2> QED
    BY <2>1
<1>3. g = [i \in 0..n |-> g[i]]
  OBVIOUS
<1> HIDE DEF g
<1>4. ASSUME NEW i \in 0..n
      PROVE  g[i] = IF i = 0 THEN {} ELSE g[i - 1] \cup P(i)
  <2>1. CASE i = 0
    <3>1. \A x : x \notin g[0]
      BY <1>1, <1>2
    <3> QED
      BY <2>1, <3>1
  <2>2. CASE i \in 1..n
    <3>1. i - 1 \in 0..n /\ ~(i = 0)
      BY <2>2, <1>1
    <3>2. \A j : j \in 1..i <=> j \in 1..(i - 1) \/ j = i
      BY <2>2, <1>1
    <3>3. \A x : x \in g[i] <=> x \in g[i - 1] \/ x \in P(i)
      BY <3>1, <3>2, <1>2
    <3> QED
      BY <3>1, <3>3
  <2> QED
    BY <2>1, <2>2, <1>1
<1>5. Collects(variants, g)
  BY <1>3, <1>4 DEF Collects, n, P
<1>6. Collects(variants, f)
  BY <1>5 DEF Collected
<1> HIDE DEF f
<1> DEFINE T == {i \in 0..n : f[i] = g[i]}
<1>7. f = [i \in 0..n |-> IF i = 0 THEN {} ELSE f[i - 1] \cup P(i)]
  BY <1>6 DEF Collects, n, P
<1>8. 0 \in T
  <2>1. 0 \in 0..n
    BY <1>1
  <2>2. f[0] = {} /\ g[0] = {}
    BY <2>1, <1>4, <1>7
  <2> QED
    BY <2>1, <2>2
<1>9. ASSUME NEW i \in 0..n, i \in T, i < n PROVE i + 1 \in T
  <2>1. i + 1 \in 0..n /\ ~(i + 1 = 0) /\ (i + 1) - 1 = i /\ f[i] = g[i]
    BY <1>1, <1>9
  <2>2. f[i + 1] = f[i] \cup P(i + 1)
    BY <2>1, <1>7
  <2>3. g[i + 1] = g[i] \cup P(i + 1)
    BY <2>1, <1>4
  <2> QED
    BY <2>1, <2>2, <2>3
<1> HIDE DEF T
<1>10. 0..n \subseteq T
  BY <1>1, <1>8, <1>9, UpTo
<1>11. f[n] = g[n]
  BY <1>1, <1>10 DEF T
<1>12. v \in g[n]
  BY <1>11, EnumParts DEF f, n
<1>13. n \in 0..n
  BY <1>1
<1>14. \E j \in 1..n : v \in P(j)
  BY <1>2, <1>12, <1>13
<1> QED
  BY <1>14 DEF n, P

\* A value is written as the number of its variant and what the variant holds.
LEMMA EnumWritten ==
  ASSUME NEW variants, Len(variants) \in Nat, Distinct(variants), NEW v \in Enum(variants).vals
  PROVE  \E i \in 1..Len(variants) :
           /\ v = Val(variants[i][1], v[2])
           /\ v[1] = variants[i][1]
           /\ v[2] \in variants[i][2].vals
           /\ Enum(variants).write[v] = <<i - 1>> \o variants[i][2].write[v[2]]
<1>1. PICK i \in 1..Len(variants) : v \in {variants[i][1]} \X variants[i][2].vals
  BY EnumVals
<1>2. v = Val(variants[i][1], v[2]) /\ v[1] = variants[i][1] /\ v[2] \in variants[i][2].vals
  BY <1>1 DEF Val
<1>3. Index(variants, v) = i
  <2>1. Index(variants, v) \in 1..Len(variants) /\ variants[Index(variants, v)][1] = v[1]
    BY <1>2 DEF Index
  <2> QED
    BY <2>1, <1>2 DEF Distinct
<1>4. Enum(variants).write[v] = <<i - 1>> \o variants[i][2].write[v[2]]
  BY <1>3, EnumParts
<1> QED
  BY <1>2, <1>4

\* The number of a variant is a byte.
Numbered(variants) == Len(variants) \in 0..256

LEMMA EnumMeans ==
  ASSUME NEW variants, Numbered(variants), NEW i \in 1..Len(variants), NEW e, NEW x,
         Means(variants[i][2], e, x)
  PROVE  /\ Means(Enum(variants), <<i - 1>> \o e, Val(variants[i][1], x))
         /\ Len(<<i - 1>> \o e) >= 1
<1>1. i - 1 \in Octet /\ (i - 1) + 1 = i /\ ~(i > Len(variants)) /\ i \in Nat
  <2>1. \A m \in 0..256 : \A k \in 1..m :
          k - 1 \in 0..255 /\ (k - 1) + 1 = k /\ ~(k > m) /\ k \in Nat
    OBVIOUS
  <2> QED
    BY <2>1, Zenon DEF Octet, Numbered
<1> DEFINE o == i - 1
           h == <<o>>
<1>2. e \in Seq(Octet) /\ h \in Seq(Octet) /\ Len(h) = 1 /\ h[1] = o
  BY <1>1 DEF Means
<1>3. h \o e \in Seq(Octet) /\ Len(h \o e) = 1 + Len(e) /\ Len(e) \in Nat
  <2> HIDE DEF h
  <2>1. h \in Seq(Octet) /\ e \in Seq(Octet)
    BY <1>2
  <2>2. h \o e \in Seq(Octet) /\ Len(h \o e) = Len(h) + Len(e) /\ Len(e) \in Nat
    BY <2>1
  <2> QED
    BY <2>2, <1>2
<1> HIDE DEF o
<1>4. ASSUME NEW b \in Seq(Octet), NEW at \in Nat, Stands(h \o e, b, at)
      PROVE  Enum(variants).read[b][at] = Ok(Val(variants[i][1], x), at + Len(h \o e))
  <2> DEFINE r == Slice(b, at, 1)
             s == variants[i][2].read[b][at + 1]
  <2>1. r = Ok(h, at + 1) /\ Stands(e, b, at + 1)
    BY <1>1, <1>2, <1>4, ByteRead DEF o
  <2>2. r.st = "ok" /\ r.v = h /\ r.at = at + 1
    BY <2>1 DEF Ok
  <2>3. s = Ok(x, (at + 1) + Len(e))
    <3>1. at + 1 \in Nat
      OBVIOUS
    <3> QED
      BY <2>1, <3>1 DEF Means
  <2>4. (at + 1) + Len(e) = at + Len(h \o e)
    BY <1>3
  <2>5. s.st = "ok" /\ s.v = x /\ s.at = at + Len(h \o e)
    BY <2>3, <2>4 DEF Ok
  <2>6. Enum(variants).read[b][at] = Chosen(variants, b, r)
    BY EnumParts, Zenon
  <2> HIDE DEF r
  <2>7. r.v[1] + 1 = i
    BY <2>2, <1>2, <1>1 DEF o
  <2> HIDE DEF h
  <2>8. Chosen(variants, b, r) = IF s.st = "ok" THEN Ok(Val(variants[i][1], s.v), s.at) ELSE s
    BY <2>2, <2>7, <1>1 DEF Chosen
  <2> QED
    BY <2>5, <2>6, <2>8
<1>5. Means(Enum(variants), h \o e, Val(variants[i][1], x))
  BY <1>3, <1>4 DEF Means
<1>6. Len(h \o e) >= 1
  BY <1>3
<1> QED
  BY <1>5, <1>6 DEF o

LEMMA EnumSound ==
  ASSUME NEW variants, Numbered(variants), Distinct(variants),
         \A i \in 1..Len(variants) : Sound(variants[i][2])
  PROVE  Sound(Enum(variants)) /\ Filled(Enum(variants))
<1> SUFFICES ASSUME NEW v \in Enum(variants).vals
             PROVE  /\ Means(Enum(variants), Enum(variants).write[v], v)
                    /\ Len(Enum(variants).write[v]) >= 1
  BY DEF Sound, Filled
<1>1. Len(variants) \in Nat
  BY DEF Numbered
<1>2. PICK i \in 1..Len(variants) :
        /\ v = Val(variants[i][1], v[2])
        /\ v[2] \in variants[i][2].vals
        /\ Enum(variants).write[v] = <<i - 1>> \o variants[i][2].write[v[2]]
  BY <1>1, EnumWritten, Zenon
<1>3. Means(variants[i][2], variants[i][2].write[v[2]], v[2])
  BY <1>2, Zenon DEF Sound
<1>4. /\ Means(Enum(variants), <<i - 1>> \o variants[i][2].write[v[2]], Val(variants[i][1], v[2]))
      /\ Len(<<i - 1>> \o variants[i][2].write[v[2]]) >= 1
  BY <1>3, EnumMeans, Zenon
<1> QED
  BY <1>2, <1>4, Zenon

-------------------------------------------------------------------------------
(* The formats of protocol.rs and packet.rs that both programs have.           *)

Solid(f) == Sound(f) /\ Filled(f)

LEMMA StructSolid ==
  ASSUME NEW type, NEW fields, Fits(type, fields), Len(fields) >= 1,
         \A i \in 1..Len(fields) : Solid(fields[i][2])
  PROVE  Solid(Struct(type, fields))
<1>1. \A i \in 1..Len(fields) : Sound(fields[i][2])
  BY DEF Solid
<1>2. Sound(Struct(type, fields))
  BY <1>1, StructSound
<1>3. ASSUME NEW v \in type PROVE Len(Struct(type, fields).write[v]) >= 1
  <2> DEFINE e == FieldsWritten(fields, v)
  <2>1. Struct(type, fields).write[v] = FlattenSeq(e)
    BY StructParts DEF FieldsWritten
  <2>2. e \in Seq(Seq(Octet)) /\ Len(e) = Len(fields)
    BY <1>1, FieldsWrittenFacts
  <2>3. \A i \in 1..Len(fields) : Len(e[i]) >= 1
    <3> TAKE i \in 1..Len(fields)
    <3>1. e[i] = fields[i][2].write[v[fields[i][1]]]
      BY DEF FieldsWritten
    <3>2. v[fields[i][1]] \in fields[i][2].vals
      BY DEF Fits
    <3> QED
      BY <3>1, <3>2 DEF Solid, Filled
  <2> HIDE DEF e
  <2>4. Len(FlattenSeq(e)) >= Len(e) /\ FlattenSeq(e) \in Seq(Octet)
    BY <2>2, <2>3, FlattenType
  <2>5. Len(FlattenSeq(e)) \in Nat /\ Len(fields) \in Nat
    BY <2>4 DEF Fits
  <2>6. Len(FlattenSeq(e)) >= 1
    BY <2>2, <2>4, <2>5
  <2> QED
    BY <2>1, <2>6
<1>4. Filled(Struct(type, fields))
  BY <1>3, StructParts DEF Filled
<1> QED
  BY <1>2, <1>4 DEF Solid

LEMMA StructOfTwo ==
  ASSUME NEW R, NEW m, NEW n, m # n, NEW f, NEW g, Solid(f), Solid(g),
         \A v \in R : v = [name \in {m, n} |-> v[name]] /\ v[m] \in f.vals /\ v[n] \in g.vals
  PROVE  Solid(Struct(R, <<<<m, f>>, <<n, g>>>>))
<1> DEFINE fields == <<<<m, f>>, <<n, g>>>>
<1>1. /\ Len(fields) = 2
      /\ fields[1][1] = m /\ fields[1][2] = f
      /\ fields[2][1] = n /\ fields[2][2] = g
  OBVIOUS
<1> HIDE DEF fields
<1>2. \A i \in 1..Len(fields) : i = 1 \/ i = 2
  BY <1>1
<1>3. Distinct(fields)
  BY <1>1, <1>2 DEF Distinct
<1>4. Names(fields) = {m, n}
  BY <1>1, <1>2 DEF Names
<1>5. Fits(R, fields)
  BY <1>1, <1>2, <1>3, <1>4 DEF Fits
<1>6. Len(fields) >= 1 /\ \A i \in 1..Len(fields) : Solid(fields[i][2])
  BY <1>1, <1>2
<1>7. Solid(Struct(R, fields))
  BY <1>5, <1>6, StructSolid
<1> QED
  BY <1>7 DEF fields

LEMMA EnumOfTwo ==
  ASSUME NEW m, NEW n, m # n, NEW f, NEW g, Sound(f), Sound(g)
  PROVE  Solid(Enum(<<<<m, f>>, <<n, g>>>>))
<1> DEFINE variants == <<<<m, f>>, <<n, g>>>>
<1>1. /\ Len(variants) = 2
      /\ variants[1][1] = m /\ variants[1][2] = f
      /\ variants[2][1] = n /\ variants[2][2] = g
  OBVIOUS
<1> HIDE DEF variants
<1>2. \A i \in 1..Len(variants) : i = 1 \/ i = 2
  BY <1>1
<1>3. Distinct(variants)
  BY <1>1, <1>2 DEF Distinct
<1>4. Numbered(variants) /\ \A i \in 1..Len(variants) : Sound(variants[i][2])
  BY <1>1, <1>2 DEF Numbered
<1>5. Solid(Enum(variants))
  BY <1>3, <1>4, EnumSound DEF Solid
<1> QED
  BY <1>5 DEF variants

LEMMA UintSolid == ASSUME NEW w \in Nat \ {0} PROVE Solid(Uint(w))
<1>1. \A n \in Uint(w).vals : Len(Uint(w).write[n]) >= 1
  BY UintSound
<1> QED
  BY <1>1, UintSound DEF Solid, Filled

LEMMA SintSolid == ASSUME NEW w \in Nat \ {0} PROVE Solid(Sint(w))
<1>1. \A n \in Sint(w).vals : Len(Sint(w).write[n]) >= 1
  BY SintSound
<1> QED
  BY <1>1, SintSound DEF Solid, Filled

LEMMA FlagSolid == Solid(Flag)
<1>1. \A v \in Flag.vals : Len(Flag.write[v]) >= 1
  BY FlagSound
<1> QED
  BY <1>1, FlagSound DEF Solid, Filled

LEMMA TextSolid == Solid(Text)
  BY TextSound DEF Solid

LEMMA ManySolid == ASSUME NEW f, Solid(f) PROVE Solid(Many(f))
  BY ManySound DEF Solid

LEMMA UnitSound == Sound(Unit)
<1> DEFINE none == << >>
<1>1. Len(none) = 0 /\ 1..0 = {}
  OBVIOUS
<1> HIDE DEF none
<1>2. Distinct(none) /\ Names(none) = {} /\ \A i \in 1..Len(none) : FALSE
  BY <1>1 DEF Distinct, Names
<1>3. Fits({<< >>}, none)
  <2>1. << >> = [name \in {} |-> << >>[name]]
    OBVIOUS
  <2> QED
    BY <2>1, <1>1, <1>2 DEF Fits
<1>4. Sound(Struct({<< >>}, none))
  BY <1>2, <1>3, StructSound
<1> QED
  BY <1>4 DEF Unit, none

LEMMA Numbers ==
  /\ Solid(S!U128) /\ Solid(S!U64) /\ Solid(S!U32) /\ Solid(S!U16) /\ Solid(S!U8)
  /\ Solid(S!I64) /\ Solid(S!I32) /\ Solid(S!I16) /\ Solid(S!I8)
  /\ Solid(S!F32) /\ Solid(S!F64) /\ Solid(S!Uuid) /\ Solid(S!UserUuid)
<1>1. {1, 2, 4, 8, 16, 32} \subseteq Nat \ {0}
  OBVIOUS
<1> QED
  BY <1>1, UintSolid, SintSolid
  DEF S!U128, S!U64, S!U32, S!U16, S!U8, S!I64, S!I32, S!I16, S!I8, S!F32, S!F64, S!Uuid,
      S!UserUuid

LEMMA SameNumbers ==
  /\ S!U128 = C!U128 /\ S!U64 = C!U64 /\ S!U32 = C!U32 /\ S!U16 = C!U16 /\ S!U8 = C!U8
  /\ S!I64 = C!I64 /\ S!I32 = C!I32 /\ S!I16 = C!I16 /\ S!I8 = C!I8
  /\ S!F32 = C!F32 /\ S!F64 = C!F64 /\ S!Uuid = C!Uuid /\ S!UserUuid = C!UserUuid
  /\ S!Bool = C!Bool /\ S!Bool = Flag /\ S!String = C!String /\ S!String = Text
  BY DEF S!U128, S!U64, S!U32, S!U16, S!U8, S!I64, S!I32, S!I16, S!I8, S!F32, S!F64, S!Uuid,
         S!UserUuid, S!Bool, S!String, C!U128, C!U64, C!U32, C!U16, C!U8, C!I64, C!I32, C!I16,
         C!I8, C!F32, C!F64, C!Uuid, C!UserUuid, C!Bool, C!String

LEMMA DurationSolid == Solid(S!Duration) /\ S!Duration = C!Duration
<1> DEFINE R == [secs: S!U64.vals, subsec_nanos: S!U32.vals]
<1>1. \A v \in R : /\ v = [name \in {"secs", "subsec_nanos"} |-> v[name]]
                   /\ v["secs"] \in S!U64.vals /\ v["subsec_nanos"] \in S!U32.vals
  OBVIOUS
<1> HIDE DEF R
<1>2. Solid(Struct(R, <<<<"secs", S!U64>>, <<"subsec_nanos", S!U32>>>>))
  BY <1>1, StructOfTwo, Numbers
<1>3. S!Duration = C!Duration
  BY SameNumbers DEF S!Duration, C!Duration
<1> QED
  BY <1>2, <1>3 DEF S!Duration, R

LEMMA U256Solid == Solid(S!U256) /\ S!U256 = C!U256
<1> DEFINE R == [lo: S!U128.vals, hi: S!U128.vals]
<1>1. \A v \in R : /\ v = [name \in {"lo", "hi"} |-> v[name]]
                   /\ v["lo"] \in S!U128.vals /\ v["hi"] \in S!U128.vals
  OBVIOUS
<1> HIDE DEF R
<1>2. Solid(Struct(R, <<<<"lo", S!U128>>, <<"hi", S!U128>>>>))
  BY <1>1, StructOfTwo, Numbers
<1>3. S!U256 = C!U256
  BY SameNumbers DEF S!U256, C!U256
<1> QED
  BY <1>2, <1>3 DEF S!U256, R

LEMMA SubClientSolid ==
  Solid(S!ChannelSubClientUpdate) /\ S!ChannelSubClientUpdate = C!ChannelSubClientUpdate
<1>2. Solid(Enum(<<<<"Add", S!UserUuid>>, <<"Remove", S!UserUuid>>>>))
  BY EnumOfTwo, Numbers DEF Solid
<1>3. S!ChannelSubClientUpdate = C!ChannelSubClientUpdate
  BY SameNumbers DEF S!ChannelSubClientUpdate, C!ChannelSubClientUpdate
<1> QED
  BY <1>2, <1>3 DEF S!ChannelSubClientUpdate

LEMMA GroupUpdateSolid ==
  Solid(S!ClientUpdateServerGroups) /\ S!ClientUpdateServerGroups = C!ClientUpdateServerGroups
<1>2. Solid(Enum(<<<<"Add", S!Uuid>>, <<"Remove", S!Uuid>>>>))
  BY EnumOfTwo, Numbers DEF Solid
<1>3. S!ClientUpdateServerGroups = C!ClientUpdateServerGroups
  BY SameNumbers DEF S!ClientUpdateServerGroups, C!ClientUpdateServerGroups
<1> QED
  BY <1>2, <1>3 DEF S!ClientUpdateServerGroups

LEMMA BoolSolid == Solid(S!Bool) /\ S!Bool = C!Bool
  BY FlagSolid, SameNumbers

LEMMA StringSolid == Solid(S!String) /\ S!String = C!String
  BY TextSolid, SameNumbers

LEMMA ListsSolid ==
  /\ Solid(S!Vec(S!Uuid)) /\ S!Vec(S!Uuid) = C!Vec(C!Uuid)
  /\ Solid(S!Vec(S!U8)) /\ S!Vec(S!U8) = C!Vec(C!U8)
  /\ Solid(S!Vec(S!U256)) /\ S!Vec(S!U256) = C!Vec(C!U256)
  BY ManySolid, Numbers, SameNumbers, U256Solid DEF S!Vec, C!Vec

LEMMA ChannelPermsSolid == Solid(S!ChannelPerms) /\ S!ChannelPerms = C!ChannelPerms
<1> DEFINE f ==
             <<<<"see", S!U64>>, <<"join", S!U64>>, <<"modify", S!U64>>, <<"talk", S!U64>>,
             <<"assign_talk", S!U64>>, <<"delete", S!U64>>>>
           R ==
             [see: S!U64.vals, join: S!U64.vals, modify: S!U64.vals, talk: S!U64.vals,
             assign_talk: S!U64.vals, delete: S!U64.vals]
           N ==
             {"see", "join", "modify", "talk", "assign_talk", "delete"}
<1>1. /\ Len(f) = 6
      /\ f[1][1] = "see" /\ f[1][2] = S!U64
      /\ f[2][1] = "join" /\ f[2][2] = S!U64
      /\ f[3][1] = "modify" /\ f[3][2] = S!U64
      /\ f[4][1] = "talk" /\ f[4][2] = S!U64
      /\ f[5][1] = "assign_talk" /\ f[5][2] = S!U64
      /\ f[6][1] = "delete" /\ f[6][2] = S!U64
  OBVIOUS
<1>2. \A v \in R : v = [name \in N |-> v[name]]
  OBVIOUS
<1>3. \A v \in R :
        /\ v["see"] \in S!U64.vals
        /\ v["join"] \in S!U64.vals
        /\ v["modify"] \in S!U64.vals
        /\ v["talk"] \in S!U64.vals
        /\ v["assign_talk"] \in S!U64.vals
        /\ v["delete"] \in S!U64.vals
  OBVIOUS
<1> HIDE DEF f, R
<1>4. \A i \in 1..Len(f) : i = 1 \/ i = 2 \/ i = 3 \/ i = 4 \/ i = 5 \/ i = 6
  BY <1>1
<1>5. Distinct(f)
  BY <1>1, <1>4 DEF Distinct
<1>6. Names(f) = N
  BY <1>1, <1>4 DEF Names
<1> HIDE DEF N
<1>7. Fits(R, f)
  BY <1>1, <1>2, <1>3, <1>4, <1>5, <1>6 DEF Fits
<1>8. Len(f) >= 1 /\ \A i \in 1..Len(f) : Solid(f[i][2])
  BY <1>1, <1>4, Numbers
<1>9. Solid(Struct(R, f))
  BY <1>7, <1>8, StructSolid
<1>10. S!ChannelPerms = C!ChannelPerms
  BY SameNumbers DEF S!ChannelPerms, C!ChannelPerms
<1> QED
  BY <1>9, <1>10 DEF S!ChannelPerms, f, R

LEMMA CreatePermsSolid == Solid(S!ChannelCreatePerms) /\ S!ChannelCreatePerms = C!ChannelCreatePerms
<1> DEFINE f ==
             <<<<"power", S!U64>>, <<"set_desc", S!Bool>>, <<"set_password", S!Bool>>,
             <<"resort_channel", S!Bool>>>>
           R ==
             [power: S!U64.vals, set_desc: S!Bool.vals, set_password: S!Bool.vals,
             resort_channel: S!Bool.vals]
           N ==
             {"power", "set_desc", "set_password", "resort_channel"}
<1>1. /\ Len(f) = 4
      /\ f[1][1] = "power" /\ f[1][2] = S!U64
      /\ f[2][1] = "set_desc" /\ f[2][2] = S!Bool
      /\ f[3][1] = "set_password" /\ f[3][2] = S!Bool
      /\ f[4][1] = "resort_channel" /\ f[4][2] = S!Bool
  OBVIOUS
<1>2. \A v \in R : v = [name \in N |-> v[name]]
  OBVIOUS
<1>3. \A v \in R :
        /\ v["power"] \in S!U64.vals
        /\ v["set_desc"] \in S!Bool.vals
        /\ v["set_password"] \in S!Bool.vals
        /\ v["resort_channel"] \in S!Bool.vals
  OBVIOUS
<1> HIDE DEF f, R
<1>4. \A i \in 1..Len(f) : i = 1 \/ i = 2 \/ i = 3 \/ i = 4
  BY <1>1
<1>5. Distinct(f)
  BY <1>1, <1>4 DEF Distinct
<1>6. Names(f) = N
  BY <1>1, <1>4 DEF Names
<1> HIDE DEF N
<1>7. Fits(R, f)
  BY <1>1, <1>2, <1>3, <1>4, <1>5, <1>6 DEF Fits
<1>8. Len(f) >= 1 /\ \A i \in 1..Len(f) : Solid(f[i][2])
  BY <1>1, <1>4, Numbers, BoolSolid
<1>9. Solid(Struct(R, f))
  BY <1>7, <1>8, StructSolid
<1>10. S!ChannelCreatePerms = C!ChannelCreatePerms
  BY SameNumbers DEF S!ChannelCreatePerms, C!ChannelCreatePerms
<1> QED
  BY <1>9, <1>10 DEF S!ChannelCreatePerms, f, R

LEMMA PermsSolid == Solid(S!PermsSnapshot) /\ S!PermsSnapshot = C!GroupPerms
<1> DEFINE f ==
             <<<<"server_group_assign", S!U64>>, <<"server_group_unassign", S!U64>>,
             <<"channel_see", S!U64>>, <<"channel_join", S!U64>>, <<"channel_modify", S!U64>>,
             <<"channel_talk", S!U64>>, <<"channel_assign_talk", S!U64>>,
             <<"channel_delete", S!U64>>, <<"can_send", S!Bool>>,
             <<"channel_create", S!ChannelCreatePerms>>>>
           R ==
             [server_group_assign: S!U64.vals, server_group_unassign: S!U64.vals,
             channel_see: S!U64.vals, channel_join: S!U64.vals, channel_modify: S!U64.vals,
             channel_talk: S!U64.vals, channel_assign_talk: S!U64.vals,
             channel_delete: S!U64.vals, can_send: S!Bool.vals,
             channel_create: S!ChannelCreatePerms.vals]
           N ==
             {"server_group_assign", "server_group_unassign", "channel_see", "channel_join",
             "channel_modify", "channel_talk", "channel_assign_talk", "channel_delete",
             "can_send", "channel_create"}
<1>1. /\ Len(f) = 10
      /\ f[1][1] = "server_group_assign" /\ f[1][2] = S!U64
      /\ f[2][1] = "server_group_unassign" /\ f[2][2] = S!U64
      /\ f[3][1] = "channel_see" /\ f[3][2] = S!U64
      /\ f[4][1] = "channel_join" /\ f[4][2] = S!U64
      /\ f[5][1] = "channel_modify" /\ f[5][2] = S!U64
      /\ f[6][1] = "channel_talk" /\ f[6][2] = S!U64
      /\ f[7][1] = "channel_assign_talk" /\ f[7][2] = S!U64
      /\ f[8][1] = "channel_delete" /\ f[8][2] = S!U64
      /\ f[9][1] = "can_send" /\ f[9][2] = S!Bool
      /\ f[10][1] = "channel_create" /\ f[10][2] = S!ChannelCreatePerms
  OBVIOUS
<1>2. \A v \in R : v = [name \in N |-> v[name]]
  OBVIOUS
<1>3. \A v \in R :
        /\ v["server_group_assign"] \in S!U64.vals
        /\ v["server_group_unassign"] \in S!U64.vals
        /\ v["channel_see"] \in S!U64.vals
        /\ v["channel_join"] \in S!U64.vals
        /\ v["channel_modify"] \in S!U64.vals
        /\ v["channel_talk"] \in S!U64.vals
        /\ v["channel_assign_talk"] \in S!U64.vals
        /\ v["channel_delete"] \in S!U64.vals
        /\ v["can_send"] \in S!Bool.vals
        /\ v["channel_create"] \in S!ChannelCreatePerms.vals
  OBVIOUS
<1> HIDE DEF f, R
<1>4. \A i \in 1..Len(f) : \/ i = 1 \/ i = 2 \/ i = 3 \/ i = 4 \/ i = 5
                           \/ i = 6 \/ i = 7 \/ i = 8 \/ i = 9 \/ i = 10
  BY <1>1
<1>5. Distinct(f)
  BY <1>1, <1>4 DEF Distinct
<1>6. Names(f) = N
  BY <1>1, <1>4 DEF Names
<1> HIDE DEF N
<1>7. Fits(R, f)
  BY <1>1, <1>2, <1>3, <1>4, <1>5, <1>6 DEF Fits
<1>8. Len(f) >= 1 /\ \A i \in 1..Len(f) : Solid(f[i][2])
  BY <1>1, <1>4, Numbers, BoolSolid, CreatePermsSolid
<1>9. Solid(Struct(R, f))
  BY <1>7, <1>8, StructSolid
<1>10. S!PermsSnapshot = C!GroupPerms
  BY SameNumbers, CreatePermsSolid DEF S!PermsSnapshot, C!GroupPerms
<1> QED
  BY <1>9, <1>10 DEF S!PermsSnapshot, f, R

LEMMA ServerGroupSolid == Solid(S!ServerGroup) /\ S!ServerGroup = C!ServerGroup
<1> DEFINE f ==
             <<<<"uuid", S!Uuid>>, <<"name", S!String>>, <<"priority", S!U64>>,
             <<"perms", S!PermsSnapshot>>>>
           R ==
             [uuid: S!Uuid.vals, name: S!String.vals, priority: S!U64.vals,
             perms: S!PermsSnapshot.vals]
           N ==
             {"uuid", "name", "priority", "perms"}
<1>1. /\ Len(f) = 4
      /\ f[1][1] = "uuid" /\ f[1][2] = S!Uuid
      /\ f[2][1] = "name" /\ f[2][2] = S!String
      /\ f[3][1] = "priority" /\ f[3][2] = S!U64
      /\ f[4][1] = "perms" /\ f[4][2] = S!PermsSnapshot
  OBVIOUS
<1>2. \A v \in R : v = [name \in N |-> v[name]]
  OBVIOUS
<1>3. \A v \in R :
        /\ v["uuid"] \in S!Uuid.vals
        /\ v["name"] \in S!String.vals
        /\ v["priority"] \in S!U64.vals
        /\ v["perms"] \in S!PermsSnapshot.vals
  OBVIOUS
<1> HIDE DEF f, R
<1>4. \A i \in 1..Len(f) : i = 1 \/ i = 2 \/ i = 3 \/ i = 4
  BY <1>1
<1>5. Distinct(f)
  BY <1>1, <1>4 DEF Distinct
<1>6. Names(f) = N
  BY <1>1, <1>4 DEF Names
<1> HIDE DEF N
<1>7. Fits(R, f)
  BY <1>1, <1>2, <1>3, <1>4, <1>5, <1>6 DEF Fits
<1>8. Len(f) >= 1 /\ \A i \in 1..Len(f) : Solid(f[i][2])
  BY <1>1, <1>4, Numbers, StringSolid, PermsSolid
<1>9. Solid(Struct(R, f))
  BY <1>7, <1>8, StructSolid
<1>10. S!ServerGroup = C!ServerGroup
  BY SameNumbers, PermsSolid DEF S!ServerGroup, C!ServerGroup, C!Cow
<1> QED
  BY <1>9, <1>10 DEF S!ServerGroup, f, R

LEMMA ProfileSolid == Solid(S!RemoteProfile) /\ S!RemoteProfile = C!RemoteProfile
<1> DEFINE f ==
             <<<<"name", S!String>>, <<"uuid", S!UserUuid>>,
             <<"server_groups", S!Vec(S!Uuid)>>>>
           R ==
             [name: S!String.vals, uuid: S!UserUuid.vals, server_groups: S!Vec(S!Uuid).vals]
           N ==
             {"name", "uuid", "server_groups"}
<1>1. /\ Len(f) = 3
      /\ f[1][1] = "name" /\ f[1][2] = S!String
      /\ f[2][1] = "uuid" /\ f[2][2] = S!UserUuid
      /\ f[3][1] = "server_groups" /\ f[3][2] = S!Vec(S!Uuid)
  OBVIOUS
<1>2. \A v \in R : v = [name \in N |-> v[name]]
  OBVIOUS
<1>3. \A v \in R :
        /\ v["name"] \in S!String.vals
        /\ v["uuid"] \in S!UserUuid.vals
        /\ v["server_groups"] \in S!Vec(S!Uuid).vals
  OBVIOUS
<1> HIDE DEF f, R
<1>4. \A i \in 1..Len(f) : i = 1 \/ i = 2 \/ i = 3
  BY <1>1
<1>5. Distinct(f)
  BY <1>1, <1>4 DEF Distinct
<1>6. Names(f) = N
  BY <1>1, <1>4 DEF Names
<1> HIDE DEF N
<1>7. Fits(R, f)
  BY <1>1, <1>2, <1>3, <1>4, <1>5, <1>6 DEF Fits
<1>8. Len(f) >= 1 /\ \A i \in 1..Len(f) : Solid(f[i][2])
  BY <1>1, <1>4, Numbers, StringSolid, ListsSolid
<1>9. Solid(Struct(R, f))
  BY <1>7, <1>8, StructSolid
<1>10. S!RemoteProfile = C!RemoteProfile
  BY SameNumbers, ListsSolid DEF S!RemoteProfile, C!RemoteProfile
<1> QED
  BY <1>9, <1>10 DEF S!RemoteProfile, f, R

LEMMA SubUpdateSolid == Solid(S!ChannelSubUpdate) /\ S!ChannelSubUpdate = C!ChannelSubUpdate
<1> DEFINE f ==
             <<<<"Name", S!String>>, <<"Desc", S!String>>,
             <<"Perms", S!ChannelPerms>>, <<"Client", S!ChannelSubClientUpdate>>>>
<1>1. /\ Len(f) = 4
      /\ f[1][1] = "Name" /\ f[1][2] = S!String
      /\ f[2][1] = "Desc" /\ f[2][2] = S!String
      /\ f[3][1] = "Perms" /\ f[3][2] = S!ChannelPerms
      /\ f[4][1] = "Client" /\ f[4][2] = S!ChannelSubClientUpdate
  OBVIOUS
<1> HIDE DEF f
<1>4. \A i \in 1..Len(f) : i = 1 \/ i = 2 \/ i = 3 \/ i = 4
  BY <1>1
<1>5. Distinct(f)
  BY <1>1, <1>4 DEF Distinct
<1>6. Numbered(f) /\ \A i \in 1..Len(f) : Sound(f[i][2])
  BY <1>1, <1>4, StringSolid, ChannelPermsSolid, SubClientSolid DEF Numbered, Solid
<1>9. Solid(Enum(f))
  BY <1>5, <1>6, EnumSound DEF Solid
<1>10. S!ChannelSubUpdate = C!ChannelSubUpdate
  BY SameNumbers, ChannelPermsSolid, SubClientSolid
  DEF S!ChannelSubUpdate, C!ChannelSubUpdate, S!Cow, C!Cow
<1> QED
  BY <1>9, <1>10 DEF S!ChannelSubUpdate, f, S!Cow

LEMMA BanDurationSolid == Solid(S!BanDuration) /\ S!BanDuration = C!BanDuration
<1>2. Solid(Enum(<<<<"Permanent", Unit>>, <<"Temporary", S!Duration>>>>))
  BY EnumOfTwo, UnitSound, DurationSolid DEF Solid
<1>3. S!BanDuration = C!BanDuration
  BY DurationSolid DEF S!BanDuration, C!BanDuration
<1> QED
  BY <1>2, <1>3 DEF S!BanDuration

LEMMA SwitchResponseSolid ==
  Solid(S!SwitchChannelResponse) /\ S!SwitchChannelResponse = C!SwitchChannelResponse
<1> DEFINE f ==
             <<<<"Success", Unit>>, <<"InvalidChannel", Unit>>, <<"NoPermissions", Unit>>,
             <<"SameChannel", Unit>>>>
<1>1. /\ Len(f) = 4
      /\ f[1][1] = "Success" /\ f[1][2] = Unit
      /\ f[2][1] = "InvalidChannel" /\ f[2][2] = Unit
      /\ f[3][1] = "NoPermissions" /\ f[3][2] = Unit
      /\ f[4][1] = "SameChannel" /\ f[4][2] = Unit
  OBVIOUS
<1> HIDE DEF f
<1>4. \A i \in 1..Len(f) : i = 1 \/ i = 2 \/ i = 3 \/ i = 4
  BY <1>1
<1>5. Distinct(f)
  BY <1>1, <1>4 DEF Distinct
<1>6. Numbered(f) /\ \A i \in 1..Len(f) : Sound(f[i][2])
  BY <1>1, <1>4, UnitSound DEF Numbered, Solid
<1>9. Solid(Enum(f))
  BY <1>5, <1>6, EnumSound DEF Solid
<1>10. S!SwitchChannelResponse = C!SwitchChannelResponse
  BY UnitSound DEF S!SwitchChannelResponse, C!SwitchChannelResponse
<1> QED
  BY <1>9, <1>10 DEF S!SwitchChannelResponse, f

LEMMA KeepAliveSolid == Solid(S!KeepAlive) /\ S!KeepAlive = C!KeepAlive
<1> DEFINE R == [id: S!U64.vals, send_time: S!Duration.vals]
<1>1. \A v \in R : /\ v = [name \in {"id", "send_time"} |-> v[name]]
                   /\ v["id"] \in S!U64.vals /\ v["send_time"] \in S!Duration.vals
  OBVIOUS
<1> HIDE DEF R
<1>2. Solid(Struct(R, <<<<"id", S!U64>>, <<"send_time", S!Duration>>>>))
  BY <1>1, StructOfTwo, Numbers, DurationSolid
<1>3. S!KeepAlive = C!KeepAlive
  BY SameNumbers, DurationSolid DEF S!KeepAlive, C!KeepAlive
<1> QED
  BY <1>2, <1>3 DEF S!KeepAlive, R

\* What a ban says.
Banned ==
  Struct([reason: S!String.vals, duration: S!BanDuration.vals],
         <<<<"reason", S!String>>, <<"duration", S!BanDuration>>>>)

LEMMA BannedSolid == Solid(Banned)
<1> DEFINE R == [reason: S!String.vals, duration: S!BanDuration.vals]
<1>1. \A v \in R : /\ v = [name \in {"reason", "duration"} |-> v[name]]
                   /\ v["reason"] \in S!String.vals /\ v["duration"] \in S!BanDuration.vals
  OBVIOUS
<1> HIDE DEF R
<1>2. Solid(Struct(R, <<<<"reason", S!String>>, <<"duration", S!BanDuration>>>>))
  BY <1>1, StructOfTwo, StringSolid, BanDurationSolid
<1> QED
  BY <1>2 DEF Banned, R

LEMMA FailureSolid == Solid(S!AuthFailure) /\ S!AuthFailure = C!AuthFailure
<1> DEFINE f ==
             <<<<"Banned", Banned>>, <<"ReqSec", S!U8>>, <<"OutOfDate", S!U64>>,
             <<"AlreadyOnline", Unit>>, <<"Invalid", S!String>>>>
<1>1. /\ Len(f) = 5
      /\ f[1][1] = "Banned" /\ f[1][2] = Banned
      /\ f[2][1] = "ReqSec" /\ f[2][2] = S!U8
      /\ f[3][1] = "OutOfDate" /\ f[3][2] = S!U64
      /\ f[4][1] = "AlreadyOnline" /\ f[4][2] = Unit
      /\ f[5][1] = "Invalid" /\ f[5][2] = S!String
  OBVIOUS
<1> HIDE DEF f
<1>4. \A i \in 1..Len(f) : i = 1 \/ i = 2 \/ i = 3 \/ i = 4 \/ i = 5
  BY <1>1
<1>5. Distinct(f)
  BY <1>1, <1>4 DEF Distinct
<1>6. Numbered(f) /\ \A i \in 1..Len(f) : Sound(f[i][2])
  BY <1>1, <1>4, BannedSolid, Numbers, StringSolid, UnitSound DEF Numbered, Solid
<1>9. Solid(Enum(f))
  BY <1>5, <1>6, EnumSound DEF Solid
<1>10. S!AuthFailure = C!AuthFailure
  BY SameNumbers, BanDurationSolid DEF S!AuthFailure, C!AuthFailure, S!CowStr, C!CowStr
<1> QED
  BY <1>9, <1>10 DEF S!AuthFailure, f, Banned, S!CowStr, S!String

\* What is said of a packet of the wrong size.
WrongSize ==
  Struct([allowed: S!U64.vals, received: S!U64.vals],
         <<<<"allowed", S!U64>>, <<"received", S!U64>>>>)

LEMMA WrongSizeSolid == Solid(WrongSize)
<1> DEFINE R == [allowed: S!U64.vals, received: S!U64.vals]
<1>1. \A v \in R : /\ v = [name \in {"allowed", "received"} |-> v[name]]
                   /\ v["allowed"] \in S!U64.vals /\ v["received"] \in S!U64.vals
  OBVIOUS
<1> HIDE DEF R
<1>2. Solid(Struct(R, <<<<"allowed", S!U64>>, <<"received", S!U64>>>>))
  BY <1>1, StructOfTwo, Numbers
<1> QED
  BY <1>2 DEF WrongSize, R

LEMMA ReasonSolid == Solid(S!DisconnectReason) /\ S!DisconnectReason = C!DisconnectReason
<1> DEFINE f ==
             <<<<"Kicked", S!String>>, <<"ReceivedInvalidPacketSize", WrongSize>>,
             <<"DecodeError", S!String>>, <<"Timeout", Unit>>>>
<1>1. /\ Len(f) = 4
      /\ f[1][1] = "Kicked" /\ f[1][2] = S!String
      /\ f[2][1] = "ReceivedInvalidPacketSize" /\ f[2][2] = WrongSize
      /\ f[3][1] = "DecodeError" /\ f[3][2] = S!String
      /\ f[4][1] = "Timeout" /\ f[4][2] = Unit
  OBVIOUS
<1> HIDE DEF f
<1>4. \A i \in 1..Len(f) : i = 1 \/ i = 2 \/ i = 3 \/ i = 4
  BY <1>1
<1>5. Distinct(f)
  BY <1>1, <1>4 DEF Distinct
<1>6. Numbered(f) /\ \A i \in 1..Len(f) : Sound(f[i][2])
  BY <1>1, <1>4, WrongSizeSolid, StringSolid, UnitSound DEF Numbered, Solid
<1>9. Solid(Enum(f))
  BY <1>5, <1>6, EnumSound DEF Solid
<1>10. S!DisconnectReason = C!DisconnectReason
  BY SameNumbers DEF S!DisconnectReason, C!DisconnectReason
<1> QED
  BY <1>9, <1>10 DEF S!DisconnectReason, f, WrongSize

\* An update of a part of a channel.
SubUpdated ==
  Struct([channel: S!Uuid.vals, update: S!ChannelSubUpdate.vals],
         <<<<"channel", S!Uuid>>, <<"update", S!ChannelSubUpdate>>>>)

LEMMA SubUpdatedSolid == Solid(SubUpdated)
<1> DEFINE R == [channel: S!Uuid.vals, update: S!ChannelSubUpdate.vals]
<1>1. \A v \in R : /\ v = [name \in {"channel", "update"} |-> v[name]]
                   /\ v["channel"] \in S!Uuid.vals /\ v["update"] \in S!ChannelSubUpdate.vals
  OBVIOUS
<1> HIDE DEF R
<1>2. Solid(Struct(R, <<<<"channel", S!Uuid>>, <<"update", S!ChannelSubUpdate>>>>))
  BY <1>1, StructOfTwo, Numbers, SubUpdateSolid
<1> QED
  BY <1>2 DEF SubUpdated, R

\* An update of the groups of a user.
GroupsUpdated ==
  Struct([client: S!UserUuid.vals, update: S!ClientUpdateServerGroups.vals],
         <<<<"client", S!UserUuid>>, <<"update", S!ClientUpdateServerGroups>>>>)

LEMMA GroupsUpdatedSolid == Solid(GroupsUpdated)
<1> DEFINE R == [client: S!UserUuid.vals, update: S!ClientUpdateServerGroups.vals]
<1>1. \A v \in R : /\ v = [name \in {"client", "update"} |-> v[name]]
                   /\ v["client"] \in S!UserUuid.vals
                   /\ v["update"] \in S!ClientUpdateServerGroups.vals
  OBVIOUS
<1> HIDE DEF R
<1>2. Solid(Struct(R, <<<<"client", S!UserUuid>>, <<"update", S!ClientUpdateServerGroups>>>>))
  BY <1>1, StructOfTwo, Numbers, GroupUpdateSolid
<1> QED
  BY <1>2 DEF GroupsUpdated, R

-----------------------------------------------------------------------------
(* What the two copies write and read, where they differ.                  *)

SameNames(fs, fc) == \A i \in 1..Len(fs) : fs[i][1] = fc[i][1]

\* The fields of struct fc read from those of struct fs what the fields of x are.
FieldsTurn(fs, fc, v, x) ==
  \A i \in 1..Len(fs) : Means(fc[i][2], fs[i][2].write[v[fs[i][1]]], x[fs[i][1]])

LEMMA StructAcross ==
  ASSUME NEW R, NEW fs, Len(fs) \in Nat, NEW v \in R, NEW T, NEW fc, Len(fc) = Len(fs),
         Distinct(fc), NEW x, x = [name \in Names(fc) |-> x[name]], FieldsTurn(fs, fc, v, x),
         SameNames(fs, fc)
  PROVE  Means(Struct(T, fc), Struct(R, fs).write[v], x)
<1> DEFINE e == FieldsWritten(fs, v)
           n == Len(fs)
<1>1. Struct(R, fs).write[v] = FlattenSeq(e)
  BY StructParts DEF FieldsWritten
<1>2. \A i \in 1..n : Means(fc[i][2], e[i], x[fc[i][1]])
  BY DEF FieldsTurn, FieldsWritten, SameNames
<1>3. e \in [1..n -> Seq(Octet)]
  BY <1>2 DEF FieldsWritten, Means
<1> HIDE DEF e, n
<1>4. e \in Seq(Seq(Octet)) /\ Len(e) = n
  <2>1. \A m \in Nat : \A B : \A t \in [1..m -> B] : t \in Seq(B) /\ Len(t) = m
    OBVIOUS
  <2>2. n \in Nat
    BY DEF n
  <2> QED
    BY <1>3, <2>1, <2>2
<1>5. Len(fc) = Len(e)
  BY <1>4 DEF n
<1>6. Means(Struct(T, fc), FlattenSeq(e), x)
  BY <1>2, <1>4, <1>5, StructMeans DEF n
<1> QED
  BY <1>1, <1>6

\* The variant of enum vc reads from that of enum vs what w holds.
VariantTurns(vs, vc, v, w) ==
  \A i \in 1..Len(vs) :
    (v = Val(vs[i][1], v[2]) /\ v[1] = vs[i][1] /\ v[2] \in vs[i][2].vals) =>
      /\ w = Val(vc[i][1], w[2])
      /\ Means(vc[i][2], vs[i][2].write[v[2]], w[2])

LEMMA EnumAcross ==
  ASSUME NEW vs, NEW vc, Numbered(vs), Len(vc) = Len(vs), Distinct(vs),
         NEW v \in Enum(vs).vals, NEW w, VariantTurns(vs, vc, v, w)
  PROVE  /\ Means(Enum(vc), Enum(vs).write[v], w)
         /\ Len(Enum(vs).write[v]) >= 1
<1>1. Len(vs) \in Nat
  BY DEF Numbered
<1>2. PICK i \in 1..Len(vs) : /\ v = Val(vs[i][1], v[2])
                              /\ v[1] = vs[i][1]
                              /\ v[2] \in vs[i][2].vals
                              /\ Enum(vs).write[v] = <<i - 1>> \o vs[i][2].write[v[2]]
  BY <1>1, EnumWritten, Zenon
<1>3. w = Val(vc[i][1], w[2]) /\ Means(vc[i][2], vs[i][2].write[v[2]], w[2])
  BY <1>2, Zenon DEF VariantTurns
<1>4. i \in 1..Len(vc) /\ Numbered(vc)
  BY Zenon DEF Numbered
<1>5. /\ Means(Enum(vc), <<i - 1>> \o vs[i][2].write[v[2]], Val(vc[i][1], w[2]))
      /\ Len(<<i - 1>> \o vs[i][2].write[v[2]]) >= 1
  BY <1>3, <1>4, EnumMeans, Zenon
<1> QED
  BY <1>2, <1>3, <1>5, Zenon

LEMMA VecsSolid ==
  /\ Solid(S!Vec(S!Arc(S!ServerGroup))) /\ S!Vec(S!Arc(S!ServerGroup)) = C!Vec(C!ServerGroup)
  /\ Solid(S!Vec(S!RemoteProfile)) /\ S!Vec(S!RemoteProfile) = Many(C!RemoteProfile)
  BY ManySolid, ServerGroupSolid, ProfileSolid DEF S!Vec, C!Vec, S!Arc

\* A channel, with its members as the server lists them and as the client
\* keeps them.
LEMMA ChannelAcross ==
  ASSUME NEW c \in S!Channel.vals
  PROVE  /\ Means(C!Channel, S!Channel.write[c], ShownChannel(c))
         /\ Len(S!Channel.write[c]) >= 1
<1> DEFINE fs == <<<<"uuid", S!Uuid>>, <<"password", S!Bool>>, <<"name", S!String>>,
                   <<"desc", S!String>>, <<"perms", S!ChannelPerms>>,
                   <<"clients", Many(S!RemoteProfile)>>, <<"slots", S!I16>>,
                   <<"sort_id", S!U16>>>>
           fc == <<<<"uuid", S!Uuid>>, <<"password", S!Bool>>, <<"name", S!String>>,
                   <<"desc", S!String>>, <<"perms", S!ChannelPerms>>,
                   <<"clients", Keyed("uuid", S!RemoteProfile)>>, <<"slots", S!I16>>,
                   <<"sort_id", S!U16>>>>
           R == [uuid: S!Uuid.vals, password: S!Bool.vals, name: S!String.vals,
                 desc: S!String.vals, perms: S!ChannelPerms.vals,
                 clients: Many(S!RemoteProfile).vals, slots: S!I16.vals, sort_id: S!U16.vals]
           T == [uuid: S!Uuid.vals, password: S!Bool.vals, name: S!String.vals,
                 desc: S!String.vals, perms: S!ChannelPerms.vals,
                 clients: Keyed("uuid", S!RemoteProfile).vals, slots: S!I16.vals,
                 sort_id: S!U16.vals]
           N == {"uuid", "password", "name", "desc", "perms", "clients", "slots", "sort_id"}
           x == ShownChannel(c)
<1>1. /\ Len(fs) = 8
      /\ fs[1][1] = "uuid" /\ fs[1][2] = S!Uuid
      /\ fs[2][1] = "password" /\ fs[2][2] = S!Bool
      /\ fs[3][1] = "name" /\ fs[3][2] = S!String
      /\ fs[4][1] = "desc" /\ fs[4][2] = S!String
      /\ fs[5][1] = "perms" /\ fs[5][2] = S!ChannelPerms
      /\ fs[6][1] = "clients" /\ fs[6][2] = Many(S!RemoteProfile)
      /\ fs[7][1] = "slots" /\ fs[7][2] = S!I16
      /\ fs[8][1] = "sort_id" /\ fs[8][2] = S!U16
  OBVIOUS
<1>2. /\ Len(fc) = 8
      /\ fc[1][1] = "uuid" /\ fc[1][2] = S!Uuid
      /\ fc[2][1] = "password" /\ fc[2][2] = S!Bool
      /\ fc[3][1] = "name" /\ fc[3][2] = S!String
      /\ fc[4][1] = "desc" /\ fc[4][2] = S!String
      /\ fc[5][1] = "perms" /\ fc[5][2] = S!ChannelPerms
      /\ fc[6][1] = "clients" /\ fc[6][2] = Keyed("uuid", S!RemoteProfile)
      /\ fc[7][1] = "slots" /\ fc[7][2] = S!I16
      /\ fc[8][1] = "sort_id" /\ fc[8][2] = S!U16
  OBVIOUS
<1>3. S!Channel = Struct(R, fs)
  BY DEF S!Channel, S!Atomic, S!Arc, S!SwapArc, S!RwLock, S!Vec
<1>4. C!Channel = Struct(T, fc)
  BY SameNumbers, ChannelPermsSolid, ProfileSolid DEF C!Channel
<1>5. S!Channel.vals = R
  BY <1>3, StructParts
<1>6. \A v \in R : /\ v = [name \in N |-> v[name]]
                   /\ v["uuid"] \in S!Uuid.vals /\ v["password"] \in S!Bool.vals
                   /\ v["name"] \in S!String.vals /\ v["desc"] \in S!String.vals
                   /\ v["perms"] \in S!ChannelPerms.vals
                   /\ v["clients"] \in Many(S!RemoteProfile).vals
                   /\ v["slots"] \in S!I16.vals /\ v["sort_id"] \in S!U16.vals
  OBVIOUS
<1>7. /\ x = [name \in N |-> x[name]]
      /\ x["clients"] = Latest("uuid", c["clients"])
      /\ \A name \in N \ {"clients"} : x[name] = c[name]
  <2>1. c = [name \in N |-> c[name]] /\ DOMAIN c = N
    BY <1>5, <1>6
  <2> HIDE DEF N
  <2>2. x = [name \in N |-> IF name = "clients" THEN Latest("uuid", c.clients) ELSE c[name]]
    BY <2>1 DEF ShownChannel
  <2>3. "clients" \in N
    BY DEF N
  <2> QED
    BY <2>2, <2>3
<1> HIDE DEF fs, fc, R, T, x
<1>8. \A i \in 1..8 : i = 1 \/ i = 2 \/ i = 3 \/ i = 4 \/ i = 5 \/ i = 6 \/ i = 7 \/ i = 8
  OBVIOUS
<1>9. Distinct(fs) /\ Distinct(fc)
  BY <1>1, <1>2, <1>8 DEF Distinct
<1>10. Names(fs) = N /\ Names(fc) = N
  BY <1>1, <1>2, <1>8 DEF Names
<1>11. \A name \in {"uuid", "password", "name", "desc", "perms", "slots", "sort_id"} :
         x[name] = c[name]
  BY <1>7
<1>12. x = [name \in N |-> x[name]] /\ x["clients"] = Latest("uuid", c["clients"])
  BY <1>7
<1> HIDE DEF N
<1>13. Fits(R, fs)
  BY <1>1, <1>6, <1>8, <1>9, <1>10 DEF Fits
<1>14. Solid(Many(S!RemoteProfile))
  BY ManySolid, ProfileSolid
<1>15. Len(fs) >= 1 /\ Len(fc) = Len(fs) /\ \A i \in 1..Len(fs) : Solid(fs[i][2])
  BY <1>1, <1>2, <1>8, <1>14, Numbers, BoolSolid, StringSolid, ChannelPermsSolid
<1>16. c \in R
  BY <1>5
<1>17. /\ Means(S!Uuid, S!Uuid.write[c["uuid"]], c["uuid"])
       /\ Means(S!Bool, S!Bool.write[c["password"]], c["password"])
       /\ Means(S!String, S!String.write[c["name"]], c["name"])
       /\ Means(S!String, S!String.write[c["desc"]], c["desc"])
       /\ Means(S!ChannelPerms, S!ChannelPerms.write[c["perms"]], c["perms"])
       /\ Means(S!I16, S!I16.write[c["slots"]], c["slots"])
       /\ Means(S!U16, S!U16.write[c["sort_id"]], c["sort_id"])
  BY <1>6, <1>16, Numbers, BoolSolid, StringSolid, ChannelPermsSolid DEF Solid, Sound
<1>18. Means(Keyed("uuid", S!RemoteProfile), Many(S!RemoteProfile).write[c["clients"]],
             Latest("uuid", c["clients"]))
  BY <1>6, <1>14, <1>16, KeyedMeans DEF Solid, Sound
<1>19. FieldsTurn(fs, fc, c, x)
  BY <1>1, <1>2, <1>8, <1>11, <1>12, <1>17, <1>18 DEF FieldsTurn
<1>20. x = [name \in Names(fc) |-> x[name]]
  BY <1>10, <1>12
<1>21. SameNames(fs, fc)
  BY <1>1, <1>2, <1>8 DEF SameNames
<1>22. Means(Struct(T, fc), Struct(R, fs).write[c], x)
  BY <1>1, <1>2, <1>9, <1>16, <1>19, <1>20, <1>21, StructAcross
<1>23. Len(Struct(R, fs).write[c]) >= 1
  BY <1>13, <1>15, <1>16, StructSolid, StructParts DEF Solid, Filled
<1> QED
  BY <1>3, <1>4, <1>22, <1>23 DEF x

ShownChannels(s) == [i \in 1..Len(s) |-> ShownChannel(s[i])]

LEMMA ChannelsAcross ==
  ASSUME NEW s \in S!Vec(S!Channel).vals
  PROVE  Means(C!Vec(C!Channel), S!Vec(S!Channel).write[s], ShownChannels(s))
<1> DEFINE e == Written(S!Channel, s)
           x == ShownChannels(s)
           n == Len(s)
           X == {ShownChannel(c) : c \in S!Channel.vals}
<1>1. s \in Seq(S!Channel.vals) /\ n \in Usize.vals
  BY ManyParts DEF S!Vec
<1>2. n \in Nat /\ \A i \in 1..n : s[i] \in S!Channel.vals
  BY <1>1
<1>3. Many(S!Channel).write[s] = Usize.write[n] \o FlattenSeq(e)
  BY ManyParts DEF S!Vec, Written
<1>4. \A i \in 1..n : /\ e[i] = S!Channel.write[s[i]]
                      /\ x[i] = ShownChannel(s[i])
  BY DEF Written, ShownChannels
<1>5. \A i \in 1..n : /\ Means(C!Channel, e[i], x[i])
                      /\ Len(e[i]) >= 1
                      /\ e[i] \in Seq(Octet)
                      /\ x[i] \in X
  <2> TAKE i \in 1..n
  <2>1. /\ s[i] \in S!Channel.vals
        /\ e[i] = S!Channel.write[s[i]]
        /\ x[i] = ShownChannel(s[i])
    BY <1>2, <1>4
  <2>2. Means(C!Channel, e[i], x[i]) /\ Len(e[i]) >= 1
    BY <2>1, ChannelAcross
  <2> QED
    BY <2>1, <2>2 DEF Means
<1>6. \A m \in Nat : \A B : \A t \in [1..m -> B] : t \in Seq(B) /\ Len(t) = m
  OBVIOUS
<1>7. e \in [1..n -> Seq(Octet)] /\ x \in [1..n -> X]
  BY <1>5 DEF Written, ShownChannels
<1> HIDE DEF e, x, n, X
<1>8. e \in Seq(Seq(Octet)) /\ Len(e) = n /\ x \in Seq(X) /\ Len(x) = n
  BY <1>2, <1>6, <1>7
<1>9. Means(Many(C!Channel), Usize.write[Len(e)] \o FlattenSeq(e), x)
  BY <1>1, <1>5, <1>8, ManyMeans
<1> QED
  BY <1>3, <1>8, <1>9 DEF x, S!Vec, C!Vec

LEMMA SuccessAcross ==
  ASSUME NEW R, NEW T, NEW fs, NEW fc,
         R = [default_channel_id: S!Uuid.vals, server_groups: S!Vec(S!Arc(S!ServerGroup)).vals,
              own_groups: S!Vec(S!Uuid).vals, channels: S!Vec(S!Channel).vals],
         fs = <<<<"default_channel_id", S!Uuid>>,
                <<"server_groups", S!Vec(S!Arc(S!ServerGroup))>>,
                <<"own_groups", S!Vec(S!Uuid)>>, <<"channels", S!Vec(S!Channel)>>>>,
         fc = <<<<"default_channel_id", S!Uuid>>,
                <<"server_groups", S!Vec(S!Arc(S!ServerGroup))>>,
                <<"own_groups", S!Vec(S!Uuid)>>, <<"channels", C!Vec(C!Channel)>>>>,
         NEW v \in R
  PROVE  Means(Struct(T, fc), Struct(R, fs).write[v],
               [v EXCEPT !.channels = ShownChannels(v.channels)])
<1> DEFINE N == {"default_channel_id", "server_groups", "own_groups", "channels"}
           x == [v EXCEPT !.channels = ShownChannels(v.channels)]
           G == S!Vec(S!Arc(S!ServerGroup))
           I == S!Vec(S!Uuid)
<1>1. /\ Len(fs) = 4
      /\ fs[1][1] = "default_channel_id" /\ fs[1][2] = S!Uuid
      /\ fs[2][1] = "server_groups" /\ fs[2][2] = G
      /\ fs[3][1] = "own_groups" /\ fs[3][2] = I
      /\ fs[4][1] = "channels" /\ fs[4][2] = S!Vec(S!Channel)
  OBVIOUS
<1>2. /\ Len(fc) = 4
      /\ fc[1][1] = "default_channel_id" /\ fc[1][2] = S!Uuid
      /\ fc[2][1] = "server_groups" /\ fc[2][2] = G
      /\ fc[3][1] = "own_groups" /\ fc[3][2] = I
      /\ fc[4][1] = "channels" /\ fc[4][2] = C!Vec(C!Channel)
  OBVIOUS
<1>3. /\ v["default_channel_id"] \in S!Uuid.vals
      /\ v["server_groups"] \in G.vals
      /\ v["own_groups"] \in I.vals
      /\ v["channels"] \in S!Vec(S!Channel).vals
      /\ v = [name \in N |-> v[name]]
  OBVIOUS
<1>4. /\ x = [name \in N |-> x[name]]
      /\ x["default_channel_id"] = v["default_channel_id"]
      /\ x["server_groups"] = v["server_groups"]
      /\ x["own_groups"] = v["own_groups"]
      /\ x["channels"] = ShownChannels(v["channels"])
  BY <1>3
<1> HIDE DEF x, G, I
<1>5. \A i \in 1..4 : i = 1 \/ i = 2 \/ i = 3 \/ i = 4
  OBVIOUS
<1>6. Distinct(fc)
  BY <1>2, <1>5 DEF Distinct
<1>7. Names(fc) = N
  BY <1>2, <1>5 DEF Names
<1> HIDE DEF N
<1>8. SameNames(fs, fc)
  BY <1>1, <1>2, <1>5 DEF SameNames
<1>9. /\ Means(S!Uuid, S!Uuid.write[v["default_channel_id"]], v["default_channel_id"])
      /\ Means(G, G.write[v["server_groups"]], v["server_groups"])
      /\ Means(I, I.write[v["own_groups"]], v["own_groups"])
  BY <1>3, Numbers, VecsSolid, ListsSolid DEF Solid, Sound, G, I
<1>10. Means(C!Vec(C!Channel), S!Vec(S!Channel).write[v["channels"]], ShownChannels(v["channels"]))
  BY <1>3, ChannelsAcross
<1>11. FieldsTurn(fs, fc, v, x)
  BY <1>1, <1>2, <1>4, <1>5, <1>9, <1>10 DEF FieldsTurn
<1>12. Means(Struct(T, fc), Struct(R, fs).write[v], x)
  BY <1>1, <1>2, <1>4, <1>6, <1>7, <1>8, <1>11, StructAcross
<1> QED
  BY <1>12 DEF x

LEMMA ResponseAcross ==
  ASSUME NEW r \in S!AuthResponse.vals
  PROVE  Means(C!AuthResponse, S!AuthResponse.write[r], ShownResponse(r))
<1> DEFINE fs == <<<<"default_channel_id", S!Uuid>>,
                   <<"server_groups", S!Vec(S!Arc(S!ServerGroup))>>,
                   <<"own_groups", S!Vec(S!Uuid)>>, <<"channels", S!Vec(S!Channel)>>>>
           fc == <<<<"default_channel_id", S!Uuid>>,
                   <<"server_groups", S!Vec(S!Arc(S!ServerGroup))>>,
                   <<"own_groups", S!Vec(S!Uuid)>>, <<"channels", C!Vec(C!Channel)>>>>
           R == [default_channel_id: S!Uuid.vals, server_groups: S!Vec(S!Arc(S!ServerGroup)).vals,
                 own_groups: S!Vec(S!Uuid).vals, channels: S!Vec(S!Channel).vals]
           T == [default_channel_id: S!Uuid.vals, server_groups: S!Vec(S!Arc(S!ServerGroup)).vals,
                 own_groups: S!Vec(S!Uuid).vals, channels: C!Vec(C!Channel).vals]
           vs == <<<<"Success", Struct(R, fs)>>, <<"Failure", S!AuthFailure>>>>
           vc == <<<<"Success", Struct(T, fc)>>, <<"Failure", S!AuthFailure>>>>
           w == ShownResponse(r)
<1>1. S!AuthResponse = Enum(vs)
  BY DEF S!AuthResponse
<1>2. C!AuthResponse = Enum(vc)
  BY SameNumbers, VecsSolid, ListsSolid, FailureSolid DEF C!AuthResponse
<1>3. \A v \in R : Means(Struct(T, fc), Struct(R, fs).write[v],
                         [v EXCEPT !.channels = ShownChannels(v.channels)])
  BY SuccessAcross
<1>4. \A v \in S!AuthFailure.vals : Means(S!AuthFailure, S!AuthFailure.write[v], v)
  BY FailureSolid DEF Solid, Sound
<1>5. Struct(R, fs).vals = R
  BY StructParts
<1> HIDE DEF R, T, fs, fc
<1>6. /\ Len(vs) = 2 /\ Len(vc) = 2
      /\ vs[1][1] = "Success" /\ vs[1][2] = Struct(R, fs)
      /\ vs[2][1] = "Failure" /\ vs[2][2] = S!AuthFailure
      /\ vc[1][1] = "Success" /\ vc[1][2] = Struct(T, fc)
      /\ vc[2][1] = "Failure" /\ vc[2][2] = S!AuthFailure
  OBVIOUS
<1> HIDE DEF vs, vc
<1>7. \A i \in 1..2 : i = 1 \/ i = 2
  OBVIOUS
<1>8. Distinct(vs)
  BY <1>6, <1>7 DEF Distinct
<1>9. VariantTurns(vs, vc, r, w)
  <2>1. CASE r[1] = "Success" /\ r = Val("Success", r[2]) /\ r[2] \in R
    <3>1. w = Val("Success", [r[2] EXCEPT !.channels = ShownChannels(r[2].channels)])
      BY <2>1 DEF ShownResponse, ShownChannels, Val
    <3>2. w[2] = [r[2] EXCEPT !.channels = ShownChannels(r[2].channels)] /\ w = Val("Success", w[2])
      BY <3>1 DEF Val
    <3> HIDE DEF w
    <3>3. Means(Struct(T, fc), Struct(R, fs).write[r[2]], w[2])
      BY <1>3, <2>1, <3>2
    <3> QED
      BY <1>6, <1>7, <2>1, <3>2, <3>3 DEF VariantTurns
  <2>2. CASE r[1] = "Failure" /\ r = Val("Failure", r[2]) /\ r[2] \in S!AuthFailure.vals
    <3>1. w = r
      BY <2>2 DEF ShownResponse
    <3> HIDE DEF w
    <3> QED
      BY <1>4, <1>6, <1>7, <2>2, <3>1 DEF VariantTurns
  <2> QED
    BY <1>5, <1>6, <1>7, <2>1, <2>2 DEF VariantTurns
<1> HIDE DEF w
<1>10. Numbered(vs) /\ Len(vc) = Len(vs)
  BY <1>6 DEF Numbered
<1>11. Means(Enum(vc), Enum(vs).write[r], w)
  BY <1>1, <1>8, <1>9, <1>10, EnumAcross
<1> QED
  BY <1>1, <1>2, <1>11 DEF w

LEMMA UpdateAcross ==
  ASSUME NEW u \in S!ChannelUpdate.vals
  PROVE  Means(C!ChannelUpdate, S!ChannelUpdate.write[u], ShownUpdate(u))
<1> DEFINE vs == <<<<"Create", S!Channel>>, <<"SubUpdate", SubUpdated>>, <<"Delete", S!Uuid>>>>
           vc == <<<<"Create", C!Channel>>, <<"SubUpdate", SubUpdated>>, <<"Delete", S!Uuid>>>>
           w == ShownUpdate(u)
<1>1. S!ChannelUpdate = Enum(vs)
  BY DEF S!ChannelUpdate, SubUpdated
<1>2. C!ChannelUpdate = Enum(vc)
  BY SameNumbers, SubUpdateSolid DEF C!ChannelUpdate, SubUpdated
<1>3. \A v \in SubUpdated.vals : Means(SubUpdated, SubUpdated.write[v], v)
  BY SubUpdatedSolid DEF Solid, Sound
<1>4. \A v \in S!Uuid.vals : Means(S!Uuid, S!Uuid.write[v], v)
  BY Numbers DEF Solid, Sound
<1>5. /\ Len(vs) = 3 /\ Len(vc) = 3
      /\ vs[1][1] = "Create" /\ vs[1][2] = S!Channel
      /\ vs[2][1] = "SubUpdate" /\ vs[2][2] = SubUpdated
      /\ vs[3][1] = "Delete" /\ vs[3][2] = S!Uuid
      /\ vc[1][1] = "Create" /\ vc[1][2] = C!Channel
      /\ vc[2][1] = "SubUpdate" /\ vc[2][2] = SubUpdated
      /\ vc[3][1] = "Delete" /\ vc[3][2] = S!Uuid
  OBVIOUS
<1> HIDE DEF vs, vc
<1>6. \A i \in 1..3 : i = 1 \/ i = 2 \/ i = 3
  OBVIOUS
<1>7. Distinct(vs)
  BY <1>5, <1>6 DEF Distinct
<1>8. VariantTurns(vs, vc, u, w)
  <2>1. CASE u[1] = "Create" /\ u = Val("Create", u[2]) /\ u[2] \in S!Channel.vals
    <3>1. w = Val("Create", ShownChannel(u[2]))
      BY <2>1 DEF ShownUpdate, Val
    <3>2. w[2] = ShownChannel(u[2]) /\ w = Val("Create", w[2])
      BY <3>1 DEF Val
    <3> HIDE DEF w
    <3>3. Means(C!Channel, S!Channel.write[u[2]], w[2])
      BY <2>1, <3>2, ChannelAcross
    <3> QED
      BY <1>5, <1>6, <2>1, <3>2, <3>3 DEF VariantTurns
  <2>2. CASE u[1] # "Create"
    <3>1. w = u
      BY <2>2 DEF ShownUpdate
    <3> HIDE DEF w
    <3> QED
      BY <1>3, <1>4, <1>5, <1>6, <2>2, <3>1 DEF VariantTurns
  <2> QED
    BY <1>5, <1>6, <2>1, <2>2 DEF VariantTurns
<1> HIDE DEF w
<1>9. Numbered(vs) /\ Len(vc) = Len(vs)
  BY <1>5 DEF Numbered
<1>10. Means(Enum(vc), Enum(vs).write[u], w)
  BY <1>1, <1>7, <1>8, <1>9, EnumAcross
<1> QED
  BY <1>1, <1>2, <1>10 DEF w

LEMMA SplitParts ==
  ASSUME NEW r, NEW w
  PROVE  Split(r, w).vals = w.vals /\ Split(r, w).write = w.write /\ Split(r, w).read = r.read
  BY DEF Split

LEMMA ServerPacketAcross ==
  ASSUME NEW p \in S!ServerPacket.vals
  PROVE  Means(C!ServerPacket, S!ServerPacket.write[p], WireView("down", p))
<1> DEFINE L == S!Vec(S!U8)
           vs == <<<<"AuthResponse", S!AuthResponse>>, <<"ChannelUpdate", S!ChannelUpdate>>,
                   <<"ClientConnected", S!RemoteProfile>>,
                   <<"ClientDisconnected", S!RemoteProfile>>,
                   <<"ClientUpdateServerGroups", GroupsUpdated>>, <<"KeepAlive", S!KeepAlive>>,
                   <<"ChallengeRequest", Split(Todo, L)>>,
                   <<"ForceDisconnect", S!DisconnectReason>>,
                   <<"SwitchChannelResponse", S!SwitchChannelResponse>>>>
           vc == <<<<"AuthResponse", C!AuthResponse>>, <<"ChannelUpdate", C!ChannelUpdate>>,
                   <<"ClientConnected", S!RemoteProfile>>,
                   <<"ClientDisconnected", S!RemoteProfile>>,
                   <<"ClientUpdateServerGroups", GroupsUpdated>>, <<"KeepAlive", S!KeepAlive>>,
                   <<"ChallengeRequest", L>>, <<"ForceDisconnect", S!DisconnectReason>>,
                   <<"SwitchChannelResponse", S!SwitchChannelResponse>>>>
           w == WireView("down", p)
<1>1. S!ServerPacket = Enum(vs)
  BY DEF S!ServerPacket, GroupsUpdated, S!KeepAlive
<1>2. C!ServerPacket = Enum(vc)
  BY SameNumbers, ProfileSolid, GroupUpdateSolid, DurationSolid, ListsSolid, ReasonSolid,
     SwitchResponseSolid DEF C!ServerPacket, GroupsUpdated, S!KeepAlive
<1>3. /\ Sound(S!RemoteProfile) /\ Sound(GroupsUpdated) /\ Sound(S!KeepAlive) /\ Sound(L)
      /\ Sound(S!DisconnectReason) /\ Sound(S!SwitchChannelResponse)
  BY ProfileSolid, GroupsUpdatedSolid, KeepAliveSolid, ListsSolid, ReasonSolid,
     SwitchResponseSolid DEF Solid
<1>4. Split(Todo, L).vals = L.vals /\ Split(Todo, L).write = L.write
  BY SplitParts
<1> HIDE DEF L
<1>5. /\ Len(vs) = 9
      /\ vs[1][1] = "AuthResponse" /\ vs[1][2] = S!AuthResponse
      /\ vs[2][1] = "ChannelUpdate" /\ vs[2][2] = S!ChannelUpdate
      /\ vs[3][1] = "ClientConnected" /\ vs[3][2] = S!RemoteProfile
      /\ vs[4][1] = "ClientDisconnected" /\ vs[4][2] = S!RemoteProfile
      /\ vs[5][1] = "ClientUpdateServerGroups" /\ vs[5][2] = GroupsUpdated
      /\ vs[6][1] = "KeepAlive" /\ vs[6][2] = S!KeepAlive
      /\ vs[7][1] = "ChallengeRequest" /\ vs[7][2] = Split(Todo, L)
      /\ vs[8][1] = "ForceDisconnect" /\ vs[8][2] = S!DisconnectReason
      /\ vs[9][1] = "SwitchChannelResponse" /\ vs[9][2] = S!SwitchChannelResponse
  OBVIOUS
<1>6. /\ Len(vc) = 9
      /\ vc[1][1] = "AuthResponse" /\ vc[1][2] = C!AuthResponse
      /\ vc[2][1] = "ChannelUpdate" /\ vc[2][2] = C!ChannelUpdate
      /\ vc[3][1] = "ClientConnected" /\ vc[3][2] = S!RemoteProfile
      /\ vc[4][1] = "ClientDisconnected" /\ vc[4][2] = S!RemoteProfile
      /\ vc[5][1] = "ClientUpdateServerGroups" /\ vc[5][2] = GroupsUpdated
      /\ vc[6][1] = "KeepAlive" /\ vc[6][2] = S!KeepAlive
      /\ vc[7][1] = "ChallengeRequest" /\ vc[7][2] = L
      /\ vc[8][1] = "ForceDisconnect" /\ vc[8][2] = S!DisconnectReason
      /\ vc[9][1] = "SwitchChannelResponse" /\ vc[9][2] = S!SwitchChannelResponse
  OBVIOUS
<1> HIDE DEF vs, vc
<1>7. \A i \in 1..9 : \/ i = 1 \/ i = 2 \/ i = 3 \/ i = 4 \/ i = 5 \/ i = 6 \/ i = 7 \/ i = 8
                      \/ i = 9
  OBVIOUS
<1>8. Distinct(vs)
  BY <1>5, <1>7 DEF Distinct
<1>9. \A i \in 3..9 : Sound(vc[i][2]) /\ vs[i][2].vals = vc[i][2].vals
                                      /\ vs[i][2].write = vc[i][2].write
  BY <1>3, <1>4, <1>5, <1>6
<1>10. VariantTurns(vs, vc, p, w)
  <2> SUFFICES ASSUME NEW i \in 1..9, p = Val(vs[i][1], p[2]), p[1] = vs[i][1],
                      p[2] \in vs[i][2].vals
               PROVE  /\ w = Val(vc[i][1], w[2])
                      /\ Means(vc[i][2], vs[i][2].write[p[2]], w[2])
    BY <1>5 DEF VariantTurns
  <2>1. CASE i = 1
    <3>1. p[1] = "AuthResponse" /\ p[2] \in S!AuthResponse.vals
      BY <1>5, <2>1
    <3>2. w = Val("AuthResponse", ShownResponse(p[2]))
      BY <3>1 DEF WireView
    <3>3. w[2] = ShownResponse(p[2]) /\ w = Val("AuthResponse", w[2])
      BY <3>2 DEF Val
    <3> HIDE DEF w
    <3>4. Means(C!AuthResponse, S!AuthResponse.write[p[2]], w[2])
      BY <3>1, <3>3, ResponseAcross
    <3> QED
      BY <1>5, <1>6, <2>1, <3>3, <3>4
  <2>2. CASE i = 2
    <3>1. p[1] = "ChannelUpdate" /\ p[2] \in S!ChannelUpdate.vals
      BY <1>5, <2>2
    <3>2. w = Val("ChannelUpdate", ShownUpdate(p[2]))
      BY <3>1 DEF WireView
    <3>3. w[2] = ShownUpdate(p[2]) /\ w = Val("ChannelUpdate", w[2])
      BY <3>2 DEF Val
    <3> HIDE DEF w
    <3>4. Means(C!ChannelUpdate, S!ChannelUpdate.write[p[2]], w[2])
      BY <3>1, <3>3, UpdateAcross
    <3> QED
      BY <1>5, <1>6, <2>2, <3>3, <3>4
  <2>3. CASE i \in 3..9
    <3>1. p[1] # "ChannelUpdate" /\ p[1] # "AuthResponse" /\ vs[i][1] = vc[i][1]
      BY <1>5, <1>6, <2>3
    <3>2. w = p
      BY <3>1 DEF WireView
    <3> HIDE DEF w
    <3>3. p[2] \in vc[i][2].vals /\ vs[i][2].write = vc[i][2].write /\ Sound(vc[i][2])
      BY <1>9, <2>3
    <3>4. Means(vc[i][2], vc[i][2].write[p[2]], p[2])
      BY <3>3 DEF Sound
    <3> QED
      BY <3>1, <3>2, <3>3, <3>4
  <2> QED
    BY <2>1, <2>2, <2>3
<1> HIDE DEF w
<1>11. Numbered(vs) /\ Len(vc) = Len(vs)
  BY <1>5, <1>6 DEF Numbered
<1>12. Means(Enum(vc), Enum(vs).write[p], w)
  BY <1>1, <1>8, <1>10, <1>11, EnumAcross, Zenon
<1> QED
  BY <1>1, <1>2, <1>12 DEF w

\* What a client that logs in says, as it writes it and the server reads it.
Requested ==
  Struct([protocol_version: S!U64.vals, pub_key: S!Vec(S!U8).vals, name: S!String.vals,
          security_proofs: S!Vec(S!U256).vals, signed_data: S!Vec(S!U8).vals],
         <<<<"protocol_version", S!U64>>, <<"pub_key", S!Vec(S!U8)>>, <<"name", S!String>>,
           <<"security_proofs", S!Vec(S!U256)>>, <<"signed_data", S!Vec(S!U8)>>>>)

LEMMA RequestedSolid == Solid(Requested)
<1> DEFINE f ==
             <<<<"protocol_version", S!U64>>, <<"pub_key", S!Vec(S!U8)>>, <<"name", S!String>>,
             <<"security_proofs", S!Vec(S!U256)>>, <<"signed_data", S!Vec(S!U8)>>>>
           R ==
             [protocol_version: S!U64.vals, pub_key: S!Vec(S!U8).vals, name: S!String.vals,
             security_proofs: S!Vec(S!U256).vals, signed_data: S!Vec(S!U8).vals]
           N ==
             {"protocol_version", "pub_key", "name", "security_proofs", "signed_data"}
<1>1. /\ Len(f) = 5
      /\ f[1][1] = "protocol_version" /\ f[1][2] = S!U64
      /\ f[2][1] = "pub_key" /\ f[2][2] = S!Vec(S!U8)
      /\ f[3][1] = "name" /\ f[3][2] = S!String
      /\ f[4][1] = "security_proofs" /\ f[4][2] = S!Vec(S!U256)
      /\ f[5][1] = "signed_data" /\ f[5][2] = S!Vec(S!U8)
  OBVIOUS
<1>2. \A v \in R : v = [name \in N |-> v[name]]
  OBVIOUS
<1>3. \A v \in R :
        /\ v["protocol_version"] \in S!U64.vals
        /\ v["pub_key"] \in S!Vec(S!U8).vals
        /\ v["name"] \in S!String.vals
        /\ v["security_proofs"] \in S!Vec(S!U256).vals
        /\ v["signed_data"] \in S!Vec(S!U8).vals
  OBVIOUS
<1> HIDE DEF f, R
<1>4. \A i \in 1..Len(f) : i = 1 \/ i = 2 \/ i = 3 \/ i = 4 \/ i = 5
  BY <1>1
<1>5. Distinct(f)
  BY <1>1, <1>4 DEF Distinct
<1>6. Names(f) = N
  BY <1>1, <1>4 DEF Names
<1> HIDE DEF N
<1>7. Fits(R, f)
  BY <1>1, <1>2, <1>3, <1>4, <1>5, <1>6 DEF Fits
<1>8. Len(f) >= 1 /\ \A i \in 1..Len(f) : Solid(f[i][2])
  BY <1>1, <1>4, Numbers, StringSolid, ListsSolid
<1>9. Solid(Struct(R, f))
  BY <1>7, <1>8, StructSolid
<1> QED
  BY <1>9 DEF Requested, f, R

LEMMA FiveJoined ==
  ASSUME NEW a, NEW b, NEW c, NEW d, NEW e
  PROVE  <<a, b, c>> \o <<d, e>> = <<a, b, c, d, e>>
<1> DEFINE X == {a, b, c, d, e}
           s == <<a, b, c>>
           t == <<d, e>>
           u == <<a, b, c, d, e>>
<1>1. /\ s \in Seq(X) /\ t \in Seq(X) /\ u \in Seq(X)
      /\ Len(s) = 3 /\ Len(t) = 2 /\ Len(u) = 5
      /\ s[1] = a /\ s[2] = b /\ s[3] = c /\ t[1] = d /\ t[2] = e
      /\ u[1] = a /\ u[2] = b /\ u[3] = c /\ u[4] = d /\ u[5] = e
  OBVIOUS
<1> HIDE DEF X, s, t, u
<1>2. s \in Seq(X) /\ t \in Seq(X)
  BY <1>1
<1>3. /\ s \o t \in Seq(X)
      /\ Len(s \o t) = Len(s) + Len(t)
      /\ \A i \in 1..(Len(s) + Len(t)) :
           (s \o t)[i] = IF i <= Len(s) THEN s[i] ELSE t[i - Len(s)]
  BY ONLY <1>2, ConcatProperties
<1>4. Len(s \o t) = 5 /\ \A i \in 1..5 : (s \o t)[i] = IF i <= 3 THEN s[i] ELSE t[i - 3]
  BY <1>1, <1>3
<1>5. \A i \in 1..5 : (s \o t)[i] = u[i]
  <2>1. \A i \in 1..5 : i = 1 \/ i = 2 \/ i = 3 \/ i = 4 \/ i = 5
    OBVIOUS
  <2> QED
    BY <1>1, <1>4, <2>1
<1>6. s \o t = u
  BY <1>1, <1>3, <1>4, <1>5, SeqEqual
<1> QED
  BY <1>6 DEF s, t, u

LEMMA ClientPacketAcross ==
  ASSUME NEW p \in C!ClientPacket.vals, p[1] # "ChallengeResponse"
  PROVE  Means(S!ClientPacket, C!ClientPacket.write[p], WireView("up", p))
<1> DEFINE L == S!Vec(S!U8)
           Q == [protocol_version: S!U64.vals, pub_key: S!Vec(S!U8).vals, name: S!String.vals,
                 security_proofs: S!Vec(S!U256).vals, signed_data: S!Vec(S!U8).vals]
           B == Struct(Q, <<<<"protocol_version", S!U64>>, <<"name", S!String>>,
                            <<"pub_key", S!Vec(S!U8)>>, <<"security_proofs", S!Vec(S!U256)>>,
                            <<"signed_data", S!Vec(S!U8)>>>>)
           vs == <<<<"AuthRequest", Requested>>, <<"Disconnect", Unit>>,
                   <<"KeepAlive", S!KeepAlive>>, <<"UpdateClientServerGroups", GroupsUpdated>>,
                   <<"ChallengeResponse", Split(Todo, L)>>, <<"SwitchChannel", S!Uuid>>>>
           vc == <<<<"AuthRequest", Split(Requested, B)>>, <<"Disconnect", Unit>>,
                   <<"KeepAlive", S!KeepAlive>>, <<"UpdateClientServerGroups", GroupsUpdated>>,
                   <<"ChallengeResponse", Todo>>, <<"SwitchChannel", S!Uuid>>>>
<1>1. C!ClientPacket = Enum(vs)
  BY SameNumbers, ListsSolid, GroupUpdateSolid, DurationSolid
     DEF C!ClientPacket, GroupsUpdated, S!KeepAlive, Requested
<1>2. S!ClientPacket = Enum(vc)
  <2>1. <<<<"protocol_version", S!U64>>, <<"pub_key", S!Vec(S!U8)>>, <<"name", S!String>>>>
          \o <<<<"security_proofs", S!Vec(S!U256)>>, <<"signed_data", S!Vec(S!U8)>>>>
        = <<<<"protocol_version", S!U64>>, <<"pub_key", S!Vec(S!U8)>>, <<"name", S!String>>,
            <<"security_proofs", S!Vec(S!U256)>>, <<"signed_data", S!Vec(S!U8)>>>>
    BY FiveJoined
  <2>2. <<<<"protocol_version", S!U64>>, <<"name", S!String>>, <<"pub_key", S!Vec(S!U8)>>>>
          \o <<<<"security_proofs", S!Vec(S!U256)>>, <<"signed_data", S!Vec(S!U8)>>>>
        = <<<<"protocol_version", S!U64>>, <<"name", S!String>>, <<"pub_key", S!Vec(S!U8)>>,
            <<"security_proofs", S!Vec(S!U256)>>, <<"signed_data", S!Vec(S!U8)>>>>
    BY FiveJoined
  <2> QED
    BY <2>1, <2>2 DEF S!ClientPacket, GroupsUpdated, S!KeepAlive, Requested
<1>3. /\ Sound(Requested) /\ Sound(Unit) /\ Sound(S!KeepAlive) /\ Sound(GroupsUpdated)
      /\ Sound(S!Uuid)
  BY RequestedSolid, UnitSound, KeepAliveSolid, GroupsUpdatedSolid, Numbers DEF Solid
<1>4. Split(Requested, B).read = Requested.read
  BY SplitParts
<1> HIDE DEF B, L
<1>5. /\ Len(vs) = 6
      /\ vs[1][1] = "AuthRequest" /\ vs[1][2] = Requested
      /\ vs[2][1] = "Disconnect" /\ vs[2][2] = Unit
      /\ vs[3][1] = "KeepAlive" /\ vs[3][2] = S!KeepAlive
      /\ vs[4][1] = "UpdateClientServerGroups" /\ vs[4][2] = GroupsUpdated
      /\ vs[5][1] = "ChallengeResponse" /\ vs[5][2] = Split(Todo, L)
      /\ vs[6][1] = "SwitchChannel" /\ vs[6][2] = S!Uuid
  OBVIOUS
<1>6. /\ Len(vc) = 6
      /\ vc[1][1] = "AuthRequest" /\ vc[1][2] = Split(Requested, B)
      /\ vc[2][1] = "Disconnect" /\ vc[2][2] = Unit
      /\ vc[3][1] = "KeepAlive" /\ vc[3][2] = S!KeepAlive
      /\ vc[4][1] = "UpdateClientServerGroups" /\ vc[4][2] = GroupsUpdated
      /\ vc[6][1] = "SwitchChannel" /\ vc[6][2] = S!Uuid
  OBVIOUS
<1> HIDE DEF vs, vc
<1>7. \A i \in 1..6 : i = 1 \/ i = 2 \/ i = 3 \/ i = 4 \/ i = 5 \/ i = 6
  OBVIOUS
<1>8. Distinct(vs)
  BY <1>5, <1>7 DEF Distinct
<1>9. \A i \in {1, 2, 3, 4, 6} : /\ Sound(vs[i][2])
                                 /\ vs[i][1] = vc[i][1]
                                 /\ vs[i][2].read = vc[i][2].read
  BY <1>3, <1>4, <1>5, <1>6
<1>10. VariantTurns(vs, vc, p, p)
  <2> SUFFICES ASSUME NEW i \in 1..6, p = Val(vs[i][1], p[2]), p[1] = vs[i][1],
                      p[2] \in vs[i][2].vals
               PROVE  /\ p = Val(vc[i][1], p[2])
                      /\ Means(vc[i][2], vs[i][2].write[p[2]], p[2])
    BY <1>5 DEF VariantTurns
  <2>1. i \in {1, 2, 3, 4, 6}
    BY <1>5, <1>7
  <2>2. Means(vs[i][2], vs[i][2].write[p[2]], p[2])
    BY <1>9, <2>1 DEF Sound
  <2>3. Means(vc[i][2], vs[i][2].write[p[2]], p[2])
    BY <1>9, <2>1, <2>2 DEF Means
  <2> QED
    BY <1>9, <2>1, <2>3
<1>11. Numbered(vs) /\ Len(vc) = Len(vs)
  BY <1>5, <1>6 DEF Numbered
<1>12. Means(Enum(vc), Enum(vs).write[p], p)
  BY <1>1, <1>8, <1>10, <1>11, EnumAcross, Zenon
<1>13. WireView("up", p) = p
  BY DEF WireView
<1> QED
  BY <1>1, <1>2, <1>12, <1>13

-----------------------------------------------------------------------------
(* Frames, and the primitives no packet uses.                              *)

\* The reader of a direction.
Reader(d) == IF d = "down" THEN C!ServerPacket ELSE S!ClientPacket

LEMMA PayloadAcross ==
  ASSUME NEW d \in {"down", "up"}, NEW p \in Sendable(d)
  PROVE  Means(Reader(d), Payload(d, p), WireView(d, p))
<1>1. CASE d = "down"
  <2>1. p \in S!ServerPacket.vals
    BY <1>1 DEF Sendable
  <2>2. Means(C!ServerPacket, S!ServerPacket.write[p], WireView("down", p))
    BY <2>1, ServerPacketAcross
  <2> QED
    BY <1>1, <2>2 DEF Reader, Payload
<1>2. CASE d = "up"
  <2>1. p \in C!ClientPacket.vals /\ p[1] # "ChallengeResponse"
    BY <1>2 DEF Sendable
  <2>2. Means(S!ClientPacket, C!ClientPacket.write[p], WireView("up", p))
    BY <2>1, ClientPacketAcross
  <2> QED
    BY <1>2, <2>2 DEF Reader, Payload
<1> QED
  BY <1>1, <1>2

LEMMA PartsOf ==
  ASSUME NEW h \in Seq(Octet), NEW e \in Seq(Octet), NEW n, n = Len(h)
  PROVE  /\ h \o e \in Seq(Octet)
         /\ Len(h \o e) = n + Len(e)
         /\ SubSeq(h \o e, 1, n) = h
         /\ SubSeq(h \o e, n + 1, n + Len(e)) = e
<1> DEFINE f == h \o e
<1>1. /\ f \in Seq(Octet)
      /\ Len(f) = Len(h) + Len(e)
      /\ \A i \in 1..(Len(h) + Len(e)) : f[i] = IF i <= Len(h) THEN h[i] ELSE e[i - Len(h)]
  BY ConcatProperties
<1> HIDE DEF f
<1>2. n \in Nat /\ Len(e) \in Nat
  OBVIOUS
<1>3. SubSeq(f, 1, n) = h
  <2> DEFINE s == SubSeq(f, 1, n)
  <2>1. s \in Seq(Octet) /\ Len(s) = n /\ \A i \in 1..n : s[i] = f[i]
    BY <1>1, <1>2
  <2> HIDE DEF s
  <2>2. \A i \in 1..n : s[i] = h[i]
    BY <1>1, <1>2, <2>1
  <2>3. s = h
    BY <2>1, <2>2, SeqEqual
  <2> QED
    BY <2>3 DEF s
<1>4. SubSeq(f, n + 1, n + Len(e)) = e
  <2> DEFINE s == SubSeq(f, n + 1, n + Len(e))
             m == Len(e)
  <2>1. s \in Seq(Octet) /\ Len(s) = m /\ \A i \in 1..m : s[i] = f[n + i]
    BY <1>1, <1>2
  <2> HIDE DEF s
  <2>2. ASSUME NEW i \in 1..m PROVE s[i] = e[i]
    <3>1. n + i \in 1..(n + m) /\ ~(n + i <= n) /\ n + i - n = i
      BY <1>2
    <3>2. f[n + i] = e[n + i - n]
      BY <1>1, <3>1
    <3> QED
      BY <2>1, <3>1, <3>2
  <2>3. s = e
    BY <2>1, <2>2, SeqEqual
  <2> QED
    BY <2>3 DEF s
<1> QED
  BY <1>1, <1>3, <1>4 DEF f

\* A frame is a header of 8 bytes, from which the reader takes the length of
\* the payload, and a payload, which it reads to the last byte.
LEMMA FrameRead ==
  ASSUME NEW d \in {"down", "up"}, NEW p \in Sendable(d), NEW e, e = Payload(d, p),
         Len(e) \in Usize.vals, NEW f, f = WireFrame(d, p)
  PROVE  /\ f \in Seq(Octet) /\ e \in Seq(Octet)
         /\ Len(f) = 8 + Len(e)
         /\ WireSize(d, SubSeq(f, 1, 8)) = Len(e)
         /\ WireDecode(d, SubSeq(f, 9, Len(f))) = Ok(WireView(d, p), Len(e))
<1> DEFINE h == Usize.write[Len(e)]
<1>1. S!U64 = Usize /\ C!U64 = Usize
  BY DEF S!U64, C!U64, Usize
<1>2. f = h \o e
  BY <1>1 DEF WireFrame, Payload, S!Encode, C!Encode
<1>3. Means(Reader(d), e, WireView(d, p)) /\ e \in Seq(Octet)
  BY PayloadAcross DEF Means
<1>4. h \in Seq(Octet) /\ Len(h) = 8 /\ Means(Usize, h, Len(e))
  BY UsizeSound DEF Sound
<1> HIDE DEF h
<1>5. f \in Seq(Octet) /\ Len(f) = 8 + Len(e) /\ SubSeq(f, 1, 8) = h /\ SubSeq(f, 9, 8 + Len(e)) = e
  <2>1. ASSUME NEW n, n = 8
        PROVE  /\ h \o e \in Seq(Octet)
               /\ Len(h \o e) = n + Len(e)
               /\ SubSeq(h \o e, 1, n) = h
               /\ SubSeq(h \o e, n + 1, n + Len(e)) = e
    <3>1. n = Len(h) /\ h \in Seq(Octet) /\ e \in Seq(Octet)
      BY <1>3, <1>4, <2>1
    <3> QED
      BY ONLY <3>1, PartsOf
  <2>2. 8 + 1 = 9
    OBVIOUS
  <2> QED
    BY <1>2, <2>1, <2>2
<1>6. Stands(h, h, 0) /\ Stands(e, e, 0)
  BY <1>3, <1>4, StandsAlone
<1>7. Usize.read[h][0] = Ok(Len(e), 0 + Len(h))
  BY <1>4, <1>6 DEF Means
<1>8. Usize.read[h][0].v = Len(e)
  BY <1>7 DEF Ok
<1>9. Len(e) \in Nat
  BY <1>3
<1>10. Reader(d).read[e][0] = Ok(WireView(d, p), Len(e))
  <2>1. Reader(d).read[e][0] = Ok(WireView(d, p), 0 + Len(e))
    BY <1>3, <1>6 DEF Means
  <2> QED
    BY <1>9, <2>1
<1>11. WireSize(d, h) = Usize.read[h][0].v
  BY <1>1 DEF WireSize, S!SizeOf, C!SizeOf
<1>12. WireDecode(d, e) = Reader(d).read[e][0]
  BY DEF WireDecode, Reader, S!DecodePacket, C!DecodePacket
<1> QED
  BY <1>3, <1>5, <1>8, <1>10, <1>11, <1>12

\* Whatever is sent in either direction, the reader takes the length of the
\* payload from the header and reads the payload to its end.
LEMMA PacketsRead ==
  ASSUME NEW d \in Dirs, NEW p \in Packets(d)
  PROVE  LET f == Frame(d, p)
             result == Decode(d, SubSeq(f, HeaderSize + 1, Len(f)))
         IN /\ f \in Seq(Byte)
            /\ Len(f) >= HeaderSize
            /\ Size(d, SubSeq(f, 1, HeaderSize)) = Len(f) - HeaderSize
            /\ result.st = "ok" /\ result.v = View(d, p)
            /\ result.at = Len(f) - HeaderSize
<1> DEFINE f == WireFrame(d, p)
           e == Payload(d, p)
           result == Decode(d, SubSeq(f, 9, Len(f)))
<1>1. d \in {"down", "up"} /\ p \in Sendable(d) /\ Len(e) \in Usize.vals
  BY DirsAssumption, FormatAssumption
<1>2. HeaderSize = 8 /\ HeaderSize + 1 = 9 /\ Byte = Octet
  BY DEF HeaderSize, Byte, Octet
<1>3. /\ Frame(d, p) = f
      /\ Size(d, SubSeq(f, 1, 8)) = WireSize(d, SubSeq(f, 1, 8))
      /\ result = WireDecode(d, SubSeq(f, 9, Len(f)))
      /\ View(d, p) = WireView(d, p)
  BY <1>2, FormatAssumption
<1> HIDE DEF f, e
<1>4. /\ f \in Seq(Octet) /\ e \in Seq(Octet)
      /\ Len(f) = 8 + Len(e)
      /\ WireSize(d, SubSeq(f, 1, 8)) = Len(e)
      /\ WireDecode(d, SubSeq(f, 9, Len(f))) = Ok(WireView(d, p), Len(e))
  BY <1>1, FrameRead DEF f, e
<1>5. result = Ok(View(d, p), Len(e))
  BY <1>3, <1>4
<1>6. result.st = "ok" /\ result.v = View(d, p) /\ result.at = Len(e)
  BY <1>5 DEF Ok
<1>7. Len(e) \in Nat /\ Len(f) >= 8 /\ Len(f) - 8 = Len(e)
  BY <1>4
<1> HIDE DEF result
<1>8. /\ f \in Seq(Byte) /\ Len(f) >= 8
      /\ Size(d, SubSeq(f, 1, 8)) = Len(f) - 8
      /\ result.st = "ok" /\ result.v = View(d, p) /\ result.at = Len(f) - 8
  BY <1>2, <1>3, <1>4, <1>6, <1>7
<1> QED
  BY <1>2, <1>3, <1>8 DEF result

LEMMA FormatRoundTrips == RoundTrip
  BY PacketsRead DEF RoundTrip

\* Each program reads what the other wrote, to the last byte, of every packet
\* of every size: the two copies of the packets and of the primitives agree.
THEOREM FramesAlwaysRoundTrip == Spec => []FramesRoundTrip
<1>1. FramesRoundTrip
  BY FormatRoundTrips, PacketsRead DEF FramesRoundTrip
<1> QED
  BY <1>1, PTL

LEMMA PrimitivesSame ==
  /\ DOMAIN Primitives = 1..17
  /\ \A i \in 1..17 : Sound(Primitives[i][1]) /\ Primitives[i][1] = Primitives[i][2]
  /\ Primitives[17][1] = S!KeepAlive
<1> DEFINE a == S!Option(S!Uuid)
           b == S!Option(S!Bool)
           l == S!ExactSizeIterator(S!U16)
<1>1. /\ Sound(a) /\ C!Option(C!Uuid) = a
      /\ Sound(b) /\ C!Option(C!Bool) = b
  BY MaybeSound, Numbers, BoolSolid, SameNumbers DEF S!Option, C!Option, Solid
<1>2. Sound(l) /\ C!ExactSizeIterator(C!U16) = l
  BY ManySolid, Numbers, SameNumbers DEF S!ExactSizeIterator, C!ExactSizeIterator, Solid
<1>3. S!Atomic(S!Bool) = S!Bool /\ C!AtomicBool = S!Bool
  BY SameNumbers DEF S!Atomic, C!AtomicBool
<1>4. S!Box(S!U8) = S!U8 /\ C!Box(C!U8) = S!U8
  BY SameNumbers DEF S!Box, C!Box
<1>5. S!Ref(S!Duration) = S!Duration /\ C!Ref(C!Duration) = S!Duration
  BY DurationSolid DEF S!Ref, C!Ref
<1>6. S!RwLock(S!String) = S!String /\ C!Arc(C!RwLock(C!CowStr)) = S!String
  BY SameNumbers DEF S!RwLock, C!Arc, C!RwLock, C!CowStr
<1>7. C!KeepAlive = S!KeepAlive
  BY KeepAliveSolid
<1>8. Primitives =
        <<<<S!U128, S!U128>>, <<S!I64, S!I64>>, <<S!I32, S!I32>>, <<S!I16, S!I16>>,
          <<S!I8, S!I8>>, <<S!U32, S!U32>>, <<S!U16, S!U16>>, <<S!F32, S!F32>>,
          <<S!F64, S!F64>>, <<a, a>>, <<b, b>>, <<S!Bool, S!Bool>>, <<l, l>>,
          <<S!U8, S!U8>>, <<S!Duration, S!Duration>>, <<S!String, S!String>>,
          <<S!KeepAlive, S!KeepAlive>>>>
  BY <1>1, <1>2, <1>3, <1>4, <1>5, <1>6, <1>7, SameNumbers DEF Primitives
<1> HIDE DEF a, b, l
<1>9. /\ Sound(S!U128) /\ Sound(S!I64) /\ Sound(S!I32) /\ Sound(S!I16) /\ Sound(S!I8)
      /\ Sound(S!U32) /\ Sound(S!U16) /\ Sound(S!F32) /\ Sound(S!F64) /\ Sound(S!Bool)
      /\ Sound(S!U8) /\ Sound(S!Duration) /\ Sound(S!String) /\ Sound(S!KeepAlive)
  BY Numbers, BoolSolid, StringSolid, DurationSolid, KeepAliveSolid DEF Solid
<1>10. DOMAIN Primitives = 1..17 /\ Primitives[17][1] = S!KeepAlive
  BY <1>8
<1>11. \A i \in 1..17 : Primitives[i][1] = Primitives[i][2]
  BY <1>8
<1>12. \A i \in 1..17 :
         \/ i = 1 \/ i = 2 \/ i = 3 \/ i = 4 \/ i = 5 \/ i = 6 \/ i = 7 \/ i = 8 \/ i = 9
         \/ i = 10 \/ i = 11 \/ i = 12 \/ i = 13 \/ i = 14 \/ i = 15 \/ i = 16 \/ i = 17
  OBVIOUS
<1>13. \A i \in 1..17 : Sound(Primitives[i][1])
  BY <1>1, <1>2, <1>8, <1>9, <1>12
<1> QED
  BY <1>10, <1>11, <1>13

LEMMA SoundCrosses ==
  ASSUME NEW f, Sound(f), NEW v \in f.vals
  PROVE  Crosses(f, f, v)
<1>1. Means(f, f.write[v], v) /\ f.write[v] \in Seq(Octet)
  BY DEF Sound, Means
<1>2. f.read[f.write[v]][0] = Ok(v, 0 + Len(f.write[v]))
  BY <1>1, StandsAlone DEF Means
<1>3. 0 + Len(f.write[v]) = Len(f.write[v])
  BY <1>1
<1> QED
  BY <1>2, <1>3 DEF Crosses

\* Two fields take what each of them takes.
AddsUp(s, f, g, x, y, v) == Len(s.write[v]) = Len(f.write[x]) + Len(g.write[y])

LEMMA LengthOfTwo ==
  ASSUME NEW R, NEW m, NEW n, NEW f, NEW g, NEW v \in R,
         f.write[v[m]] \in Seq(Octet), g.write[v[n]] \in Seq(Octet)
  PROVE  AddsUp(Struct(R, <<<<m, f>>, <<n, g>>>>), f, g, v[m], v[n], v)
<1> DEFINE fields == <<<<m, f>>, <<n, g>>>>
           x == f.write[v[m]]
           y == g.write[v[n]]
           e == [i \in 1..Len(fields) |-> fields[i][2].write[v[fields[i][1]]]]
<1>1. /\ Len(fields) = 2
      /\ fields[1][1] = m /\ fields[1][2] = f
      /\ fields[2][1] = n /\ fields[2][2] = g
  OBVIOUS
<1> HIDE DEF fields
<1>2. Struct(R, fields).write[v] = FlattenSeq(e)
  BY StructParts
<1>3. e[1] = x /\ e[2] = y
  BY <1>1
<1>4. e \in Seq(Seq(Octet)) /\ Len(e) = 2
  <2>1. \A i \in 1..2 : i = 1 \/ i = 2
    OBVIOUS
  <2>2. e \in [1..2 -> Seq(Octet)]
    BY <1>1, <1>3, <2>1
  <2> HIDE DEF e
  <2>3. \A k \in Nat : \A B : \A q \in [1..k -> B] : q \in Seq(B) /\ Len(q) = k
    OBVIOUS
  <2> QED
    BY <2>2, <2>3
<1> HIDE DEF e
<1>5. PICK h : Joins(e, h) /\ FlattenSeq(e) = h[Len(e)]
  BY <1>4, FlattenJoins
<1>6. /\ h[0] = <<>>
      /\ \A i \in 1..Len(e) : h[i] = h[i - 1] \o e[i]
  BY <1>4, <1>5, JoinsFacts
<1>7. h[1] = h[0] \o e[1] /\ h[2] = h[1] \o e[2]
  <2>1. 1 \in 1..Len(e) /\ 2 \in 1..Len(e) /\ 1 - 1 = 0 /\ 2 - 1 = 1
    BY <1>4
  <2> QED
    BY <1>6, <2>1
<1> HIDE DEF x, y
<1>8. x \in Seq(Octet) /\ y \in Seq(Octet)
  BY DEF x, y
<1>9. h[1] = x
  <2>1. h[1] = <<>> \o x
    BY <1>3, <1>6, <1>7
  <2> QED
    BY <1>8, <2>1, ConcatEmptySeq
<1>10. FlattenSeq(e) = x \o y
  BY <1>3, <1>4, <1>5, <1>7, <1>9
<1>11. Len(x \o y) = Len(x) + Len(y)
  BY <1>8, ConcatProperties
<1> QED
  BY <1>2, <1>10, <1>11 DEF x, y, fields, AddsUp

\* A frame of the keep-alive stream is 20 bytes long.
LEMMA KeepAliveLength ==
  ASSUME NEW v \in S!KeepAlive.vals
  PROVE  Len(S!KeepAlive.write[v]) = 8 + 8 + 4
<1> DEFINE D == [secs: S!U64.vals, subsec_nanos: S!U32.vals]
           K == [id: S!U64.vals, send_time: S!Duration.vals]
<1>1. /\ \A n \in S!U64.vals : S!U64.write[n] \in Seq(Octet) /\ Len(S!U64.write[n]) = 8
      /\ \A n \in S!U32.vals : S!U32.write[n] \in Seq(Octet) /\ Len(S!U32.write[n]) = 4
  <2>1. {4, 8} \subseteq Nat \ {0}
    OBVIOUS
  <2> QED
    BY <2>1, UintSound DEF S!U64, S!U32
<1>2. S!KeepAlive = Struct(K, <<<<"id", S!U64>>, <<"send_time", S!Duration>>>>)
  BY DEF S!KeepAlive
<1>3. S!Duration = Struct(D, <<<<"secs", S!U64>>, <<"subsec_nanos", S!U32>>>>)
  BY DEF S!Duration
<1>4. S!KeepAlive.vals = K /\ S!Duration.vals = D
  BY <1>2, <1>3, StructParts
<1>5. v \in K /\ v["id"] \in S!U64.vals /\ v["send_time"] \in S!Duration.vals
  BY <1>4
<1>6. S!Duration.write[v["send_time"]] \in Seq(Octet)
  BY <1>5, DurationSolid DEF Solid, Sound, Means
<1> DEFINE t == v["send_time"]
<1>7. t \in D /\ t["secs"] \in S!U64.vals /\ t["subsec_nanos"] \in S!U32.vals
  BY <1>4, <1>5
<1> HIDE DEF t, D, K
<1>8. Len(S!Duration.write[t]) =
        Len(S!U64.write[t["secs"]]) + Len(S!U32.write[t["subsec_nanos"]])
  <2>1. S!U64.write[t["secs"]] \in Seq(Octet) /\ S!U32.write[t["subsec_nanos"]] \in Seq(Octet)
    BY <1>1, <1>7
  <2>2. AddsUp(Struct(D, <<<<"secs", S!U64>>, <<"subsec_nanos", S!U32>>>>), S!U64, S!U32,
               t["secs"], t["subsec_nanos"], t)
    BY <1>7, <2>1, LengthOfTwo
  <2> QED
    BY <1>3, <2>2 DEF AddsUp
<1>9. Len(S!KeepAlive.write[v]) =
        Len(S!U64.write[v["id"]]) + Len(S!Duration.write[v["send_time"]])
  <2>1. S!U64.write[v["id"]] \in Seq(Octet)
    BY <1>1, <1>5
  <2>2. AddsUp(Struct(K, <<<<"id", S!U64>>, <<"send_time", S!Duration>>>>), S!U64, S!Duration,
               v["id"], v["send_time"], v)
    BY <1>5, <1>6, <2>1, LengthOfTwo
  <2> QED
    BY <1>2, <2>2 DEF AddsUp
<1>10. /\ Len(S!U64.write[v["id"]]) = 8
       /\ Len(S!U64.write[t["secs"]]) = 8
       /\ Len(S!U32.write[t["subsec_nanos"]]) = 4
  BY <1>1, <1>5, <1>7
<1> QED
  BY <1>8, <1>9, <1>10 DEF t

\* The two copies of protocol.rs agree: each reads every value of every
\* primitive and wrapper as the other wrote it, and a frame of the keep-alive
\* stream is as long as its reader expects.
THEOREM PrimitivesAlwaysAgree == Spec => []PrimitivesAgree
<1>1. PrimitivesAgree
  <2>1. ASSUME NEW i \in DOMAIN Trials, NEW v \in Trials[i]
        PROVE  CrossesBothWays(Primitives[i], v)
    <3>1. i \in DOMAIN Primitives /\ v \in Primitives[i][1].vals
      BY TrialsAssumption
    <3>2. /\ Crosses(Primitives[i][1], Primitives[i][2], v)
          /\ Crosses(Primitives[i][2], Primitives[i][1], v)
      BY <3>1, PrimitivesSame, SoundCrosses
    <3> QED
      BY <3>2 DEF CrossesBothWays
  <2>2. \A v \in KeepAliveTrials : Len(S!KeepAlive.write[v]) = 8 + 8 + 4
    <3>1. KeepAliveTrials \subseteq S!KeepAlive.vals
      BY TrialsAssumption, PrimitivesSame DEF KeepAliveTrials
    <3> QED
      BY <3>1, KeepAliveLength
  <2> QED
    BY <2>1, <2>2 DEF PrimitivesAgree
<1> QED
  BY <1>1, PTL

-----------------------------------------------------------------------------
(* The stream between the two programs.                                    *)

\* The stream of a connection between the two programs keeps the frames of
\* whatever they send intact and its reader aligned with them.
THEOREM WireCorrect == Spec => []StreamInv
  BY FormatRoundTrips, StreamCorrect

\* The packet handlers of either program see the packets the other sent, in
\* order, without a gap.
THEOREM WireFaithful == Spec => []Faithful
  BY FormatRoundTrips, StreamFaithful

\* Every variable keeps its type: no decoder fails on what the other program
\* wrote, as no reader is in a state that a failure leads to.
THEOREM WireTypeCorrect == Spec => []TypeOK
  BY FormatRoundTrips, StreamTypeCorrect

\* The stream between the two programs is a queue of packets.
THEOREM WireIsQueue == Spec => IsQueue
  BY FormatRoundTrips, StreamIsQueue
=============================================================================
