---------------------------- MODULE BBRingProofs ----------------------------
(***************************************************************************)
(* Theorems about BBRing, for any number of pushing threads, any packets,  *)
(* any capacity and any width of the counters, as long as the ring is      *)
(* Sound: no refused push has been overtaken, no record lies behind the    *)
(* end of the buffer.                                                      *)
(***************************************************************************)
EXTENDS BBRing, SequenceTheorems, TLAPS

\* The bytes in front of record k + 1, which are those of the first k.
Pos(k) == IF k = 0 THEN 0 ELSE place[k] + Size(log[k])

\* Every ticket has its own bytes, right behind those of the ticket before.
LogInv ==
  /\ log \in Seq(Items) /\ place \in Seq(Nat)
  /\ Len(log) <= MaxPush /\ Len(place) = Len(log)
  /\ \A k \in 1..Len(log) : place[k] = Pos(k - 1)
  /\ \A j, k \in 0..Len(log) : j <= k => Pos(j) <= Pos(k)
  /\ \A k \in 0..Len(log) : Pos(k) <= k * Longest

\* The packed word counts the tickets and their bytes.
MarkInv ==
  /\ marker \in Markers
  /\ marker.len = Len(log)
  /\ marker.head = Pos(Len(log))
  /\ marker.fin <= Len(log)

\* Each push under way has a ticket of its own, not yet published.
TicketInv ==
  /\ pc \in [Pushers -> {"idle", "check", "full", "write", "wait", "publish"}]
  /\ own \in [Pushers -> Markers]
  /\ data \in [Pushers -> Items \cup {<<>>}]
  /\ \A p \in Pushers : Busy(p) =>
       /\ own[p].len \in marker.fin..(Len(log) - 1)
       /\ log[own[p].len + 1] = data[p]
       /\ place[own[p].len + 1] = own[p].head
       /\ pc[p] = "publish" => own[p].len = marker.fin
  /\ \A p, q \in Pushers : Busy(p) /\ Busy(q) /\ p # q => own[p].len # own[q].len

\* What is published, or waits to be, is in the buffer.
StoreInv ==
  /\ mem \in [0..(Cap - 1) -> Byte]
  /\ \A k \in 1..marker.fin : Stored(k) /\ Pos(k) <= Cap
  /\ \A p \in Pushers, k \in 1..Len(log) :
       pc[p] \in {"wait", "publish"} /\ k = own[p].len + 1 => Stored(k) /\ Pos(k) <= Cap

\* The removals follow the published records, one guard behind at most.
PopInv ==
  /\ popper \in {"idle", "check", "none", "wait", "read"}
  /\ held \in BOOLEAN
  /\ rem \in Markers /\ mine \in Markers
  /\ guard \in [at : Nat, len : Nat]
  /\ taken \in Seq(Items)
  /\ Len(taken) <= marker.fin
  /\ \A k \in 1..Len(taken) : taken[k] = log[k]
  /\ held => /\ Len(taken) >= 1
             /\ guard.at = place[Len(taken)] + 4
             /\ guard.len = Len(log[Len(taken)])
  /\ rem.fin = IF held THEN Len(taken) - 1 ELSE Len(taken)
  /\ rem.len = IF popper = "idle" THEN Len(taken) ELSE Len(taken) + 1
  /\ rem.head = Pos(rem.fin)
  /\ popper \in {"check", "none", "wait"} =>
       /\ mine.len = Len(taken)
       /\ mine.fin <= rem.fin
       /\ mine.fin = Len(taken) => mine.head = Pos(Len(taken))
  /\ popper \in {"wait", "read"} => Len(taken) < marker.fin
  /\ popper = "read" => mine.fin = Len(taken) /\ mine.head = Pos(Len(taken)) /\ ~held

Core == LogInv /\ MarkInv /\ TicketInv /\ StoreInv /\ PopInv

RingInv == torn \in BOOLEAN /\ outside \in BOOLEAN /\ (Sound => Core)

-----------------------------------------------------------------------------
(* Arithmetic.                                                             *)

LEMMA Small ==
  ASSUME NEW K \in Nat \ {0}, NEW x \in 0..(K - 1)
  PROVE  x \div K = 0 /\ x % K = x
OBVIOUS

LEMMA Product ==
  ASSUME NEW a \in Nat, NEW b \in Nat, NEW L \in Nat
  PROVE  /\ a <= b => a * L <= b * L
         /\ (a + 1) * L = a * L + L
OBVIOUS

LEMMA TwoBytes ==
  ASSUME NEW n \in Nat, n < 256 * 256
  PROVE  n % 256 \in Byte /\ n \div 256 \in Byte /\ (n % 256) + 256 * (n \div 256) = n
BY DEF Byte

\* fetch_add changes the fields alone when each can hold what it gets.
LEMMA AddPlain ==
  ASSUME NEW m \in Markers, NEW h \in Int, NEW l \in Int, NEW f \in Int,
         m.head + h \in 0..(HeadMod - 1),
         m.len + l \in 0..(LenMod - 1),
         m.fin + f \in 0..(LenMod - 1)
  PROVE  Add(m, h, l, f) = [head |-> m.head + h, len |-> m.len + l, fin |-> m.fin + f]
<1>0. HeadMod \in Nat \ {0} /\ LenMod \in Nat \ {0}
  BY BoundAssumption
<1> DEFINE x == m.head + h
           y == m.len + l
           z == m.fin + f
<1>1. x \div HeadMod = 0 /\ x % HeadMod = x
  BY <1>0, Small
<1>2. y \div LenMod = 0 /\ y % LenMod = y
  BY <1>0, Small
<1>3. z \div LenMod = 0 /\ z % LenMod = z
  BY <1>0, Small
<1>4. y \in Int /\ z \in Int
  BY <1>0 DEF Markers
<1>5. y + 0 = y /\ z + 0 = z
  BY <1>4
<1> QED
  BY <1>1, <1>2, <1>3, <1>5 DEF Add

\* What the bounds say, one by one.
LEMMA Bounds ==
  /\ Cap \in Nat \ {0} /\ HeadMod \in Nat \ {0} /\ LenMod \in Nat \ {0}
  /\ Longest \in Nat \ {0} /\ MaxPush \in Nat \ {0}
  /\ MaxPush + 1 < LenMod /\ MaxPush * Longest < HeadMod
BY BoundAssumption

LEMMA ItemFacts ==
  ASSUME NEW i \in Items
  PROVE  /\ i \in Seq(Byte) /\ Len(i) \in Nat /\ Len(i) < 256 * 256
         /\ Size(i) = Len(i) + 4 /\ Size(i) \in Nat /\ Size(i) <= Longest
         /\ Record(i) \in Seq(Byte) /\ Len(Record(i)) = Size(i)
         /\ Record(i)[1] + 256 * Record(i)[2] = Len(i)
         /\ \A k \in 1..Len(i) : Record(i)[4 + k] = i[k]
<1>1. i \in Seq(Byte) /\ Len(i) \in Nat /\ Len(i) < 256 * 256 /\ Size(i) <= Longest
  <2>1. i \in Seq(Byte) /\ Len(i) < 256 * 256 /\ Size(i) <= Longest
    BY ItemAssumption
  <2>2. Len(i) \in Nat
    BY <2>1
  <2> QED
    BY <2>1, <2>2
<1>2. Size(i) = Len(i) + 4 /\ Size(i) \in Nat
  BY <1>1 DEF Size, HeaderSize
<1>3. Len(i) % 256 \in Byte /\ Len(i) \div 256 \in Byte /\ 0 \in Byte
      /\ (Len(i) % 256) + 256 * (Len(i) \div 256) = Len(i)
  <2>1. 0 \in Byte
    BY DEF Byte
  <2> QED
    BY <1>1, <2>1, TwoBytes
<1> DEFINE h == Header(Len(i))
<1>4. h = <<Len(i) % 256, Len(i) \div 256, 0, 0>> /\ h \in Seq(Byte) /\ Len(h) = 4
  BY <1>3 DEF Header
<1>5. h[1] = Len(i) % 256 /\ h[2] = Len(i) \div 256
  BY <1>4
<1> HIDE DEF h
<1>6. /\ h \o i \in Seq(Byte) /\ Len(h \o i) = Len(i) + 4
      /\ \A k \in 1..(4 + Len(i)) : (h \o i)[k] = IF k <= 4 THEN h[k] ELSE i[k - 4]
  BY <1>1, <1>4, ConcatProperties
<1>7. (h \o i)[1] = h[1] /\ (h \o i)[2] = h[2] /\ \A k \in 1..Len(i) : (h \o i)[4 + k] = i[k]
  <2>1. Len(i) \in Nat
    BY <1>1
  <2>2. ASSUME NEW k \in 1..Len(i) PROVE (h \o i)[4 + k] = i[k]
    <3>1. 4 + k \in 1..(4 + Len(i)) /\ ~(4 + k <= 4) /\ (4 + k) - 4 = k
      BY <2>1
    <3> QED
      BY <1>6, <3>1
  <2> QED
    BY <1>6, <2>1, <2>2
<1>8. Record(i) = h \o i
  BY DEF Record, h
<1> QED
  BY <1>1, <1>2, <1>3, <1>5, <1>6, <1>7, <1>8

\* The positions are numbers that fit the head field.
LEMMA PosFacts ==
  ASSUME LogInv
  PROVE  /\ Len(log) \in Nat
         /\ \A k \in 0..Len(log) : Pos(k) \in Nat /\ Pos(k) < HeadMod
         /\ \A k \in 1..Len(log) : /\ log[k] \in Items /\ place[k] \in Nat
                                   /\ Pos(k) = place[k] + Size(log[k])
<1>1. \A k \in 1..Len(log) : log[k] \in Items /\ place[k] \in Nat
  BY DEF LogInv
<1>2. \A k \in 0..Len(log) : Pos(k) \in Nat
  <2>1. \A k \in 1..Len(log) : Size(log[k]) \in Nat
    BY <1>1, ItemFacts
  <2> QED
    BY <1>1, <2>1 DEF Pos, LogInv
<1>3. ASSUME NEW k \in 0..Len(log) PROVE Pos(k) < HeadMod
  <2>1. k \in Nat /\ k <= MaxPush /\ Pos(k) <= k * Longest
    BY Bounds DEF LogInv
  <2>2. k * Longest <= MaxPush * Longest
    BY <2>1, Bounds, Product
  <2>3. k * Longest \in Nat /\ MaxPush * Longest \in Nat
    BY <2>1, Bounds
  <2> QED
    BY <1>2, <2>1, <2>2, <2>3, Bounds
<1>4. \A k \in 1..Len(log) : Pos(k) = place[k] + Size(log[k])
  BY DEF Pos
<1>5. Len(log) \in Nat
  BY DEF LogInv
<1> QED
  BY <1>1, <1>2, <1>3, <1>4, <1>5

-----------------------------------------------------------------------------
(* The log.                                                                *)

\* A new ticket starts where the last one ends.
LEMMA GrowLog ==
  ASSUME LogInv, MarkInv, NEW i \in Items, Len(log) < MaxPush,
         log' = Append(log, i), place' = Append(place, marker.head)
  PROVE  /\ LogInv'
         /\ Len(log') = Len(log) + 1
         /\ \A k \in 0..Len(log) : Pos(k)' = Pos(k)
         /\ \A k \in 1..Len(log) : log'[k] = log[k] /\ place'[k] = place[k]
         /\ log'[Len(log) + 1] = i /\ place'[Len(log) + 1] = marker.head
         /\ \A k : k = Len(log) + 1 => Pos(k)' = marker.head + Size(i)
         /\ marker.head + Size(i) < HeadMod
<1>0. PICK n \in Nat : n = Len(log)
  BY DEF LogInv
<1>1. /\ log \in Seq(Items) /\ place \in Seq(Nat) /\ Len(place) = n /\ n < MaxPush
      /\ MaxPush \in Nat /\ Longest \in Nat
      /\ marker.head = Pos(n) /\ Pos(n) \in Nat
  BY <1>0, Bounds, PosFacts DEF LogInv, MarkInv
<1>2. /\ log' \in Seq(Items) /\ Len(log') = n + 1
      /\ \A k \in 1..n : log'[k] = log[k]
      /\ log'[n + 1] = i
  BY <1>0, <1>1
<1>3. /\ place' \in Seq(Nat) /\ Len(place') = n + 1
      /\ \A k \in 1..n : place'[k] = place[k]
      /\ place'[n + 1] = marker.head
  BY <1>0, <1>1
<1>4. \A k \in 0..n : Pos(k)' = Pos(k)
  BY <1>0, <1>2, <1>3 DEF Pos
<1>5. Pos(n + 1)' = marker.head + Size(i)
  BY <1>2, <1>3 DEF Pos
<1>6. Size(i) \in Nat /\ Size(i) <= Longest
  BY ItemFacts
<1>7. \A k \in 0..n : Pos(k) \in Nat /\ Pos(k) <= Pos(n)
  BY <1>0, PosFacts DEF LogInv
<1>8. \A k \in 1..(n + 1) : place'[k] = Pos(k - 1)'
  <2> TAKE k \in 1..(n + 1)
  <2>1. CASE k = n + 1
    BY <1>1, <1>3, <1>4, <2>1
  <2>2. CASE k # n + 1
    <3>1. k \in 1..n /\ k - 1 \in 0..n
      BY <2>2
    <3>2. place[k] = Pos(k - 1)
      BY <1>0, <3>1 DEF LogInv
    <3> QED
      BY <1>3, <1>4, <3>1, <3>2
  <2> QED
    BY <2>1, <2>2
<1>9. \A j, k \in 0..(n + 1) : j <= k => Pos(j)' <= Pos(k)'
  <2> TAKE j, k \in 0..(n + 1)
  <2> HAVE j <= k
  <2>1. CASE k = n + 1 /\ j = n + 1
    BY <1>1, <1>5, <1>6, <2>1
  <2>2. CASE k = n + 1 /\ j # n + 1
    <3>1. j \in 0..n
      BY <2>2
    <3> QED
      BY <1>1, <1>4, <1>5, <1>6, <1>7, <2>2, <3>1
  <2>3. CASE k # n + 1
    <3>1. j \in 0..n /\ k \in 0..n
      BY <2>3
    <3> QED
      BY <1>0, <1>4, <3>1 DEF LogInv
  <2> QED
    BY <2>1, <2>2, <2>3
<1>10. \A k \in 0..(n + 1) : Pos(k)' <= k * Longest
  <2> TAKE k \in 0..(n + 1)
  <2>1. CASE k = n + 1
    <3>1. Pos(n) <= n * Longest /\ n * Longest \in Nat
      BY <1>0, <1>1 DEF LogInv
    <3>2. (n + 1) * Longest = n * Longest + Longest
      BY <1>1, Product
    <3>3. Pos(n) + Size(i) <= n * Longest + Longest
      BY <1>1, <1>6, <3>1
    <3> QED
      BY <1>1, <1>5, <2>1, <3>2, <3>3
  <2>2. CASE k # n + 1
    <3>1. k \in 0..n
      BY <2>2
    <3> QED
      BY <1>0, <1>4, <3>1 DEF LogInv
  <2> QED
    BY <2>1, <2>2
<1>11. LogInv'
  BY <1>1, <1>2, <1>3, <1>8, <1>9, <1>10 DEF LogInv
<1>12. marker.head + Size(i) < HeadMod
  <2>1. PICK a \in Nat : a = (n + 1) * Longest
    BY <1>1
  <2>2. PICK b \in Nat : b = MaxPush * Longest
    BY <1>1
  <2>3. marker.head + Size(i) <= a
    BY <1>5, <1>10, <2>1
  <2>4. n + 1 \in Nat /\ n + 1 <= MaxPush
    BY <1>1
  <2>5. a <= b
    BY <1>1, <2>1, <2>2, <2>4, Product
  <2>6. b < HeadMod /\ HeadMod \in Nat
    BY <2>2, Bounds
  <2> QED
    BY <1>1, <1>6, <2>3, <2>5, <2>6
<1> QED
  BY <1>0, <1>2, <1>3, <1>4, <1>5, <1>11, <1>12

\* The last ticket is given back.
LEMMA ShrinkLog ==
  ASSUME LogInv, Len(log) >= 1, log' = Front(log), place' = Front(place)
  PROVE  /\ LogInv'
         /\ Len(log') = Len(log) - 1
         /\ \A k \in 0..(Len(log) - 1) : Pos(k)' = Pos(k)
         /\ \A k \in 1..(Len(log) - 1) : log'[k] = log[k] /\ place'[k] = place[k]
<1>0. PICK n \in Nat : n + 1 = Len(log)
  <2>1. Len(log) \in Nat
    BY DEF LogInv
  <2> QED
    BY <2>1
<1>1. log \in Seq(Items) /\ place \in Seq(Nat) /\ Len(place) = n + 1 /\ n + 1 <= MaxPush
      /\ MaxPush \in Nat
  BY <1>0, Bounds DEF LogInv
<1>2. /\ log' \in Seq(Items) /\ Len(log') = n
      /\ \A k \in 1..n : log'[k] = log[k]
  BY <1>0, <1>1 DEF Front
<1>3. /\ place' \in Seq(Nat) /\ Len(place') = n
      /\ \A k \in 1..n : place'[k] = place[k]
  BY <1>0, <1>1 DEF Front
<1>4. \A k \in 0..n : Pos(k)' = Pos(k)
  BY <1>0, <1>2, <1>3 DEF Pos
<1>5. \A k \in 1..n : place'[k] = Pos(k - 1)'
  <2> TAKE k \in 1..n
  <2>1. k \in 1..Len(log) /\ k - 1 \in 0..n
    BY <1>0
  <2>2. place[k] = Pos(k - 1)
    BY <2>1 DEF LogInv
  <2> QED
    BY <1>3, <1>4, <2>1, <2>2
<1>6. \A j, k \in 0..n : j <= k => Pos(j)' <= Pos(k)'
  <2> TAKE j, k \in 0..n
  <2>1. j \in 0..Len(log) /\ k \in 0..Len(log)
    BY <1>0
  <2> QED
    BY <1>4, <2>1 DEF LogInv
<1>7. \A k \in 0..n : Pos(k)' <= k * Longest
  <2> TAKE k \in 0..n
  <2>1. k \in 0..Len(log)
    BY <1>0
  <2> QED
    BY <1>4, <2>1 DEF LogInv
<1>8. LogInv'
  BY <1>1, <1>2, <1>3, <1>5, <1>6, <1>7 DEF LogInv
<1> QED
  BY <1>0, <1>2, <1>3, <1>4, <1>8

-----------------------------------------------------------------------------
(* What an action leaves alone.                                            *)

\* Pops do not notice what happens behind the published records.
LEMMA PopKept ==
  ASSUME PopInv, MarkInv, UNCHANGED <<rem, popping>>,
         marker'.fin \in Nat, marker.fin <= marker'.fin,
         \A k \in 1..marker.fin : log'[k] = log[k] /\ place'[k] = place[k]
  PROVE  PopInv'
<1>1. UNCHANGED <<rem, popper, mine, held, guard, taken>>
  BY DEF popping
<1>2. marker.fin \in Nat /\ Len(taken) \in Nat /\ Len(taken) <= marker.fin
  BY DEF PopInv, MarkInv, Markers
<1>3. \A k \in 0..marker.fin : Pos(k)' = Pos(k)
  BY <1>2 DEF Pos
<1>4. rem.fin \in 0..marker.fin /\ Len(taken) \in 0..marker.fin
  BY <1>2 DEF PopInv
<1>5. Pos(rem.fin)' = Pos(rem.fin) /\ Pos(Len(taken))' = Pos(Len(taken))
  BY <1>1, <1>3, <1>4
<1>6. /\ Len(taken) <= marker'.fin
      /\ \A k \in 1..Len(taken) : taken[k] = log'[k]
      /\ popper \in {"wait", "read"} => Len(taken) < marker'.fin
  BY <1>2 DEF PopInv
<1>7. held => guard.at = place'[Len(taken)] + 4 /\ guard.len = Len(log'[Len(taken)])
  BY <1>2 DEF PopInv
<1> QED
  BY <1>1, <1>5, <1>6, <1>7 DEF PopInv, Markers

\* A record that nothing writes to stays as it is.
LEMMA StoredKept ==
  ASSUME NEW k, mem' = mem, log'[k] = log[k], place'[k] = place[k], Stored(k)
  PROVE  Stored(k)'
BY DEF Stored

LEMMA MarkKept ==
  ASSUME LogInv, MarkInv, UNCHANGED <<log, place, marker>>
  PROVE  LogInv' /\ MarkInv' /\ (\A k : Pos(k)' = Pos(k))
<1>1. \A k : Pos(k)' = Pos(k)
  BY DEF Pos
<1>2. LogInv'
  BY <1>1 DEF LogInv
<1>3. MarkInv'
  BY <1>1 DEF MarkInv, Markers
<1> QED
  BY <1>1, <1>2, <1>3

\* The numbers of a state, in the form the steps need them.
LEMMA Numbers ==
  ASSUME LogInv, MarkInv
  PROVE  /\ Len(log) \in Nat /\ Len(log) <= MaxPush
         /\ marker.fin \in Nat /\ marker.fin <= Len(log)
         /\ marker.len = Len(log) /\ marker.len \in Nat
         /\ marker.head = Pos(Len(log)) /\ marker.head \in Nat
         /\ marker \in Markers
BY PosFacts DEF LogInv, MarkInv, Markers

-----------------------------------------------------------------------------
(* The steps of a push.                                                    *)

LEMMA ReserveInv ==
  ASSUME Core, NEW p \in Pushers, NEW i \in Items, Reserve(p, i)
  PROVE  Core' /\ marker'.fin = marker.fin
<1> USE DEF Core
<1>0. PICK n \in Nat : n = Len(log)
  BY Numbers
<1>1. /\ pc[p] = "idle" /\ n < MaxPush
      /\ own' = [own EXCEPT ![p] = marker] /\ data' = [data EXCEPT ![p] = i]
      /\ pc' = [pc EXCEPT ![p] = "check"]
      /\ marker' = Add(marker, Size(i), 1, 0)
      /\ UNCHANGED <<rem, mem, popping>>
  BY <1>0 DEF Reserve
<1>2. /\ LogInv' /\ Len(log') = n + 1
      /\ \A k \in 0..n : Pos(k)' = Pos(k)
      /\ \A k \in 1..n : log'[k] = log[k] /\ place'[k] = place[k]
      /\ log'[n + 1] = i /\ place'[n + 1] = marker.head
      /\ Pos(n + 1)' = marker.head + Size(i)
      /\ marker.head + Size(i) < HeadMod
  <2>1. Len(log) < MaxPush /\ log' = Append(log, i) /\ place' = Append(place, marker.head)
    BY DEF Reserve
  <2>2. n + 1 = Len(log) + 1
    BY <1>0
  <2> QED
    BY <1>0, <2>1, <2>2, GrowLog
<1>3. /\ marker.fin \in Nat /\ marker.fin <= n /\ marker.len = n
      /\ marker.head \in Nat /\ marker \in Markers /\ Size(i) \in Nat
  BY <1>0, Numbers, ItemFacts
<1>4. marker' = [head |-> marker.head + Size(i), len |-> n + 1, fin |-> marker.fin]
  <2>1. /\ marker.head + Size(i) \in 0..(HeadMod - 1)
        /\ marker.len + 1 \in 0..(LenMod - 1)
        /\ marker.fin + 0 \in 0..(LenMod - 1)
    BY <1>1, <1>2, <1>3, Bounds
  <2>2. Add(marker, Size(i), 1, 0)
        = [head |-> marker.head + Size(i), len |-> marker.len + 1, fin |-> marker.fin + 0]
    BY <1>3, <2>1, AddPlain
  <2> QED
    BY <1>1, <1>3, <2>2
<1>5. MarkInv'
  BY <1>1, <1>2, <1>3, <1>4, Bounds DEF MarkInv, Markers
<1>6. TicketInv'
  <2>1. \A q \in Pushers : q # p => pc'[q] = pc[q] /\ own'[q] = own[q] /\ data'[q] = data[q]
    BY <1>1 DEF TicketInv
  <2>2. pc'[p] = "check" /\ own'[p] = marker /\ data'[p] = i
    BY <1>1 DEF TicketInv
  <2>3. \A q \in Pushers : q # p /\ Busy(q) =>
          own[q].len \in marker.fin..(n - 1) /\ own[q].len + 1 \in 1..n
    BY <1>0, <1>3 DEF TicketInv
  <2>4. \A q \in Pushers : Busy(q)' =>
          /\ own'[q].len \in marker'.fin..(Len(log') - 1)
          /\ log'[own'[q].len + 1] = data'[q]
          /\ place'[own'[q].len + 1] = own'[q].head
          /\ pc'[q] = "publish" => own'[q].len = marker'.fin
    <3> TAKE q \in Pushers
    <3> HAVE Busy(q)'
    <3>1. CASE q = p
      BY <1>2, <1>3, <1>4, <2>2, <3>1
    <3>2. CASE q # p
      <4>1. Busy(q)
        BY <2>1, <3>2 DEF Busy
      <4> QED
        BY <1>2, <1>3, <1>4, <2>1, <2>3, <3>2, <4>1 DEF TicketInv
    <3> QED
      BY <3>1, <3>2
  <2>5. \A q, r \in Pushers : Busy(q)' /\ Busy(r)' /\ q # r => own'[q].len # own'[r].len
    BY <1>3, <2>1, <2>2, <2>3 DEF TicketInv, Busy
  <2>6. /\ pc' \in [Pushers -> {"idle", "check", "full", "write", "wait", "publish"}]
        /\ own' \in [Pushers -> Markers]
        /\ data' \in [Pushers -> Items \cup {<<>>}]
    BY <1>1, <1>3 DEF TicketInv
  <2> QED
    BY <2>4, <2>5, <2>6 DEF TicketInv
<1>7. StoreInv'
  <2>1. \A k \in 1..marker.fin : Stored(k)' /\ Pos(k)' <= Cap
    BY <1>1, <1>2, <1>3, StoredKept DEF StoreInv
  <2>2. ASSUME NEW q \in Pushers, NEW k \in 1..(n + 1),
               pc'[q] \in {"wait", "publish"}, k = own'[q].len + 1
        PROVE  Stored(k)' /\ Pos(k)' <= Cap
    <3>1. q # p /\ pc[q] = pc'[q] /\ own'[q] = own[q]
      BY <1>1, <2>2 DEF TicketInv
    <3>2. k \in 1..n
      BY <1>0, <1>3, <2>2, <3>1 DEF TicketInv, Busy
    <3>3. Stored(k) /\ Pos(k) <= Cap
      BY <1>0, <2>2, <3>1, <3>2 DEF StoreInv
    <3> QED
      BY <1>1, <1>2, <3>2, <3>3, StoredKept
  <2> QED
    BY <1>1, <1>2, <1>4, <2>1, <2>2 DEF StoreInv
<1>8. PopInv'
  BY <1>1, <1>2, <1>3, <1>4, PopKept
<1> QED
  BY <1>2, <1>4, <1>5, <1>6, <1>7, <1>8

\* A push goes on to its next stage.
LEMMA MoveOn ==
  ASSUME LogInv, MarkInv, TicketInv, NEW p \in Pushers,
         NEW s \in {"full", "write", "wait", "publish"},
         pc[p] # "idle", pc' = [pc EXCEPT ![p] = s],
         s = "publish" => own[p].len = marker.fin,
         UNCHANGED <<marker, own, data, log, place>>
  PROVE  LogInv' /\ MarkInv' /\ TicketInv' /\ \A k : Pos(k)' = Pos(k)
<1>1. LogInv' /\ MarkInv' /\ \A k : Pos(k)' = Pos(k)
  BY MarkKept
<1>2. /\ pc' \in [Pushers -> {"idle", "check", "full", "write", "wait", "publish"}]
      /\ pc'[p] = s /\ \A q \in Pushers : q # p => pc'[q] = pc[q]
  BY DEF TicketInv
<1>3. \A q \in Pushers : Busy(q)' => Busy(q)
  BY <1>2 DEF Busy
<1>4. ASSUME NEW q \in Pushers, Busy(q)'
      PROVE  /\ own'[q].len \in marker'.fin..(Len(log') - 1)
             /\ log'[own'[q].len + 1] = data'[q]
             /\ place'[own'[q].len + 1] = own'[q].head
             /\ pc'[q] = "publish" => own'[q].len = marker'.fin
  <2>1. Busy(q)
    BY <1>3, <1>4
  <2> QED
    BY <1>2, <2>1 DEF TicketInv
<1>5. \A q, r \in Pushers : Busy(q)' /\ Busy(r)' /\ q # r => own'[q].len # own'[r].len
  BY <1>3 DEF TicketInv
<1> QED
  BY <1>1, <1>2, <1>4, <1>5 DEF TicketInv

LEMMA CheckInv ==
  ASSUME Core, NEW p \in Pushers, Check(p)
  PROVE  Core'
<1>1. PICK s \in {"full", "write"} : pc' = [pc EXCEPT ![p] = s]
  BY DEF Check
<1>2. /\ pc[p] = "check"
      /\ UNCHANGED <<marker, rem, mem, own, data, popping, log, place>>
  BY DEF Check
<1>3. LogInv' /\ MarkInv' /\ TicketInv' /\ \A k : Pos(k)' = Pos(k)
  BY <1>1, <1>2, MoveOn DEF Core
<1>4. StoreInv'
  <2>1. \A q \in Pushers : pc'[q] \in {"wait", "publish"} => pc[q] = pc'[q]
    BY <1>1, <1>2 DEF Core, TicketInv
  <2>2. \A k : Stored(k)' = Stored(k)
    BY <1>2 DEF Stored
  <2> QED
    BY <1>2, <1>3, <2>1, <2>2 DEF Core, StoreInv
<1>5. PopInv'
  BY <1>2, Numbers, PopKept DEF Core
<1> QED
  BY <1>3, <1>4, <1>5 DEF Core

LEMMA SeeTurnInv ==
  ASSUME Core, NEW p \in Pushers, SeeTurn(p)
  PROVE  Core'
<1>1. /\ pc[p] = "wait" /\ marker.fin = own[p].len
      /\ pc' = [pc EXCEPT ![p] = "publish"]
      /\ UNCHANGED <<marker, rem, mem, own, data, popping, log, place>>
  BY DEF SeeTurn
<1>2. LogInv' /\ MarkInv' /\ TicketInv' /\ \A k : Pos(k)' = Pos(k)
  BY <1>1, MoveOn DEF Core
<1>3. StoreInv'
  <2>1. \A q \in Pushers : pc'[q] \in {"wait", "publish"} => pc[q] \in {"wait", "publish"}
    BY <1>1 DEF Core, TicketInv
  <2>2. \A k : Stored(k)' = Stored(k)
    BY <1>1 DEF Stored
  <2> QED
    BY <1>1, <1>2, <2>1, <2>2 DEF Core, StoreInv
<1>4. PopInv'
  BY <1>1, Numbers, PopKept DEF Core
<1> QED
  BY <1>2, <1>3, <1>4 DEF Core

\* The record of a push and its place, for a push under way.
LEMMA OwnRecord ==
  ASSUME LogInv, MarkInv, TicketInv, NEW p \in Pushers, Busy(p)
  PROVE  /\ own[p].len + 1 \in 1..Len(log) /\ own[p].len \in Nat
         /\ own[p].len >= marker.fin
         /\ log[own[p].len + 1] = data[p] /\ data[p] \in Items
         /\ place[own[p].len + 1] = own[p].head
         /\ own[p].head = Pos(own[p].len) /\ own[p].head \in Nat
         /\ Pos(own[p].len + 1) = own[p].head + Size(data[p])
<1>1. /\ own[p].len \in marker.fin..(Len(log) - 1)
      /\ log[own[p].len + 1] = data[p]
      /\ place[own[p].len + 1] = own[p].head
  BY DEF TicketInv
<1>2. PICK k \in 1..Len(log) : k = own[p].len + 1
  BY <1>1, Numbers
<1>3. /\ log[k] \in Items /\ place[k] \in Nat /\ Pos(k) = place[k] + Size(log[k])
      /\ place[k] = Pos(k - 1)
  BY PosFacts DEF LogInv
<1>4. own[p].len \in Nat /\ k - 1 = own[p].len /\ own[p].len >= marker.fin
  BY <1>1, <1>2, Numbers
<1> QED
  BY <1>1, <1>2, <1>3, <1>4

LEMMA GiveBackInv ==
  ASSUME Core, NEW p \in Pushers, GiveBack(p), Sound'
  PROVE  Core' /\ marker'.fin = marker.fin
<1> USE DEF Core
<1>1. /\ pc[p] = "full" /\ Busy(p) /\ marker.len = own[p].len + 1
      /\ pc' = [pc EXCEPT ![p] = "idle"] /\ own' = [own EXCEPT ![p] = Zero]
      /\ data' = [data EXCEPT ![p] = <<>>]
      /\ marker' = Add(marker, -Size(data[p]), -1, 0)
      /\ log' = Front(log) /\ place' = Front(place)
      /\ UNCHANGED <<rem, mem, popping>>
  BY DEF GiveBack, Return, Sound, Busy
<1>2. PICK n \in Nat : n + 1 = Len(log) /\ n = own[p].len
  BY <1>1, OwnRecord, Numbers
<1>3. /\ LogInv' /\ Len(log') = n
      /\ \A k \in 0..n : Pos(k)' = Pos(k)
      /\ \A k \in 1..n : log'[k] = log[k] /\ place'[k] = place[k]
  <2>1. Len(log) >= 1 /\ Len(log) - 1 = n
    BY <1>2
  <2> QED
    BY <1>1, <2>1, ShrinkLog
<1>4. /\ marker.fin \in Nat /\ marker.fin <= n /\ marker.len = n + 1
      /\ marker.head = Pos(n + 1) /\ marker \in Markers
  BY <1>1, <1>2, OwnRecord, Numbers
<1>5. /\ data[p] \in Items /\ Size(data[p]) \in Nat
      /\ Pos(n + 1) = Pos(n) + Size(data[p]) /\ Pos(n) \in Nat /\ Pos(n + 1) < HeadMod
  <2>1. data[p] \in Items /\ Pos(n + 1) = Pos(n) + Size(data[p])
    BY <1>1, <1>2, OwnRecord
  <2>2. n \in 0..Len(log) /\ n + 1 \in 0..Len(log)
    BY <1>2
  <2> QED
    BY <2>1, <2>2, ItemFacts, PosFacts
<1>6. marker' = [head |-> Pos(n), len |-> n, fin |-> marker.fin]
  <2>1. /\ marker.head + -Size(data[p]) = Pos(n)
        /\ marker.len + -1 = n
        /\ marker.fin + 0 = marker.fin
    BY <1>4, <1>5
  <2>2. Pos(n) \in 0..(HeadMod - 1) /\ n \in 0..(LenMod - 1) /\ marker.fin \in 0..(LenMod - 1)
    BY <1>2, <1>4, <1>5, Numbers, Bounds, SMTT(20)
  <2>3. -Size(data[p]) \in Int /\ -1 \in Int /\ 0 \in Int
    BY <1>5
  <2> HIDE DEF Core
  <2> QED
    BY <1>1, <1>4, <2>1, <2>2, <2>3, AddPlain
<1>7. MarkInv'
  <2>1. Pos(n)' = Pos(n)
    BY <1>3
  <2> QED
    BY <1>2, <1>3, <1>4, <1>5, <1>6, <2>1, Bounds, Numbers, SMTT(20) DEF MarkInv, Markers
<1>8. \A q \in Pushers : Busy(q)' => /\ q # p /\ Busy(q) /\ pc'[q] = pc[q]
                                     /\ own'[q] = own[q] /\ data'[q] = data[q]
                                     /\ own[q].len \in marker.fin..(n - 1)
                                     /\ own[q].len + 1 \in 1..n
  <2> TAKE q \in Pushers
  <2> HAVE Busy(q)'
  <2>1. q # p /\ Busy(q) /\ pc'[q] = pc[q] /\ own'[q] = own[q] /\ data'[q] = data[q]
    BY <1>1 DEF TicketInv, Busy
  <2>2. own[q].len # n
    BY <1>1, <1>2, <2>1 DEF TicketInv
  <2>3. own[q].len \in Nat /\ own[q].len >= marker.fin /\ own[q].len + 1 \in 1..(n + 1)
    BY <1>2, <2>1, OwnRecord
  <2> QED
    BY <1>2, <1>4, <2>1, <2>2, <2>3
<1>9. TicketInv'
  <2>1. Zero \in Markers
    BY Bounds DEF Zero, Markers
  <2>2. /\ pc' \in [Pushers -> {"idle", "check", "full", "write", "wait", "publish"}]
        /\ own' \in [Pushers -> Markers]
        /\ data' \in [Pushers -> Items \cup {<<>>}]
    BY <1>1, <2>1 DEF TicketInv
  <2>3. ASSUME NEW q \in Pushers, Busy(q)'
        PROVE  /\ own'[q].len \in marker'.fin..(Len(log') - 1)
               /\ log'[own'[q].len + 1] = data'[q]
               /\ place'[own'[q].len + 1] = own'[q].head
               /\ pc'[q] = "publish" => own'[q].len = marker'.fin
    BY <1>3, <1>6, <1>8, <2>3 DEF TicketInv
  <2>4. \A q, r \in Pushers : Busy(q)' /\ Busy(r)' /\ q # r => own'[q].len # own'[r].len
    BY <1>8 DEF TicketInv
  <2> QED
    BY <2>2, <2>3, <2>4 DEF TicketInv
<1>10. StoreInv'
  <2>1. \A k \in 1..marker.fin : Stored(k)' /\ Pos(k)' <= Cap
    BY <1>1, <1>3, <1>4, StoredKept DEF StoreInv
  <2>2. ASSUME NEW q \in Pushers, NEW k \in 1..n,
               pc'[q] \in {"wait", "publish"}, k = own'[q].len + 1
        PROVE  Stored(k)' /\ Pos(k)' <= Cap
    <3>1. pc[q] = pc'[q] /\ own'[q] = own[q]
      BY <1>8, <2>2 DEF Busy
    <3>2. Stored(k) /\ Pos(k) <= Cap
      BY <1>2, <2>2, <3>1 DEF StoreInv
    <3> QED
      BY <1>1, <1>3, <2>2, <3>2, StoredKept
  <2> QED
    BY <1>1, <1>3, <1>6, <2>1, <2>2 DEF StoreInv
<1>11. PopInv'
  BY <1>1, <1>3, <1>4, <1>6, PopKept
<1> QED
  BY <1>3, <1>6, <1>7, <1>9, <1>10, <1>11

LEMMA WriteRecordInv ==
  ASSUME Core, NEW p \in Pushers, WriteRecord(p), Sound'
  PROVE  Core'
<1> USE DEF Core
<1> DEFINE at == own[p].head
           here == at..(at + Size(data[p]) - 1)
<1>1. /\ pc[p] = "write" /\ Busy(p) /\ pc' = [pc EXCEPT ![p] = "wait"]
      /\ UNCHANGED <<marker, rem, own, data, popping, log, place>>
      /\ at + Size(data[p]) <= Cap
      /\ mem' = [a \in DOMAIN mem |->
                   IF a \in here THEN Record(data[p])[a - at + 1] ELSE mem[a]]
  BY DEF WriteRecord, Sound, Busy
<1>2. LogInv' /\ MarkInv' /\ TicketInv' /\ \A k : Pos(k)' = Pos(k)
  BY <1>1, MoveOn
<1>3. PICK j \in 1..Len(log) : j = own[p].len + 1
  BY <1>1, OwnRecord
<1>4. /\ log[j] = data[p] /\ place[j] = at /\ data[p] \in Items /\ at \in Nat
      /\ Pos(j) = at + Size(data[p]) /\ Pos(j - 1) = at /\ j \in Nat /\ j > marker.fin
      /\ Len(log) \in Nat /\ marker.fin \in Nat /\ marker.fin <= Len(log)
  <2>1. own[p].len \in Nat /\ own[p].len >= marker.fin
    BY <1>1, OwnRecord
  <2>2. Len(log) \in Nat /\ marker.fin \in Nat /\ marker.fin <= Len(log)
    BY Numbers
  <2>3. j - 1 = own[p].len /\ j \in Nat /\ j > marker.fin
    BY <1>3, <2>1, <2>2
  <2>4. /\ log[j] = data[p] /\ place[j] = at /\ data[p] \in Items /\ at \in Nat
        /\ Pos(j) = at + Size(data[p]) /\ Pos(j - 1) = at
    BY <1>1, <1>3, <2>3, OwnRecord
  <2> QED
    BY <2>2, <2>3, <2>4
<1>5. /\ Record(data[p]) \in Seq(Byte) /\ Len(Record(data[p])) = Size(data[p])
      /\ Size(data[p]) \in Nat
  BY <1>4, ItemFacts
<1>6. DOMAIN mem = 0..(Cap - 1) /\ Cap \in Nat
  BY Bounds DEF StoreInv
<1> HIDE DEF at
<1>7. mem' \in [0..(Cap - 1) -> Byte]
  <2>1. ASSUME NEW a \in here PROVE Record(data[p])[a - at + 1] \in Byte
    <3>1. a - at + 1 \in 1..Len(Record(data[p]))
      BY <1>4, <1>5
    <3> QED
      BY <1>5, <3>1
  <2>2. mem \in [0..(Cap - 1) -> Byte]
    BY DEF StoreInv
  <2> HIDE DEF here
  <2> QED
    BY <1>1, <2>1, <2>2
<1>8. Stored(j)'
  <2> SUFFICES ASSUME NEW k \in 1..Size(log[j])
               PROVE  mem'[place[j] + k - 1] = Record(log[j])[k]
    BY <1>1 DEF Stored
  <2>1. /\ k \in Nat /\ k >= 1 /\ k <= Size(data[p])
    BY <1>4, <1>5
  <2>2. at + k - 1 \in here /\ at + k - 1 \in 0..(Cap - 1) /\ (at + k - 1) - at + 1 = k
    BY <1>1, <1>4, <1>5, <1>6, <2>1, SMTT(20)
  <2> HIDE DEF here
  <2>3. mem'[at + k - 1] = Record(data[p])[(at + k - 1) - at + 1]
    BY <1>1, <1>6, <2>2
  <2> QED
    BY <1>4, <2>2, <2>3
<1>9. ASSUME NEW l \in 1..Len(log), l # j, Stored(l), Pos(l) <= Cap PROVE Stored(l)'
  <2>1. /\ log[l] \in Items /\ place[l] \in Nat /\ Pos(l) = place[l] + Size(log[l])
        /\ place[l] = Pos(l - 1)
    BY PosFacts DEF LogInv
  <2>2. Size(log[l]) \in Nat
    BY <2>1, ItemFacts
  <2>3. Pos(l) <= at \/ at + Size(data[p]) <= place[l]
    <3>1. l <= j - 1 \/ j <= l - 1
      BY <1>3, <1>4, <1>9
    <3>2. l \in 0..Len(log) /\ j \in 0..Len(log) /\ l - 1 \in 0..Len(log) /\ j - 1 \in 0..Len(log)
      BY <1>3, <1>4, <1>9
    <3> QED
      BY <1>4, <2>1, <3>1, <3>2 DEF LogInv
  <2> SUFFICES ASSUME NEW k \in 1..Size(log[l])
               PROVE  mem'[place[l] + k - 1] = Record(log[l])[k]
    BY <1>1 DEF Stored
  <2>4. place[l] + k - 1 \in 0..(Cap - 1) /\ place[l] + k - 1 \notin here
    <3>1. k \in Nat /\ k >= 1 /\ k <= Size(log[l])
      BY <2>2
    <3>2. /\ place[l] \in Nat /\ Pos(l) \in Nat /\ Pos(l) = place[l] + Size(log[l])
          /\ Pos(l) <= Cap
      BY <1>9, <2>1, <2>2
    <3>3. place[l] + k - 1 \in 0..(Cap - 1)
      BY <1>6, <2>2, <3>1, <3>2
    <3>4. place[l] + k - 1 < at \/ place[l] + k - 1 > at + Size(data[p]) - 1
      <4>1. PICK b \in Nat : b = at + Size(data[p])
        BY <1>4, <1>5
      <4>2. CASE Pos(l) <= at
        BY <1>4, <2>2, <3>1, <3>2, <4>2
      <4>3. CASE b <= place[l]
        BY <1>4, <1>5, <3>1, <3>2, <4>1, <4>3
      <4> QED
        BY <2>3, <4>1, <4>2, <4>3
    <3> QED
      BY <1>4, <1>5, <3>3, <3>4
  <2>5. mem[place[l] + k - 1] = Record(log[l])[k]
    BY <1>9 DEF Stored
  <2> HIDE DEF here
  <2> QED
    BY <1>1, <1>6, <2>4, <2>5
<1>10. StoreInv'
  <2>1. \A k \in 1..marker.fin : Stored(k)' /\ Pos(k)' <= Cap
    <3> TAKE k \in 1..marker.fin
    <3>1. k \in 1..Len(log) /\ k # j
      BY <1>4
    <3> QED
      BY <1>2, <1>9, <3>1 DEF StoreInv
  <2>2. ASSUME NEW q \in Pushers, NEW k \in 1..Len(log),
               pc'[q] \in {"wait", "publish"}, k = own[q].len + 1
        PROVE  Stored(k)' /\ Pos(k)' <= Cap
    <3>1. CASE q = p
      BY <1>1, <1>2, <1>3, <1>4, <1>8, <2>2, <3>1
    <3>2. CASE q # p
      <4>1. pc[q] = pc'[q] /\ Busy(q)
        BY <1>1, <2>2, <3>2 DEF TicketInv, Busy
      <4>2. own[q].len # own[p].len
        BY <1>1, <3>2, <4>1 DEF TicketInv
      <4>3. own[q].len \in Nat /\ own[p].len \in Nat
        BY <1>1, <4>1, OwnRecord
      <4>4. k # j
        BY <1>3, <2>2, <4>2, <4>3
      <4>5. Stored(k) /\ Pos(k) <= Cap
        BY <2>2, <4>1 DEF StoreInv
      <4> QED
        BY <1>2, <1>9, <4>4, <4>5
    <3> QED
      BY <3>1, <3>2
  <2> QED
    BY <1>1, <1>7, <2>1, <2>2 DEF StoreInv
<1>11. PopInv'
  BY <1>1, Numbers, PopKept
<1> QED
  BY <1>2, <1>10, <1>11

LEMMA PublishInv ==
  ASSUME Core, NEW p \in Pushers, Publish(p)
  PROVE  Core' /\ marker' = [marker EXCEPT !.fin = @ + 1]
<1> USE DEF Core
<1>1. /\ pc[p] = "publish" /\ Busy(p)
      /\ pc' = [pc EXCEPT ![p] = "idle"] /\ own' = [own EXCEPT ![p] = Zero]
      /\ data' = [data EXCEPT ![p] = <<>>]
      /\ marker' = Add(marker, 0, 0, 1)
      /\ UNCHANGED <<rem, mem, popping, log, place>>
  BY DEF Publish, Return, Busy
<1>2. /\ own[p].len = marker.fin /\ marker.fin \in Nat /\ marker.fin + 1 <= Len(log)
      /\ Len(log) \in Nat /\ marker.len = Len(log)
      /\ marker.head \in Nat /\ marker.head < HeadMod /\ marker \in Markers
      /\ Len(log) <= MaxPush
  BY <1>1, OwnRecord, Numbers, PosFacts DEF TicketInv
<1>3. marker' = [head |-> marker.head, len |-> marker.len, fin |-> marker.fin + 1]
  <2>1. marker.head + 0 = marker.head /\ marker.len + 0 = marker.len
    BY <1>2
  <2>2. /\ marker.head \in 0..(HeadMod - 1) /\ marker.len \in 0..(LenMod - 1)
        /\ marker.fin + 1 \in 0..(LenMod - 1)
    BY <1>2, Bounds
  <2> HIDE DEF Core
  <2> QED
    BY <1>1, <1>2, <2>1, <2>2, AddPlain
<1>4. \A k : Pos(k)' = Pos(k) /\ Stored(k)' = Stored(k)
  BY <1>1 DEF Pos, Stored
<1>5. LogInv'
  BY <1>1, <1>4 DEF LogInv
<1>6. MarkInv'
  BY <1>1, <1>2, <1>3, <1>4, Bounds DEF MarkInv, Markers
<1>7. \A q \in Pushers : Busy(q)' => /\ q # p /\ Busy(q) /\ pc'[q] = pc[q]
                                     /\ own'[q] = own[q] /\ data'[q] = data[q]
                                     /\ own[q].len \in (marker.fin + 1)..(Len(log) - 1)
                                     /\ pc[q] # "publish"
  <2> TAKE q \in Pushers
  <2> HAVE Busy(q)'
  <2>1. q # p /\ Busy(q) /\ pc'[q] = pc[q] /\ own'[q] = own[q] /\ data'[q] = data[q]
    BY <1>1 DEF TicketInv, Busy
  <2>2. own[q].len # marker.fin
    BY <1>1, <1>2, <2>1 DEF TicketInv
  <2>3. own[q].len \in marker.fin..(Len(log) - 1)
        /\ (pc[q] = "publish" => own[q].len = marker.fin)
    BY <2>1 DEF TicketInv
  <2> QED
    BY <1>2, <2>1, <2>2, <2>3
<1>8. TicketInv'
  <2>1. Zero \in Markers
    BY Bounds DEF Zero, Markers
  <2>2. /\ pc' \in [Pushers -> {"idle", "check", "full", "write", "wait", "publish"}]
        /\ own' \in [Pushers -> Markers]
        /\ data' \in [Pushers -> Items \cup {<<>>}]
    BY <1>1, <2>1 DEF TicketInv
  <2>3. ASSUME NEW q \in Pushers, Busy(q)'
        PROVE  /\ own'[q].len \in marker'.fin..(Len(log') - 1)
               /\ log'[own'[q].len + 1] = data'[q]
               /\ place'[own'[q].len + 1] = own'[q].head
               /\ pc'[q] = "publish" => own'[q].len = marker'.fin
    BY <1>1, <1>3, <1>7, <2>3 DEF TicketInv
  <2>4. \A q, r \in Pushers : Busy(q)' /\ Busy(r)' /\ q # r => own'[q].len # own'[r].len
    BY <1>7 DEF TicketInv
  <2> QED
    BY <2>2, <2>3, <2>4 DEF TicketInv
<1>9. StoreInv'
  <2>1. ASSUME NEW k \in 1..(marker.fin + 1) PROVE Stored(k) /\ Pos(k) <= Cap
    <3>1. CASE k = marker.fin + 1
      <4>1. k \in 1..Len(log) /\ k = own[p].len + 1
        BY <1>2, <3>1
      <4> QED
        BY <1>1, <4>1 DEF StoreInv
    <3>2. CASE k # marker.fin + 1
      BY <1>2, <3>2 DEF StoreInv
    <3> QED
      BY <3>1, <3>2
  <2>2. ASSUME NEW q \in Pushers, NEW k \in 1..Len(log),
               pc'[q] \in {"wait", "publish"}, k = own'[q].len + 1
        PROVE  Stored(k) /\ Pos(k) <= Cap
    <3>1. pc[q] = pc'[q] /\ own'[q] = own[q]
      BY <1>7, <2>2 DEF Busy
    <3> QED
      BY <2>2, <3>1 DEF StoreInv
  <2> QED
    BY <1>1, <1>3, <1>4, <2>1, <2>2 DEF StoreInv
<1>10. PopInv'
  BY <1>1, <1>2, <1>3, PopKept
<1>11. marker' = [marker EXCEPT !.fin = @ + 1]
  BY <1>2, <1>3 DEF Markers
<1> QED
  BY <1>5, <1>6, <1>8, <1>9, <1>10, <1>11

-----------------------------------------------------------------------------
(* The steps of a pop.                                                     *)

LEMMA PushKept ==
  ASSUME LogInv, MarkInv, TicketInv, StoreInv,
         UNCHANGED <<marker, mem, log, place, pushing>>
  PROVE  LogInv' /\ MarkInv' /\ TicketInv' /\ StoreInv' /\ \A k : Pos(k)' = Pos(k)
<1>1. LogInv' /\ MarkInv' /\ \A k : Pos(k)' = Pos(k)
  BY MarkKept
<1>2. UNCHANGED <<pc, own, data>>
  BY DEF pushing
<1>3. TicketInv'
  BY <1>2 DEF TicketInv, Busy
<1>4. \A k : Stored(k)' = Stored(k)
  BY DEF Stored
<1>5. StoreInv'
  BY <1>1, <1>2, <1>4 DEF StoreInv
<1> QED
  BY <1>1, <1>3, <1>5

\* What the removals know.
LEMMA PopNumbers ==
  ASSUME LogInv, MarkInv, PopInv
  PROVE  /\ Len(taken) \in Nat /\ Len(taken) <= marker.fin /\ Len(taken) <= Len(log)
         /\ marker.fin \in Nat /\ marker.fin < LenMod - 1 /\ LenMod \in Nat
         /\ rem.fin \in Nat /\ rem.len \in Nat /\ rem.head \in 0..(HeadMod - 1)
         /\ rem.fin <= Len(taken) /\ rem \in Markers
<1>1. Len(taken) \in Nat /\ Len(taken) <= marker.fin /\ rem \in Markers
  BY DEF PopInv
<1>2. marker.fin \in Nat /\ marker.fin <= Len(log) /\ Len(log) \in Nat /\ Len(log) <= MaxPush
  BY Numbers
<1>3. rem.fin \in Nat /\ rem.len \in Nat /\ rem.head \in 0..(HeadMod - 1)
  BY <1>1, Bounds DEF Markers
<1>4. rem.fin <= Len(taken)
  BY <1>1 DEF PopInv
<1> QED
  BY <1>1, <1>2, <1>3, <1>4, Bounds

LEMMA PopReserveInv ==
  ASSUME Core, PopReserve
  PROVE  Core'
<1> USE DEF Core
<1>1. /\ popper = "idle" /\ popper' = "check" /\ mine' = rem
      /\ rem' = Add(rem, 0, 1, 0)
      /\ UNCHANGED <<marker, mem, pushing, held, guard, log, place, taken>>
  BY DEF PopReserve
<1>2. LogInv' /\ MarkInv' /\ TicketInv' /\ StoreInv' /\ \A k : Pos(k)' = Pos(k)
  BY <1>1, PushKept
<1>3. rem' = [head |-> rem.head, len |-> rem.len + 1, fin |-> rem.fin]
  <2>1. rem.len = Len(taken)
    BY <1>1 DEF PopInv
  <2>2. rem.head + 0 = rem.head /\ rem.fin + 0 = rem.fin
    BY PopNumbers
  <2>3. /\ rem.head \in 0..(HeadMod - 1) /\ rem.len + 1 \in 0..(LenMod - 1)
        /\ rem.fin \in 0..(LenMod - 1) /\ rem \in Markers
    BY <2>1, PopNumbers
  <2> HIDE DEF Core
  <2> QED
    BY <1>1, <2>2, <2>3, AddPlain
<1>4. rem' \in Markers
  BY <1>1, <1>3, PopNumbers DEF PopInv, Markers
<1> QED
  BY <1>1, <1>2, <1>3, <1>4, PopNumbers DEF PopInv

LEMMA PopCheckInv ==
  ASSUME Core, PopCheck
  PROVE  Core'
<1> USE DEF Core
<1>1. /\ popper = "check"
      /\ popper' = IF mine.len >= marker.fin THEN "none"
                   ELSE IF mine.fin # mine.len THEN "wait" ELSE "read"
      /\ UNCHANGED <<marker, rem, mem, pushing, mine, held, guard, log, place, taken>>
  BY DEF PopCheck
<1>2. LogInv' /\ MarkInv' /\ TicketInv' /\ StoreInv' /\ \A k : Pos(k)' = Pos(k)
  BY <1>1, PushKept
<1>3. popper' = "read" => ~held
  BY <1>1, PopNumbers DEF PopInv
<1> QED
  BY <1>1, <1>2, <1>3, PopNumbers DEF PopInv

LEMMA PopNoneInv ==
  ASSUME Core, PopNone
  PROVE  Core'
<1> USE DEF Core
<1>1. /\ popper = "none" /\ popper' = "idle" /\ mine' = Zero
      /\ rem' = Add(rem, 0, -1, 0)
      /\ UNCHANGED <<marker, mem, pushing, held, guard, log, place, taken>>
  BY DEF PopNone
<1>2. LogInv' /\ MarkInv' /\ TicketInv' /\ StoreInv' /\ \A k : Pos(k)' = Pos(k)
  BY <1>1, PushKept
<1>3. rem' = [head |-> rem.head, len |-> Len(taken), fin |-> rem.fin]
  <2>1. rem.len + -1 = Len(taken)
    BY <1>1, PopNumbers DEF PopInv
  <2>2. rem.head + 0 = rem.head /\ rem.fin + 0 = rem.fin
    BY PopNumbers
  <2>3. /\ rem.head \in 0..(HeadMod - 1) /\ Len(taken) \in 0..(LenMod - 1)
        /\ rem.fin \in 0..(LenMod - 1) /\ rem \in Markers /\ -1 \in Int /\ 0 \in Int
    BY PopNumbers
  <2> HIDE DEF Core
  <2> QED
    BY <1>1, <2>1, <2>2, <2>3, AddPlain
<1>4. rem' \in Markers /\ Zero \in Markers
  BY <1>3, PopNumbers, Bounds DEF Zero, Markers
<1> QED
  BY <1>1, <1>2, <1>3, <1>4, PopNumbers DEF PopInv

LEMMA PopWaitInv ==
  ASSUME Core, PopWait
  PROVE  Core'
<1> USE DEF Core
<1>1. /\ popper = "wait" /\ popper' = "read" /\ mine.len = rem.fin /\ mine' = rem
      /\ UNCHANGED <<marker, rem, mem, pushing, held, guard, log, place, taken>>
  BY DEF PopWait
<1>2. LogInv' /\ MarkInv' /\ TicketInv' /\ StoreInv' /\ \A k : Pos(k)' = Pos(k)
  BY <1>1, PushKept
<1>3. rem.fin = Len(taken) /\ ~held
  BY <1>1, PopNumbers DEF PopInv
<1> QED
  BY <1>1, <1>2, <1>3, PopNumbers DEF PopInv

\* Reading back a stored record.
LEMMA ReadBack ==
  ASSUME LogInv, NEW k \in 1..Len(log), Stored(k)
  PROVE  /\ mem[place[k]] + 256 * mem[place[k] + 1] = Len(log[k])
         /\ \A g \in [at : Nat, len : Nat] :
              g.at = place[k] + 4 /\ g.len = Len(log[k]) => Bytes(g) = log[k]
<1> DEFINE i == log[k]
<1>1. i \in Items /\ place[k] \in Nat
  BY PosFacts
<1> HIDE DEF i
<1>2. /\ i \in Seq(Byte) /\ Len(i) \in Nat /\ Size(i) = Len(i) + 4
      /\ Record(i)[1] + 256 * Record(i)[2] = Len(i)
      /\ \A j \in 1..Len(i) : Record(i)[4 + j] = i[j]
  BY <1>1, ItemFacts
<1>3. \A j \in 1..Size(i) : mem[place[k] + j - 1] = Record(i)[j]
  BY DEF Stored, i
<1>4. mem[place[k]] = Record(i)[1] /\ mem[place[k] + 1] = Record(i)[2]
  <2>1. 1 \in 1..Size(i) /\ 2 \in 1..Size(i)
    BY <1>2
  <2>2. place[k] + 1 - 1 = place[k] /\ place[k] + 2 - 1 = place[k] + 1
    BY <1>1
  <2> QED
    BY <1>3, <2>1, <2>2
<1>5. ASSUME NEW g \in [at : Nat, len : Nat], g.at = place[k] + 4, g.len = Len(i)
      PROVE  Bytes(g) = i
  <2>1. ASSUME NEW j \in 1..Len(i) PROVE mem[g.at + j - 1] = i[j]
    <3>1. 4 + j \in 1..Size(i) /\ place[k] + (4 + j) - 1 = g.at + j - 1
      BY <1>1, <1>2, <1>5
    <3> QED
      BY <1>2, <1>3, <3>1
  <2>2. i = [j \in 1..Len(i) |-> i[j]]
    BY <1>2
  <2>3. Bytes(g) = [j \in 1..Len(i) |-> mem[g.at + j - 1]]
    BY <1>5 DEF Bytes
  <2> QED
    BY <2>1, <2>2, <2>3
<1> QED
  BY <1>2, <1>4, <1>5 DEF i

LEMMA PopReadInv ==
  ASSUME Core, PopRead
  PROVE  Core' /\ Len(taken) < marker.fin /\ taken' = Append(taken, log[Len(taken) + 1])
<1> USE DEF Core
<1>1. /\ popper = "read" /\ popper' = "idle" /\ mine' = Zero /\ held' = TRUE
      /\ guard' = [at |-> (mine.head % Cap) + 4,
                   len |-> mem[mine.head % Cap] + 256 * mem[(mine.head % Cap) + 1]]
      /\ taken' = Append(taken, Bytes(guard'))
      /\ UNCHANGED <<marker, rem, mem, pushing, log, place>>
  BY DEF PopRead, HeaderSize
<1>2. LogInv' /\ MarkInv' /\ TicketInv' /\ StoreInv' /\ \A k : Pos(k)' = Pos(k)
  BY <1>1, PushKept
<1>3. PICK t \in Nat : t = Len(taken)
  BY PopNumbers
<1>4. /\ t < marker.fin /\ marker.fin \in Nat /\ marker.fin <= Len(log) /\ Len(log) \in Nat
      /\ mine.head = Pos(t) /\ ~held /\ rem.fin = t /\ rem.len = t + 1
  BY <1>1, <1>3, Numbers DEF PopInv
<1>5. PICK k \in 1..Len(log) : k = t + 1 /\ k \in 1..marker.fin
  BY <1>4
<1>6. Stored(k) /\ Pos(k) <= Cap
  BY <1>5 DEF StoreInv
<1>7. /\ log[k] \in Items /\ place[k] \in Nat /\ Pos(k) = place[k] + Size(log[k])
      /\ mine.head = place[k]
  <2>1. log[k] \in Items /\ place[k] \in Nat /\ Pos(k) = place[k] + Size(log[k])
    BY PosFacts
  <2>2. place[k] = Pos(k - 1) /\ k - 1 = t
    BY <1>5 DEF LogInv
  <2> QED
    BY <1>4, <2>1, <2>2
<1>8. Size(log[k]) = Len(log[k]) + 4 /\ Len(log[k]) \in Nat
  BY <1>7, ItemFacts
<1>9. mine.head % Cap = place[k]
  <2>1. place[k] \in 0..(Cap - 1) /\ Cap \in Nat \ {0}
    BY <1>6, <1>7, <1>8, Bounds
  <2> QED
    BY <1>7, <2>1, Small
<1>10. guard' = [at |-> place[k] + 4, len |-> Len(log[k])]
  BY <1>1, <1>6, <1>9, ReadBack
<1>11. Bytes(guard') = log[k]
  BY <1>6, <1>7, <1>8, <1>10, ReadBack, SMTT(20)
<1>12. taken' = Append(taken, log[k])
  BY <1>1, <1>11
<1>13. /\ taken' \in Seq(Items) /\ Len(taken') = t + 1
       /\ taken'[t + 1] = log[k] /\ \A j \in 1..t : taken'[j] = taken[j]
  BY <1>3, <1>7, <1>12 DEF PopInv
<1>14. PopInv'
  <2>1. \A j \in 1..Len(taken') : taken'[j] = log'[j]
    BY <1>1, <1>3, <1>5, <1>13 DEF PopInv
  <2>2. /\ guard' \in [at : Nat, len : Nat] /\ guard'.at = place'[Len(taken')] + 4
        /\ guard'.len = Len(log'[Len(taken')])
    BY <1>1, <1>5, <1>7, <1>8, <1>10, <1>13
  <2>3. Zero \in Markers
    BY Bounds DEF Zero, Markers
  <2>4. Len(taken') <= marker'.fin /\ Len(taken') >= 1
    BY <1>1, <1>4, <1>13
  <2>5. rem'.fin = Len(taken') - 1 /\ rem'.len = Len(taken')
    BY <1>1, <1>4, <1>13
  <2>6. rem' = rem /\ rem.head = Pos(rem.fin)'
    BY <1>1, <1>2 DEF PopInv
  <2> QED
    <3>1. rem' \in Markers /\ mine' \in Markers /\ held' \in BOOLEAN
      BY <1>1, <2>3, <2>6, PopNumbers
    <3>2. rem'.fin = (IF held' THEN Len(taken') - 1 ELSE Len(taken'))
      BY <1>1, <2>5
    <3>3. rem'.len = (IF popper' = "idle" THEN Len(taken') ELSE Len(taken') + 1)
      BY <1>1, <2>5
    <3> QED
      BY <1>1, <1>13, <2>1, <2>2, <2>4, <2>6, <3>1, <3>2, <3>3 DEF PopInv
<1> QED
  BY <1>2, <1>3, <1>4, <1>5, <1>12, <1>14

LEMMA DropGuardInv ==
  ASSUME Core, DropGuard
  PROVE  Core'
<1> USE DEF Core
<1>1. /\ held /\ held' = FALSE /\ guard' = [at |-> 0, len |-> 0]
      /\ rem' = Add(rem, guard.len + 4, 0, 1)
      /\ UNCHANGED <<marker, mem, pushing, popper, mine, log, place, taken>>
  BY DEF DropGuard, HeaderSize
<1>2. LogInv' /\ MarkInv' /\ TicketInv' /\ StoreInv' /\ \A k : Pos(k)' = Pos(k)
  BY <1>1, PushKept
<1>3. PICK t \in 1..Len(log) : t = Len(taken)
  BY <1>1, PopNumbers, Numbers DEF PopInv
<1>4. /\ guard.len = Len(log[t]) /\ rem.fin = t - 1 /\ rem.head = Pos(t - 1)
      /\ popper # "read" /\ t \in Nat
  BY <1>1, <1>3, Numbers DEF PopInv
<1>5. /\ Pos(t) = Pos(t - 1) + (Len(log[t]) + 4) /\ Len(log[t]) \in Nat
      /\ Pos(t) \in Nat /\ Pos(t) < HeadMod /\ Pos(t - 1) \in Nat
  <2>1. /\ log[t] \in Items /\ Pos(t) = place[t] + Size(log[t]) /\ place[t] = Pos(t - 1)
    BY PosFacts DEF LogInv
  <2>2. Size(log[t]) = Len(log[t]) + 4 /\ Len(log[t]) \in Nat
    BY <2>1, ItemFacts
  <2>3. t \in 0..Len(log) /\ t - 1 \in 0..Len(log)
    BY Numbers
  <2> QED
    BY <2>1, <2>2, <2>3, PosFacts
<1>6. rem' = [head |-> Pos(t), len |-> rem.len, fin |-> t]
  <2>1. rem.head + (guard.len + 4) = Pos(t) /\ rem.len + 0 = rem.len /\ rem.fin + 1 = t
    BY <1>4, <1>5, PopNumbers
  <2>2. /\ Pos(t) \in 0..(HeadMod - 1) /\ rem.len \in 0..(LenMod - 1) /\ t \in 0..(LenMod - 1)
    BY <1>3, <1>4, <1>5, PopNumbers, Bounds, SMTT(20) DEF Markers
  <2>3. rem \in Markers /\ guard.len + 4 \in Int
    BY <1>4, <1>5, PopNumbers
  <2> HIDE DEF Core
  <2> QED
    BY <1>1, <2>1, <2>2, <2>3, AddPlain
<1>7. rem' \in Markers
  BY <1>3, <1>4, <1>5, <1>6, PopNumbers, Bounds, SMTT(20) DEF Markers
<1>8. rem'.fin = Len(taken') /\ rem'.head = Pos(rem'.fin) /\ rem'.len = rem.len
  BY <1>1, <1>2, <1>3, <1>6
<1>9. popper \in {"check", "none", "wait"} => mine.fin <= rem'.fin
  BY <1>1, <1>4, <1>6 DEF PopInv, Markers
<1>10. Pos(rem.fin)' = Pos(rem'.fin) /\ Pos(Len(taken))' = Pos(Len(taken))
  BY <1>1, <1>2
<1>11. /\ guard' \in [at : Nat, len : Nat] /\ mine' \in Markers /\ held' \in BOOLEAN
       /\ taken' \in Seq(Items) /\ Len(taken') <= marker'.fin
       /\ \A k \in 1..Len(taken') : taken'[k] = log'[k]
       /\ popper' \in {"idle", "check", "none", "wait", "read"}
  BY <1>1 DEF PopInv
<1>12. rem'.len = (IF popper' = "idle" THEN Len(taken') ELSE Len(taken') + 1)
  BY <1>1, <1>8 DEF PopInv
<1>13. popper' \in {"check", "none", "wait"} =>
         /\ mine'.len = Len(taken') /\ mine'.fin <= rem'.fin
         /\ mine'.fin = Len(taken') => mine'.head = Pos(Len(taken))'
  BY <1>1, <1>9, <1>10 DEF PopInv
<1>14. popper' \in {"wait", "read"} => Len(taken') < marker'.fin
  BY <1>1 DEF PopInv
<1>15. popper' # "read" /\ ~held' /\ rem'.fin = Len(taken') /\ rem'.head = Pos(rem.fin)'
  BY <1>1, <1>4, <1>8, <1>10
<1> HIDE DEF Core
<1>16. PopInv'
  BY <1>7, <1>11, <1>12, <1>13, <1>14, <1>15 DEF PopInv
<1> QED
  BY <1>2, <1>16 DEF Core

-----------------------------------------------------------------------------
(* The invariant.                                                          *)

LEMMA InitInv ==
  ASSUME Init
  PROVE  RingInv
<1>1. Len(log) = 0 /\ Len(taken) = 0 /\ log \in Seq(Items) /\ place \in Seq(Nat)
      /\ Len(place) = 0 /\ taken \in Seq(Items)
  BY DEF Init
<1>2. Zero \in Markers /\ Zero.len = 0 /\ Zero.head = 0 /\ Zero.fin = 0
  BY Bounds DEF Zero, Markers
<1>3. \A k \in 0..Len(log) : Pos(k) = 0
  BY <1>1 DEF Pos
<1>4. LogInv
  BY <1>1, <1>3, Bounds DEF LogInv
<1>5. MarkInv
  BY <1>1, <1>2, <1>3 DEF Init, MarkInv
<1>6. TicketInv
  BY <1>2 DEF Init, TicketInv, Busy
<1>7. StoreInv
  <2>1. mem \in [0..(Cap - 1) -> Byte]
    BY DEF Init, Byte
  <2> QED
    BY <1>2, <2>1 DEF Init, StoreInv
<1>8. PopInv
  <2>1. /\ popper = "idle" /\ held = FALSE /\ rem = Zero /\ mine = Zero /\ marker = Zero
        /\ guard = [at |-> 0, len |-> 0]
    BY DEF Init
  <2>2. rem.fin = 0 /\ rem.head = 0 /\ rem.len = 0 /\ marker.fin = 0
    BY <1>2, <2>1
  <2>3. Pos(rem.fin) = 0
    BY <1>1, <1>3, <2>2
  <2>4. rem \in Markers /\ mine \in Markers /\ guard \in [at : Nat, len : Nat]
    BY <1>2, <2>1
  <2>5. \A k \in 1..Len(taken) : taken[k] = log[k]
    BY <1>1
  <2>6. /\ rem.fin = (IF held THEN Len(taken) - 1 ELSE Len(taken))
        /\ rem.len = (IF popper = "idle" THEN Len(taken) ELSE Len(taken) + 1)
    BY <1>1, <2>1, <2>2
  <2>7. held = FALSE /\ popper = "idle" /\ Len(taken) <= marker.fin
    BY <1>1, <2>1, <2>2
  <2> QED
    BY <1>1, <2>2, <2>3, <2>4, <2>5, <2>6, <2>7 DEF PopInv
<1>9. torn \in BOOLEAN /\ outside \in BOOLEAN
  BY DEF Init
<1> QED
  BY <1>4, <1>5, <1>6, <1>7, <1>8, <1>9 DEF RingInv, Core

\* What has been torn stays so.
LEMMA SoundBefore ==
  ASSUME torn \in BOOLEAN, outside \in BOOLEAN, [Next]_vars
  PROVE  (torn' \in BOOLEAN /\ outside' \in BOOLEAN) /\ (Sound' => Sound)
<1>1. CASE UNCHANGED vars
  BY <1>1 DEF vars, Sound
<1>2. ASSUME NEW p \in Pushers, NEW i \in Items, Reserve(p, i)
      PROVE  torn' = torn /\ outside' = outside
  BY <1>2 DEF Reserve
<1>3. ASSUME NEW p \in Pushers, PushStep(p)
      PROVE  torn' \in BOOLEAN /\ outside' \in BOOLEAN /\ (torn => torn') /\ (outside => outside')
  BY <1>3 DEF PushStep, Check, GiveBack, WriteRecord, SeeTurn, Publish
<1>4. ASSUME PopReserve \/ PopStep \/ DropGuard PROVE torn' = torn /\ outside' = outside
  BY <1>4 DEF PopReserve, PopStep, PopCheck, PopNone, PopWait, PopRead, DropGuard
<1> QED
  BY <1>1, <1>2, <1>3, <1>4 DEF Next, Sound

LEMMA StepInv ==
  ASSUME RingInv, [Next]_vars
  PROVE  RingInv'
<1>1. (torn' \in BOOLEAN /\ outside' \in BOOLEAN) /\ (Sound' => Sound)
  BY SoundBefore DEF RingInv
<1>2. ASSUME Sound' PROVE Core'
  <2>1. Core
    BY <1>1, <1>2 DEF RingInv
  <2>2. CASE UNCHANGED vars
    <3>1. UNCHANGED <<marker, rem, mem, pc, own, data, popper, mine, held, guard, log, place, taken>>
      BY <2>2 DEF vars, pushing, popping
    <3>2. /\ UNCHANGED <<marker, mem, log, place, pushing>>
          /\ UNCHANGED <<rem, popping>>
      BY <3>1 DEF pushing, popping
    <3>3. LogInv' /\ MarkInv' /\ TicketInv' /\ StoreInv'
      BY <2>1, <3>2, PushKept DEF Core
    <3>4. PopInv'
      BY <2>1, <3>1, <3>2, Numbers, PopKept DEF Core
    <3> QED
      BY <3>3, <3>4 DEF Core
  <2>3. ASSUME NEW p \in Pushers, NEW i \in Items, Reserve(p, i) PROVE Core'
    BY <2>1, <2>3, ReserveInv
  <2>4. ASSUME NEW p \in Pushers, PushStep(p) PROVE Core'
    BY <1>2, <2>1, <2>4, CheckInv, GiveBackInv, WriteRecordInv, SeeTurnInv, PublishInv
       DEF PushStep
  <2>5. ASSUME PopReserve \/ PopStep \/ DropGuard PROVE Core'
    BY <2>1, <2>5, PopReserveInv, PopCheckInv, PopNoneInv, PopWaitInv, PopReadInv, DropGuardInv
       DEF PopStep
  <2> QED
    BY <2>2, <2>3, <2>4, <2>5 DEF Next
<1> QED
  BY <1>1, <1>2 DEF RingInv

\* The invariant of the ring: as long as it is sound, every record has its own
\* bytes and is stored as it was pushed before its ticket is published.
THEOREM RingCorrect == Spec => []RingInv
<1>1. Init => RingInv
  BY InitInv
<1>2. RingInv /\ [Next]_vars => RingInv'
  BY StepInv
<1> QED
  BY <1>1, <1>2, PTL DEF Spec

\* byte_buf_ring.rs:173: while no overtaken push is refused, the three counters
\* never run into each other, whatever their widths and however many threads push.
THEOREM CountersStayApart == Spec => []NoCarry
<1>1. RingInv => NoCarry
  <2> SUFFICES ASSUME RingInv, Sound PROVE marker.len = Len(log) /\ marker.head = End
    BY DEF NoCarry
  <2>1. LogInv /\ MarkInv
    BY DEF RingInv, Core
  <2>2. log = <<>> <=> Len(log) = 0
    BY <2>1 DEF LogInv
  <2>3. Pos(Len(log)) = End
    BY <2>2 DEF Pos, End
  <2> QED
    BY <2>1, <2>3 DEF MarkInv
<1> QED
  BY <1>1, RingCorrect, PTL

\* byte_buf_ring.rs:78: the reservations of any two pushes under way are disjoint.
THEOREM ReservationsApart == Spec => []PushesApart
<1>1. RingInv => PushesApart
  <2> SUFFICES ASSUME RingInv, Sound, NEW p \in Pushers, NEW q \in Pushers,
                      p # q, Busy(p), Busy(q)
               PROVE  /\ own[p].len # own[q].len
                      /\ own[p].len < own[q].len => own[p].head + Size(data[p]) <= own[q].head
    BY DEF PushesApart
  <2>1. LogInv /\ MarkInv /\ TicketInv
    BY DEF RingInv, Core
  <2>2. own[p].len # own[q].len
    BY <2>1 DEF TicketInv
  <2>3. /\ own[p].len + 1 \in 1..Len(log) /\ own[p].len \in Nat
        /\ own[q].len + 1 \in 1..Len(log) /\ own[q].len \in Nat
        /\ own[q].head = Pos(own[q].len)
        /\ Pos(own[p].len + 1) = own[p].head + Size(data[p])
    BY <2>1, OwnRecord
  <2>4. own[p].len < own[q].len => Pos(own[p].len + 1) <= Pos(own[q].len)
    <3>1. own[p].len + 1 \in 0..Len(log) /\ own[q].len \in 0..Len(log)
      BY <2>3
    <3>2. own[p].len < own[q].len => own[p].len + 1 <= own[q].len
      BY <2>3
    <3> QED
      BY <2>1, <3>1, <3>2 DEF LogInv
  <2> QED
    BY <2>2, <2>3, <2>4
<1> QED
  BY <1>1, RingCorrect, PTL

\* A record that is published is in the buffer as it was pushed and stays there.
THEOREM PublishedStays == Spec => []PublishedStored
<1>1. RingInv => PublishedStored
  BY DEF RingInv, Core, MarkInv, StoreInv, PublishedStored
<1> QED
  BY <1>1, RingCorrect, PTL

\* The bytes behind a guard are the packet that was popped, whatever other
\* threads push while the guard is held.
THEOREM GuardStays == Spec => []GuardIntact
<1>1. RingInv => GuardIntact
  <2> SUFFICES ASSUME RingInv, Sound, held
               PROVE  taken # <<>> /\ Bytes(guard) = taken[Len(taken)]
    BY DEF GuardIntact
  <2>1. LogInv /\ MarkInv /\ StoreInv /\ PopInv
    BY DEF RingInv, Core
  <2>2. PICK t \in 1..Len(log) : t = Len(taken) /\ t \in 1..marker.fin
    BY <2>1, PopNumbers DEF PopInv
  <2>3. /\ guard \in [at : Nat, len : Nat]
        /\ guard.at = place[t] + 4 /\ guard.len = Len(log[t]) /\ taken[t] = log[t]
    BY <2>1, <2>2 DEF PopInv
  <2>4. Bytes(guard) = log[t]
    BY <2>1, <2>2, <2>3, ReadBack DEF StoreInv
  <2>5. taken # <<>>
    BY <2>2
  <2> QED
    BY <2>2, <2>3, <2>4, <2>5
<1> QED
  BY <1>1, RingCorrect, PTL

-----------------------------------------------------------------------------
(* The ring implements the queue.                                          *)

\* The first n + 1 items are the first n with one more.
LEMMA OneMore ==
  ASSUME NEW n \in Nat, NEW l, \A k \in 1..(n + 1) : l[k] \in Items
  PROVE  Append([k \in 1..n |-> l[k]], l[n + 1]) = [k \in 1..(n + 1) |-> l[k]]
<1> DEFINE s == [k \in 1..n |-> l[k]]
<1>1. s \in Seq(Items) /\ Len(s) = n /\ l[n + 1] \in Items
  OBVIOUS
<1>2. \A k \in 1..n : s[k] = l[k]
  OBVIOUS
<1> HIDE DEF s
<1> DEFINE t == Append(s, l[n + 1])
<1>3. /\ t \in Seq(Items) /\ Len(t) = n + 1 /\ t[n + 1] = l[n + 1]
      /\ \A k \in 1..n : t[k] = s[k]
  BY <1>1, AppendProperties
<1>4. t = [k \in 1..(n + 1) |-> t[k]]
  BY <1>3
<1>5. \A k \in 1..(n + 1) : t[k] = l[k]
  BY <1>2, <1>3
<1> HIDE DEF t
<1>6. t = [k \in 1..(n + 1) |-> l[k]]
  BY <1>4, <1>5
<1> QED
  BY <1>6 DEF t, s

LEMMA StepQueue ==
  ASSUME RingInv, [Next]_vars, Sound'
  PROVE  Queue!Next \/ UNCHANGED Queue!vars
<1> DEFINE put == [i \in 1..marker.fin |-> log[i]]
<1>1. Core
  BY SoundBefore DEF RingInv
<1>2. LogInv /\ MarkInv /\ TicketInv /\ PopInv
  BY <1>1 DEF Core
<1>3. /\ marker.fin \in Nat /\ marker.fin <= Len(log) /\ Len(log) \in Nat
      /\ \A k \in 1..Len(log) : log[k] \in Items
  BY <1>2, Numbers, PosFacts
<1>4. ASSUME marker'.fin = marker.fin, \A k \in 1..marker.fin : log'[k] = log[k],
             taken' = taken
      PROVE  UNCHANGED Queue!vars
  BY <1>4 DEF Queue!vars
<1>5. CASE UNCHANGED vars
  BY <1>4, <1>5 DEF vars, popping
<1>6. ASSUME NEW p \in Pushers, NEW i \in Items, Reserve(p, i)
      PROVE  UNCHANGED Queue!vars
  <2>1. /\ log' = Append(log, i) /\ marker' = Add(marker, Size(i), 1, 0)
        /\ Len(log) < MaxPush /\ place' = Append(place, marker.head) /\ taken' = taken
    BY <1>6 DEF Reserve, popping
  <2>2. \A k \in 1..marker.fin : log'[k] = log[k]
    BY <1>2, <1>3, <2>1, GrowLog
  <2>3. marker'.fin = marker.fin
    BY <1>1, <1>6, ReserveInv
  <2> QED
    BY <1>4, <2>1, <2>2, <2>3
<1>7. ASSUME NEW p \in Pushers, Check(p) \/ WriteRecord(p) \/ SeeTurn(p)
      PROVE  UNCHANGED Queue!vars
  <2>1. UNCHANGED <<marker, log, taken>>
    BY <1>7 DEF Check, WriteRecord, SeeTurn, popping
  <2> QED
    BY <1>4, <2>1
<1>8. ASSUME NEW p \in Pushers, GiveBack(p)
      PROVE  UNCHANGED Queue!vars
  <2>1. Core' /\ marker.len = own[p].len + 1 /\ Busy(p) /\ log' = Front(log)
        /\ place' = Front(place) /\ taken' = taken
    BY <1>1, <1>8, GiveBackInv DEF GiveBack, Sound, Busy, popping
  <2>2. PICK n \in Nat : n + 1 = Len(log) /\ marker.fin <= n
    BY <1>2, <1>3, <2>1, OwnRecord, Numbers
  <2>3. \A k \in 1..n : log'[k] = log[k]
    <3>1. Len(log) >= 1 /\ Len(log) - 1 = n
      BY <2>2
    <3> QED
      BY <1>2, <2>1, <3>1, ShrinkLog
  <2>4. marker'.fin = marker.fin
    BY <1>1, <1>8, GiveBackInv
  <2> QED
    BY <1>3, <1>4, <2>1, <2>2, <2>3, <2>4
<1>9. ASSUME NEW p \in Pushers, Publish(p)
      PROVE  Queue!Next
  <2>1. marker' = [marker EXCEPT !.fin = @ + 1] /\ log' = log /\ taken' = taken
    BY <1>1, <1>9, PublishInv DEF Publish, popping
  <2>2. marker'.fin = marker.fin + 1
    BY <1>2, <2>1 DEF MarkInv, Markers
  <2>3. marker.fin + 1 \in 1..Len(log)
    BY <1>1, <1>2, <1>3, <1>9, OwnRecord DEF Publish, Busy, TicketInv
  <2>4. PICK i \in Items : i = log[marker.fin + 1]
    BY <1>3, <2>3
  <2>5. put' = Append(put, i)
    <3>1. put' = [k \in 1..(marker.fin + 1) |-> log[k]]
      BY <2>1, <2>2
    <3>2. \A k \in 1..(marker.fin + 1) : log[k] \in Items
      BY <1>3, <2>3
    <3> HIDE DEF put
    <3>3. Append([k \in 1..marker.fin |-> log[k]], log[marker.fin + 1])
          = [k \in 1..(marker.fin + 1) |-> log[k]]
      BY <1>3, <3>2, OneMore
    <3> QED
      BY <2>4, <3>1, <3>3 DEF put
  <2>6. Queue!Put(i)
    BY <2>1, <2>5 DEF Queue!Put
  <2> QED
    BY <2>6 DEF Queue!Next
<1>10. ASSUME PopRead
       PROVE  Queue!Next
  <2>1. Len(taken) < marker.fin /\ taken' = Append(taken, log[Len(taken) + 1])
    BY <1>1, <1>10, PopReadInv
  <2>2. UNCHANGED <<marker, log>>
    BY <1>10 DEF PopRead
  <2>3. Len(put) = marker.fin /\ put[Len(taken) + 1] = log[Len(taken) + 1] /\ put' = put
    <3>1. Len(taken) + 1 \in 1..marker.fin
      BY <1>2, <1>3, <2>1, PopNumbers
    <3> QED
      BY <1>3, <2>2, <3>1
  <2>4. Queue!Take
    BY <2>1, <2>3 DEF Queue!Take
  <2> QED
    BY <2>4 DEF Queue!Next
<1>11. ASSUME PopReserve \/ PopCheck \/ PopNone \/ PopWait \/ DropGuard
       PROVE  UNCHANGED Queue!vars
  <2>1. UNCHANGED <<marker, log, taken>>
    BY <1>11 DEF PopReserve, PopCheck, PopNone, PopWait, DropGuard
  <2> QED
    BY <1>4, <2>1
<1> QED
  BY <1>5, <1>6, <1>7, <1>8, <1>9, <1>10, <1>11 DEF Next, PushStep, PopStep

\* As long as it is sound the ring is a first-in first-out queue of the packets:
\* published in the order of the tickets, popped in that order, each once.
THEOREM RingIsQueue == Spec => IsQueue
<1>1. Init => Queue!Init
  BY DEF Init, Zero, Queue!Init
<1>2. RingInv /\ [Next]_vars => [Sound' => Queue!Next \/ UNCHANGED Queue!vars]_vars
  BY StepQueue
<1> QED
  BY <1>1, <1>2, RingCorrect, PTL DEF Spec, IsQueue
=============================================================================
