---------------------------- MODULE IdentityProofs ----------------------------
(***************************************************************************)
(* Proofs about Identity, for any hash, any number of bits, keys, names,   *)
(* levels of the configuration and commands.  What a chain of hashes is    *)
(* for every length is shown by the least number at which it would fail.   *)
(***************************************************************************)
EXTENDS Identity, WellFoundedInduction, SequenceTheorems, FiniteSetTheorems, TLAPS

-------------------------------------------------------------------------------
(* Numbers: a set of them has a least element.                                 *)

LessThan == {p \in Nat \X Nat : p[1] < p[2]}

LEMMA LeastNumber ==
  ASSUME NEW T, T \subseteq Nat, T # {}
  PROVE  \E n \in T : \A m \in T : n <= m
<1>1. IsWellFoundedOn(LessThan, Nat)
  BY NatLessThanWellFounded DEF OpToRel, LessThan
<1>2. PICK n \in T : \A m \in T : <<m, n>> \notin LessThan
  BY <1>1, WFMin
<1>3. ASSUME NEW m \in T PROVE n <= m
  <2>1. m \in Nat /\ n \in Nat
    OBVIOUS
  <2>2. m < n => <<m, n>> \in LessThan
    BY <2>1 DEF LessThan
  <2> QED
    BY <1>2, <2>1, <2>2
<1> QED
  BY <1>2, <1>3

\* The form in which it is used: what holds at 0 and is passed on holds up to N.
LEMMA UpTo ==
  ASSUME NEW N \in Nat, NEW T, 0 \in T, \A n \in 0..N : n \in T /\ n < N => n + 1 \in T
  PROVE  0..N \subseteq T
<1>1. SUFFICES ASSUME NEW x \in 0..N, x \notin T PROVE FALSE
  OBVIOUS
<1> DEFINE Bad == {n \in 0..N : n \notin T}
<1>2. PICK n \in Bad : \A m \in Bad : n <= m
  <2>1. Bad \subseteq Nat /\ Bad # {}
    BY <1>1
  <2> QED
    BY <2>1, LeastNumber
<1>3. n # 0 /\ n - 1 \in 0..N /\ n - 1 \notin Bad /\ n - 1 < N
  BY <1>2
<1> QED
  BY <1>2, <1>3

-------------------------------------------------------------------------------
(* Chains of hashes.                                                           *)

Hashed(uuid, tokens, g) ==
  g = [i \in 0..Len(tokens) |-> IF i = 0 THEN uuid ELSE Sha[Xor(g[i - 1], tokens[i])]]

LEMMA ChainExists ==
  ASSUME NEW uuid, NEW tokens \in Seq(U256)
  PROVE  \E g : Hashed(uuid, tokens, g)
<1> DEFINE upto(n) == \E g : g = [i \in 0..n |-> IF i = 0 THEN uuid
                                                  ELSE Sha[Xor(g[i - 1], tokens[i])]]
           T == {n \in Nat : upto(n)}
<1>1. Len(tokens) \in Nat
  OBVIOUS
<1>2. 0 \in T
  <2> DEFINE g == [i \in 0..0 |-> uuid]
  <2>1. g = [i \in 0..0 |-> IF i = 0 THEN uuid ELSE Sha[Xor(g[i - 1], tokens[i])]]
    OBVIOUS
  <2> QED
    BY <2>1
<1>3. ASSUME NEW n \in Nat, upto(n) PROVE upto(n + 1)
  <2>1. PICK g : g = [i \in 0..n |-> IF i = 0 THEN uuid ELSE Sha[Xor(g[i - 1], tokens[i])]]
    BY <1>3
  <2> DEFINE h == [i \in 0..(n + 1) |-> IF i = n + 1 THEN Sha[Xor(g[n], tokens[n + 1])] ELSE g[i]]
  <2>2. \A i \in 0..(n + 1) : h[i] = IF i = 0 THEN uuid ELSE Sha[Xor(h[i - 1], tokens[i])]
    <3>1. \A i \in 0..n : g[i] = IF i = 0 THEN uuid ELSE Sha[Xor(g[i - 1], tokens[i])]
      BY <2>1
    <3>2. \A i \in 0..n : h[i] = g[i]
      OBVIOUS
    <3>3. h[n + 1] = Sha[Xor(h[n], tokens[n + 1])]
      BY <3>2
    <3> HIDE DEF h
    <3> QED
      BY <3>1, <3>2, <3>3
  <2>3. h = [i \in 0..(n + 1) |-> h[i]]
    OBVIOUS
  <2> HIDE DEF h
  <2>4. h = [i \in 0..(n + 1) |-> IF i = 0 THEN uuid ELSE Sha[Xor(h[i - 1], tokens[i])]]
    BY <2>2, <2>3
  <2> QED
    BY <2>4
<1> HIDE DEF upto
<1>4. \A n \in 0..Len(tokens) : n \in T /\ n < Len(tokens) => n + 1 \in T
  BY <1>1, <1>3
<1>5. 0..Len(tokens) \subseteq T
  <2> HIDE DEF T
  <2> QED
    BY <1>1, <1>2, <1>4, UpTo
<1>6. upto(Len(tokens))
  BY <1>1, <1>5
<1> QED
  BY <1>6 DEF upto, Hashed

LEMMA ChainHashed ==
  ASSUME NEW uuid, NEW tokens \in Seq(U256)
  PROVE  Hashed(uuid, tokens, Chain(uuid, tokens))
<1>1. Chain(uuid, tokens) = CHOOSE g : Hashed(uuid, tokens, g)
  BY DEF Chain, Hashed
<1> QED
  BY <1>1, ChainExists

Extends(s, t) == Len(t) <= Len(s) /\ \A i \in 1..Len(t) : s[i] = t[i]

\* The list, of at most 255 tokens, begins each hash with as many zeros as its place.
Valid(uuid, ts) ==
  /\ ts \in Seq(U256)
  /\ Len(ts) <= 255
  /\ \A i \in 1..Len(ts) : leading_zeros(Chain(uuid, ts)[i]) = i

LEMMA ChainStep ==
  ASSUME NEW uuid, NEW ts \in Seq(U256)
  PROVE  /\ Chain(uuid, ts)[0] = uuid
         /\ \A i \in 1..Len(ts) : Chain(uuid, ts)[i] = Sha[Xor(Chain(uuid, ts)[i - 1], ts[i])]
<1> DEFINE c == Chain(uuid, ts)
<1>1. c = [i \in 0..Len(ts) |-> IF i = 0 THEN uuid ELSE Sha[Xor(c[i - 1], ts[i])]]
  BY ChainHashed DEF Hashed
<1>2. Len(ts) \in Nat
  OBVIOUS
<1> HIDE DEF c
<1>3. \A i \in 0..Len(ts) : c[i] = IF i = 0 THEN uuid ELSE Sha[Xor(c[i - 1], ts[i])]
  BY <1>1
<1>4. c[0] = uuid /\ \A i \in 1..Len(ts) : c[i] = Sha[Xor(c[i - 1], ts[i])]
  BY <1>2, <1>3
<1> QED
  BY <1>4 DEF c

LEMMA ChainOfPrefix ==
  ASSUME NEW uuid, NEW ts \in Seq(U256), NEW more \in Seq(U256), Extends(more, ts)
  PROVE  \A i \in 0..Len(ts) : Chain(uuid, more)[i] = Chain(uuid, ts)[i]
<1> DEFINE c == Chain(uuid, ts)
           d == Chain(uuid, more)
           T == {n \in Nat : d[n] = c[n]}
<1>1. Len(ts) \in Nat /\ Len(more) \in Nat /\ Len(ts) <= Len(more)
  BY DEF Extends
<1>2. c[0] = uuid /\ \A i \in 1..Len(ts) : c[i] = Sha[Xor(c[i - 1], ts[i])]
  BY ChainStep
<1>3. d[0] = uuid /\ \A i \in 1..Len(more) : d[i] = Sha[Xor(d[i - 1], more[i])]
  BY ChainStep
<1> HIDE DEF c, d
<1>4. 0 \in T
  BY <1>2, <1>3
<1>5. ASSUME NEW n \in 0..Len(ts), n \in T, n < Len(ts) PROVE n + 1 \in T
  <2>1. n + 1 \in 1..Len(ts) /\ n + 1 \in 1..Len(more) /\ n + 1 - 1 = n
    BY <1>1, <1>5
  <2>2. c[n + 1] = Sha[Xor(c[n], ts[n + 1])]
    BY <2>1, <1>2
  <2>3. d[n + 1] = Sha[Xor(d[n], more[n + 1])]
    BY <2>1, <1>3
  <2>4. more[n + 1] = ts[n + 1] /\ d[n] = c[n]
    BY <2>1, <1>5 DEF Extends
  <2> QED
    BY <2>2, <2>3, <2>4
<1>6. 0..Len(ts) \subseteq T
  <2> HIDE DEF T
  <2> QED
    BY <1>1, <1>4, <1>5, UpTo
<1> QED
  BY <1>6 DEF c, d

LEMMA ValidLength ==
  ASSUME NEW uuid, NEW ts, Valid(uuid, ts)
  PROVE  ts \in Seq(U256) /\ Len(ts) \in 0..255
<1>1. ts \in Seq(U256) /\ Len(ts) <= 255
  BY DEF Valid
<1>2. Len(ts) \in Nat
  BY <1>1
<1>3. ASSUME NEW n \in Nat, n <= 255 PROVE n \in 0..255
  BY <1>3
<1>4. Len(ts) \in 0..255
  BY <1>1, <1>2, <1>3
<1> QED
  BY <1>1, <1>4

LEMMA SmallIsKept ==
  ASSUME NEW n \in 0..255
  PROVE  n % 256 = n
OBVIOUS

LEMMA CountedInFull ==
  ASSUME NEW uuid, NEW ts, Valid(uuid, ts)
  PROVE  verified_security_level(uuid, ts) = Len(ts)
<1>1. \A i \in 1..Len(ts) : leading_zeros(Chain(uuid, ts)[i]) = i
  BY DEF Valid
<1>2. verified_security_level(uuid, ts) = Len(ts) % 256
  BY <1>1 DEF verified_security_level
<1>3. Len(ts) \in 0..255
  BY ValidLength
<1> QED
  BY <1>2, <1>3, SmallIsKept

LEMMA OneMoreToken ==
  ASSUME NEW uuid, NEW ts, Valid(uuid, ts), Len(ts) < 255, NEW more \in Longer(uuid, ts)
  PROVE  Valid(uuid, more) /\ Len(more) = Len(ts) + 1 /\ Extends(more, ts)
<1>0. ts \in Seq(U256) /\ Len(ts) \in Nat
  BY DEF Valid
<1>1. PICK t \in compute_single_lvl(CurrToken(uuid, ts), Len(ts) + 1) : more = Append(ts, t)
  BY DEF Longer
<1>2. t \in U256 /\ leading_zeros(Sha[Xor(CurrToken(uuid, ts), t)]) = Len(ts) + 1
  BY <1>1 DEF compute_single_lvl
<1>3. /\ more \in Seq(U256) /\ Len(more) = Len(ts) + 1 /\ more[Len(ts) + 1] = t
      /\ \A i \in 1..Len(ts) : more[i] = ts[i]
  BY <1>0, <1>1, <1>2
<1>4. Extends(more, ts)
  BY <1>0, <1>3 DEF Extends
<1>5. \A i \in 0..Len(ts) : Chain(uuid, more)[i] = Chain(uuid, ts)[i]
  BY <1>0, <1>3, <1>4, ChainOfPrefix
<1>6. Chain(uuid, more)[Len(ts) + 1] = Sha[Xor(CurrToken(uuid, ts), t)]
  <2>1. Chain(uuid, more)[Len(ts) + 1] = Sha[Xor(Chain(uuid, more)[Len(ts)], more[Len(ts) + 1])]
    <3>1. Len(ts) + 1 \in 1..Len(more) /\ Len(ts) + 1 - 1 = Len(ts)
      BY <1>0, <1>3
    <3>2. \A i \in 1..Len(more) : Chain(uuid, more)[i] = Sha[Xor(Chain(uuid, more)[i - 1], more[i])]
      BY <1>3, ChainStep
    <3> QED
      BY <3>1, <3>2
  <2>2. Chain(uuid, more)[Len(ts)] = CurrToken(uuid, ts)
    BY <1>0, <1>5 DEF CurrToken
  <2> QED
    BY <1>3, <2>1, <2>2
<1>7. ASSUME NEW i \in 1..Len(more) PROVE leading_zeros(Chain(uuid, more)[i]) = i
  <2>1. CASE i = Len(ts) + 1
    BY <1>2, <1>6, <2>1
  <2>2. CASE i # Len(ts) + 1
    <3>1. i \in 1..Len(ts) /\ i \in 0..Len(ts)
      BY <1>0, <1>3, <2>2
    <3>2. Chain(uuid, more)[i] = Chain(uuid, ts)[i]
      BY <1>5, <3>1
    <3>3. leading_zeros(Chain(uuid, ts)[i]) = i
      BY <3>1 DEF Valid
    <3> QED
      BY <3>2, <3>3
  <2> QED
    BY <2>1, <2>2
<1>8. Len(more) <= 255
  BY <1>0, <1>3
<1> QED
  BY <1>3, <1>4, <1>7, <1>8 DEF Valid

\* The lists that the search has found before its last step, as generate_token_num defines them.
Found(g, req, uuid, ts) ==
  g = [n \in 0..req |-> IF n <= Len(ts) THEN {ts}
                        ELSE UNION {Longer(uuid, more) : more \in g[n - 1]}]

LEMMA SearchExists ==
  ASSUME NEW req \in Nat, NEW uuid, NEW ts \in Seq(U256)
  PROVE  \E g : Found(g, req, uuid, ts)
<1> DEFINE next(n, s) == IF n <= Len(ts) THEN {ts} ELSE UNION {Longer(uuid, more) : more \in s}
           upto(n) == \E g : g = [i \in 0..n |-> next(i, g[i - 1])]
           T == {n \in Nat : upto(n)}
<1>0. Len(ts) \in Nat
  OBVIOUS
<1>1. next(0, {}) = {ts} /\ \A s : next(0, s) = {ts}
  BY <1>0
<1>2. 0 \in T
  <2> DEFINE g == [i \in 0..0 |-> {ts}]
  <2>1. \A i \in 0..0 : next(i, g[i - 1]) = {ts}
    BY <1>0
  <2>2. g = [i \in 0..0 |-> next(i, g[i - 1])]
    <3> HIDE DEF next
    <3> QED
      BY <2>1
  <2> QED
    BY <2>2
<1> HIDE DEF next
<1>3. ASSUME NEW n \in Nat, upto(n) PROVE upto(n + 1)
  <2>1. PICK g : g = [i \in 0..n |-> next(i, g[i - 1])]
    BY <1>3
  <2> DEFINE h == [i \in 0..(n + 1) |-> IF i = n + 1 THEN next(n + 1, g[n]) ELSE g[i]]
  <2>2. \A i \in 0..(n + 1) : h[i] = next(i, h[i - 1])
    <3>1. \A i \in 0..n : g[i] = next(i, g[i - 1])
      BY <2>1
    <3>2. \A i \in 0..n : h[i] = g[i]
      OBVIOUS
    <3>3. h[n + 1] = next(n + 1, h[n])
      BY <3>2
    <3>4. g[0] = {ts} /\ next(0, h[0 - 1]) = {ts}
      <4>1. g[0] = next(0, g[0 - 1])
        BY <3>1
      <4> QED
        BY <4>1, <1>1
    <3> HIDE DEF h
    <3>5. ASSUME NEW i \in 0..(n + 1) PROVE h[i] = next(i, h[i - 1])
      <4>1. CASE i = n + 1
        <5>1. i - 1 = n
          BY <4>1
        <5> QED
          BY <3>3, <4>1, <5>1
      <4>2. CASE i = 0
        <5>1. h[0] = g[0]
          BY <3>2
        <5>2. h[0] = next(0, h[0 - 1])
          BY <3>4, <5>1
        <5> QED
          BY <4>2, <5>2
      <4>3. CASE i # 0 /\ i # n + 1
        <5>1. i \in 0..n /\ i - 1 \in 0..n
          BY <4>3
        <5>2. h[i] = g[i] /\ h[i - 1] = g[i - 1]
          BY <3>2, <5>1
        <5> QED
          BY <3>1, <5>1, <5>2
      <4> QED
        BY <4>1, <4>2, <4>3
    <3> QED
      BY <3>5
  <2>3. h = [i \in 0..(n + 1) |-> h[i]]
    OBVIOUS
  <2> HIDE DEF h
  <2>4. h = [i \in 0..(n + 1) |-> next(i, h[i - 1])]
    BY <2>2, <2>3
  <2> QED
    BY <2>4
<1> HIDE DEF upto
<1>4. \A n \in 0..req : n \in T /\ n < req => n + 1 \in T
  BY <1>3
<1>5. 0..req \subseteq T
  <2> HIDE DEF T
  <2> QED
    BY <1>2, <1>4, UpTo
<1>6. upto(req)
  BY <1>5
<1> QED
  BY <1>6 DEF upto, next, Found

\* What the search of the client ends with: the tokens there were, in front of new ones,
\* and in all as many as were asked for, or as there were.
LEMMA SearchExtends ==
  ASSUME NEW req \in 0..255, NEW uuid, NEW ts, Valid(uuid, ts),
         NEW ps \in generate_token_num(req, uuid, ts)
  PROVE  Valid(uuid, ps) /\ Extends(ps, ts) /\ req <= Len(ps)
<1>0. ts \in Seq(U256) /\ Len(ts) \in 0..255 /\ Extends(ts, ts)
  BY ValidLength DEF Extends
<1> DEFINE after == CHOOSE g : Found(g, req, uuid, ts)
           good(n, p) == Valid(uuid, p) /\ Extends(p, ts) /\ n <= Len(p)
                           /\ (n > Len(ts) => Len(p) = n)
           T == {n \in 0..req : \A p \in after[n] : good(n, p)}
<1>1. generate_token_num(req, uuid, ts) = after[req]
  BY DEF generate_token_num, Found
<1>2. Found(after, req, uuid, ts)
  <2>1. req \in Nat
    OBVIOUS
  <2>2. \E g : Found(g, req, uuid, ts)
    BY <1>0, <2>1, SearchExists
  <2> QED
    BY <2>2
<1> HIDE DEF after
<1>3. /\ \A n \in 0..req : n <= Len(ts) => after[n] = {ts}
      /\ \A n \in 0..req : n > Len(ts) => after[n] = UNION {Longer(uuid, more) : more \in after[n - 1]}
  BY <1>2, <1>0 DEF Found
<1>4. \A n \in 0..req : n <= Len(ts) => n \in T
  BY <1>0, <1>3
<1>5. ASSUME NEW n \in 0..req, n \in T, n < req PROVE n + 1 \in T
  <2>0. n + 1 \in 0..req /\ n + 1 - 1 = n
    BY <1>5
  <2>1. CASE n + 1 <= Len(ts)
    BY <1>4, <2>0, <2>1
  <2>2. CASE ~(n + 1 <= Len(ts))
    <3>0. n + 1 > Len(ts)
      BY <2>2, <1>0
    <3>1. SUFFICES ASSUME NEW p \in after[n + 1] PROVE good(n + 1, p)
      BY <2>0
    <3>2. PICK more \in after[n] : p \in Longer(uuid, more)
      BY <1>3, <2>0, <3>0
    <3>3. good(n, more)
      BY <1>5, <3>2
    <3>4. Len(more) = n
      <4>1. CASE n > Len(ts)
        BY <3>3, <4>1
      <4>2. CASE ~(n > Len(ts))
        <5>1. n = Len(ts)
          BY <4>2, <2>2, <1>0
        <5>2. more = ts
          BY <1>3, <5>1, <3>2
        <5> QED
          BY <5>1, <5>2
      <4> QED
        BY <4>1, <4>2
    <3>5. Valid(uuid, p) /\ Len(p) = n + 1 /\ Extends(p, more)
      <4>1. Valid(uuid, more) /\ Len(more) < 255
        BY <3>3, <3>4, <2>0
      <4>2. Valid(uuid, p) /\ Len(p) = Len(more) + 1 /\ Extends(p, more)
        BY <3>2, <4>1, OneMoreToken
      <4> QED
        BY <3>4, <4>2
    <3>6. Extends(p, ts)
      BY <3>5, <3>3, <3>4, <1>0 DEF Extends
    <3> QED
      BY <3>5, <3>6
  <2> QED
    BY <2>1, <2>2
<1>6. 0..req \subseteq T
  <2> HIDE DEF T
  <2>1. 0 \in T
    <3>1. 0 \in 0..req /\ 0 <= Len(ts)
      BY <1>0
    <3> QED
      BY <3>1, <1>4
  <2>2. req \in Nat
    OBVIOUS
  <2> QED
    BY <1>5, <2>1, <2>2, UpTo
<1>7. good(req, ps)
  BY <1>1, <1>6
<1> QED
  BY <1>7

-------------------------------------------------------------------------------
(* Lists and tables of profiles.                                               *)

\* What the client ever inserts: a name, a key that was drawn, and proofs that count.
Entries(d) ==
  {p \in [name : Names, key : Keys, proofs : Seq(U256)] :
     /\ p.key \in d
     /\ Valid(Uuid[p.key], p.proofs)
     /\ DEFAULT_SECURITY_LEVEL <= Len(p.proofs)}

\* A key stays with the name it was drawn for.
OneName(L) == \A i, j \in DOMAIN L : L[i].key = L[j].key => L[i].name = L[j].name

IsLast(L, i) == \A j \in DOMAIN L : L[j].name = L[i].name => j <= i

\* The list holds every reported profile, behind older entries of its name.
Keeps(L, b) ==
  \A k \in Keys : b[k] # <<>> =>
    \E i \in DOMAIN L : IsLast(L, i) /\ L[i].key = k /\ Extends(L[i].proofs, b[k])

GoodList(L, d, b) == L \in Seq(Entries(d)) /\ L # <<>> /\ OneName(L) /\ Keeps(L, b)

Good(d, b) ==
  /\ d \subseteq Keys /\ DOMAIN b = Keys
  /\ \A k \in Keys : Valid(Uuid[k], b[k]) /\ (b[k] # <<>> => k \in d)

\* The table shows what was reported, and is in the list.
Shows(P, L, b) ==
  /\ \A n \in DOMAIN P : /\ P[n].name = n
                         /\ \E i \in DOMAIN L : L[i] = P[n]
                         /\ b[P[n].key] = P[n].proofs
  /\ \A k \in Keys : b[k] # <<>> => \E n \in DOMAIN P : P[n].key = k

-------------------------------------------------------------------------------
LEMMA AtMost ==
  ASSUME NEW x \in Nat, NEW y \in Nat, NEW z \in Nat, x <= y, y <= z
  PROVE  x <= z /\ (0 < x => y \in 1..z) /\ (z <= 255 => y \in 0..255)
OBVIOUS

LEMMA ExtendsItself ==
  ASSUME NEW s \in Seq(U256)
  PROVE  Extends(s, s)
BY DEF Extends

LEMMA ExtendsNothing ==
  ASSUME NEW s \in Seq(U256)
  PROVE  Extends(s, <<>>)
BY DEF Extends

LEMMA ExtendsMore ==
  ASSUME NEW s \in Seq(U256), NEW t \in Seq(U256), NEW u \in Seq(U256),
         Extends(s, t), Extends(t, u)
  PROVE  Extends(s, u)
BY DEF Extends

LEMMA EntryFacts ==
  ASSUME NEW d, NEW p \in Entries(d)
  PROVE  /\ p.name \in Names /\ p.key \in Keys /\ p.key \in d /\ p.proofs \in Seq(U256)
         /\ Valid(Uuid[p.key], p.proofs) /\ p.proofs # <<>>
         /\ DEFAULT_SECURITY_LEVEL <= Len(p.proofs)
<1>1. /\ p \in [name : Names, key : Keys, proofs : Seq(U256)]
      /\ p.key \in d /\ Valid(Uuid[p.key], p.proofs) /\ DEFAULT_SECURITY_LEVEL <= Len(p.proofs)
  BY DEF Entries
<1>2. DEFAULT_SECURITY_LEVEL \in 1..255
  BY IdentityAssumption
<1>3. p.proofs # <<>>
  BY <1>1, <1>2
<1> QED
  BY <1>1, <1>3

LEMMA LastOfName ==
  ASSUME NEW S, NEW L \in Seq(S), NEW i \in DOMAIN L
  PROVE  \E j \in DOMAIN L : IsLast(L, j) /\ L[j].name = L[i].name
<1>0. DOMAIN L = 1..Len(L) /\ Len(L) \in Nat
  OBVIOUS
<1> DEFINE T == {n \in Nat : \E j \in DOMAIN L : n = Len(L) - j /\ L[j].name = L[i].name}
<1>1. T \subseteq Nat /\ Len(L) - i \in T
  BY <1>0
<1>2. PICK n \in T : \A m \in T : n <= m
  BY <1>1, LeastNumber
<1>3. PICK j \in DOMAIN L : n = Len(L) - j /\ L[j].name = L[i].name
  BY <1>2
<1>4. ASSUME NEW l \in DOMAIN L, L[l].name = L[j].name PROVE l <= j
  <2>1. Len(L) - l \in T
    BY <1>0, <1>3, <1>4
  <2> HIDE DEF T
  <2> QED
    BY <2>1, <1>0, <1>2, <1>3
<1> QED
  BY <1>3, <1>4 DEF IsLast

LEMMA ByNameOfLast ==
  ASSUME NEW S, NEW L \in Seq(S), NEW i \in DOMAIN L, IsLast(L, i)
  PROVE  L[i].name \in DOMAIN ByName(L) /\ ByName(L)[L[i].name] = L[i]
<1>0. DOMAIN L = 1..Len(L) /\ Len(L) \in Nat
  OBVIOUS
<1> DEFINE n == L[i].name
           P(l) == L[l].name = n /\ \A j \in DOMAIN L : L[j].name = n => j <= l
           c == CHOOSE l \in DOMAIN L : P(l)
<1>1. n \in DOMAIN ByName(L) /\ ByName(L)[n] = L[c]
  BY DEF ByName
<1>2. P(i)
  BY DEF IsLast
<1>3. c \in DOMAIN L /\ P(c)
  BY <1>2
<1> HIDE DEF c
<1>4. c <= i /\ i <= c /\ c \in Nat /\ i \in Nat
  BY <1>0, <1>2, <1>3
<1>5. c = i
  BY <1>4
<1> QED
  BY <1>1, <1>5

LEMMA ByNameIs ==
  ASSUME NEW S, NEW L \in Seq(S), NEW n \in DOMAIN ByName(L)
  PROVE  \E i \in DOMAIN L : IsLast(L, i) /\ L[i].name = n /\ ByName(L)[n] = L[i]
<1>1. PICK i \in DOMAIN L : n = L[i].name
  BY DEF ByName
<1>2. PICK j \in DOMAIN L : IsLast(L, j) /\ L[j].name = L[i].name
  BY LastOfName
<1>3. ByName(L)[L[j].name] = L[j]
  BY <1>2, ByNameOfLast
<1> QED
  BY <1>1, <1>2, <1>3

LEMMA PrefixIsExtended ==
  ASSUME NEW s \in Seq(U256), NEW t \in Seq(U256)
  PROVE  Extends(s, t) <=> IsPrefix(t, s)
<1>1. CASE Len(t) <= Len(s)
  <2>1. /\ SubSeq(s, 1, Len(t)) \in Seq(U256) /\ Len(SubSeq(s, 1, Len(t))) = Len(t)
        /\ \A i \in 1..Len(t) : SubSeq(s, 1, Len(t))[i] = s[i]
    BY <1>1
  <2>2. SubSeq(t, 1, Len(t)) = t
    OBVIOUS
  <2>3. SubSeq(s, 1, Len(t)) = t <=> \A i \in 1..Len(t) : s[i] = t[i]
    <3>1. ASSUME \A i \in 1..Len(t) : s[i] = t[i] PROVE SubSeq(s, 1, Len(t)) = t
      BY <2>1, <3>1
    <3> QED
      BY <2>1, <3>1
  <2> QED
    BY <1>1, <2>2, <2>3 DEF Extends, IsPrefix
<1>2. CASE ~(Len(t) <= Len(s))
  BY <1>2 DEF Extends, IsPrefix
<1> QED
  BY <1>1, <1>2

\* A table whose proofs all go on from the best ones is what is reported.
LEMMA ReportedIs ==
  ASSUME NEW ps, DOMAIN best = Keys,
         \A k \in Keys : best[k] \in Seq(U256),
         \A n \in DOMAIN ps : /\ ps[n].key \in Keys /\ ps[n].proofs \in Seq(U256)
                              /\ Extends(ps[n].proofs, best[ps[n].key]),
         \A n, m \in DOMAIN ps : ps[n].key = ps[m].key => n = m
  PROVE  /\ DOMAIN Reported(ps) = Keys
         /\ \A n \in DOMAIN ps : Reported(ps)[ps[n].key] = ps[n].proofs
         /\ \A k \in Keys : (\A n \in DOMAIN ps : ps[n].key # k) => Reported(ps)[k] = best[k]
<1> DEFINE shown(k) == {ps[n].proofs : n \in {m \in DOMAIN ps :
                                               ps[m].key = k /\ IsPrefix(best[k], ps[m].proofs)}}
<1>1. /\ DOMAIN Reported(ps) = Keys
      /\ \A k \in Keys : Reported(ps)[k] = IF shown(k) = {} THEN best[k]
                                           ELSE CHOOSE proofs \in shown(k) : TRUE
  BY DEF Reported
<1>2. ASSUME NEW n \in DOMAIN ps PROVE Reported(ps)[ps[n].key] = ps[n].proofs
  <2>1. IsPrefix(best[ps[n].key], ps[n].proofs)
    BY PrefixIsExtended
  <2>2. shown(ps[n].key) = {ps[n].proofs}
    BY <2>1
  <2> QED
    BY <1>1, <2>2
<1>3. ASSUME NEW k \in Keys, \A n \in DOMAIN ps : ps[n].key # k PROVE Reported(ps)[k] = best[k]
  <2>1. shown(k) = {}
    BY <1>3
  <2> QED
    BY <1>1, <2>1
<1> QED
  BY <1>1, <1>2, <1>3

\* A table of entries of a list, each under its own name.
LEMMA TableReports ==
  ASSUME NEW L, NEW d, L \in Seq(Entries(d)), OneName(L), DOMAIN best = Keys, NEW Q,
         \A k \in Keys : best[k] \in Seq(U256),
         \A n \in DOMAIN Q : Q[n].name = n /\ \E i \in DOMAIN L : L[i] = Q[n],
         \A n \in DOMAIN Q : Extends(Q[n].proofs, best[Q[n].key])
  PROVE  /\ \A n \in DOMAIN Q : /\ Q[n].key \in Keys /\ Q[n].key \in d
                                /\ Q[n].proofs \in Seq(U256)
                                /\ Valid(Uuid[Q[n].key], Q[n].proofs)
         /\ DOMAIN Reported(Q) = Keys
         /\ \A n \in DOMAIN Q : Reported(Q)[Q[n].key] = Q[n].proofs
         /\ \A k \in Keys : (\A n \in DOMAIN Q : Q[n].key # k) => Reported(Q)[k] = best[k]
<1>1. \A i \in DOMAIN L : L[i] \in Entries(d)
  OBVIOUS
<1>2. \A n \in DOMAIN Q : Q[n] \in Entries(d)
  BY <1>1
<1>3. \A n \in DOMAIN Q : /\ Q[n].key \in Keys /\ Q[n].key \in d /\ Q[n].proofs \in Seq(U256)
                          /\ Valid(Uuid[Q[n].key], Q[n].proofs)
  BY <1>2, EntryFacts
<1>4. \A n, m \in DOMAIN Q : Q[n].key = Q[m].key => n = m
  <2>1. SUFFICES ASSUME NEW n \in DOMAIN Q, NEW m \in DOMAIN Q, Q[n].key = Q[m].key PROVE n = m
    OBVIOUS
  <2>2. PICK i \in DOMAIN L : L[i] = Q[n]
    OBVIOUS
  <2>3. PICK j \in DOMAIN L : L[j] = Q[m]
    OBVIOUS
  <2>4. L[i].name = L[j].name
    BY <2>1, <2>2, <2>3 DEF OneName
  <2>5. Q[n].name = n /\ Q[m].name = m
    OBVIOUS
  <2> QED
    BY <2>2, <2>3, <2>4, <2>5
<1>5. /\ DOMAIN Reported(Q) = Keys
      /\ \A n \in DOMAIN Q : Reported(Q)[Q[n].key] = Q[n].proofs
      /\ \A k \in Keys : (\A n \in DOMAIN Q : Q[n].key # k) => Reported(Q)[k] = best[k]
  <2>1. \A n \in DOMAIN Q : /\ Q[n].key \in Keys /\ Q[n].proofs \in Seq(U256)
                            /\ Extends(Q[n].proofs, best[Q[n].key])
    BY <1>3
  <2> QED
    BY <2>1, <1>4, ReportedIs
<1> QED
  BY <1>3, <1>5

\* The table that is made of a list shows what is in the list, and nothing that was
\* reported is lost.
LEMMA LoadedShows ==
  ASSUME NEW L, NEW d, Good(d, best), GoodList(L, d, best),
         NEW P, P = ByName(L), NEW B, B = Reported(P)
  PROVE  /\ Shows(P, L, B) /\ Good(d, B) /\ GoodList(L, d, B)
         /\ \A k \in Keys : Extends(B[k], best[k])
<1>0. /\ L \in Seq(Entries(d)) /\ L # <<>> /\ OneName(L) /\ Keeps(L, best)
      /\ d \subseteq Keys /\ DOMAIN best = Keys
      /\ \A k \in Keys : Valid(Uuid[k], best[k]) /\ (best[k] # <<>> => k \in d)
  BY DEF Good, GoodList
<1>1. \A i \in DOMAIN L : L[i] \in Entries(d)
  BY <1>0
<1>2. \A i \in DOMAIN L : IsLast(L, i) => L[i].name \in DOMAIN P /\ P[L[i].name] = L[i]
  BY <1>0, ByNameOfLast
<1>3. \A n \in DOMAIN P : \E i \in DOMAIN L : IsLast(L, i) /\ L[i].name = n /\ P[n] = L[i]
  BY <1>0, ByNameIs
<1>4. \A n \in DOMAIN P : P[n] \in Entries(d) /\ P[n].name = n
  BY <1>1, <1>3
<1>5. \A n \in DOMAIN P : /\ P[n].key \in Keys /\ P[n].key \in d /\ P[n].proofs \in Seq(U256)
                          /\ Valid(Uuid[P[n].key], P[n].proofs)
  BY <1>4, EntryFacts
<1>6. \A n, m \in DOMAIN P : P[n].key = P[m].key => n = m
  BY <1>0, <1>3 DEF OneName
<1>8. \A k \in Keys : best[k] # <<>> =>
        \E n \in DOMAIN P : P[n].key = k /\ Extends(P[n].proofs, best[k])
  BY <1>0, <1>2 DEF Keeps
<1>a. \A k \in Keys : best[k] \in Seq(U256)
  BY <1>0 DEF Valid
\* What is loaded goes on from the best proofs of its key.
<1>b. ASSUME NEW n \in DOMAIN P PROVE Extends(P[n].proofs, best[P[n].key])
  <2>1. CASE best[P[n].key] = <<>>
    BY <2>1, <1>5, ExtendsNothing
  <2>2. CASE best[P[n].key] # <<>>
    BY <2>2, <1>5, <1>6, <1>8
  <2> QED
    BY <2>1, <2>2
<1>7. /\ DOMAIN B = Keys
      /\ \A n \in DOMAIN P : B[P[n].key] = P[n].proofs
      /\ \A k \in Keys : (\A n \in DOMAIN P : P[n].key # k) => B[k] = best[k]
  BY <1>0, <1>5, <1>6, <1>a, <1>b, ReportedIs
<1>9. \A k \in Keys : B[k] # <<>> => \E n \in DOMAIN P : P[n].key = k
  BY <1>7, <1>8
<1>10. Shows(P, L, B)
  BY <1>3, <1>4, <1>7, <1>9 DEF Shows
<1>11. ASSUME NEW k \in Keys
       PROVE  Valid(Uuid[k], B[k]) /\ (B[k] # <<>> => k \in d) /\ Extends(B[k], best[k])
  <2>1. CASE \E n \in DOMAIN P : P[n].key = k
    <3>1. PICK n \in DOMAIN P : P[n].key = k
      BY <2>1
    <3>2. B[k] = P[n].proofs /\ Valid(Uuid[k], B[k]) /\ k \in d /\ B[k] \in Seq(U256)
      BY <3>1, <1>5, <1>7
    <3>3. CASE best[k] = <<>>
      BY <3>2, <3>3, ExtendsNothing
    <3>4. CASE best[k] # <<>>
      BY <3>1, <3>2, <3>4, <1>6, <1>8
    <3> QED
      BY <3>2, <3>3, <3>4
  <2>2. CASE \A n \in DOMAIN P : P[n].key # k
    <3>1. B[k] = best[k] /\ best[k] \in Seq(U256)
      BY <2>2, <1>7, <1>0 DEF Valid
    <3> QED
      BY <3>1, <1>0, ExtendsItself
  <2> QED
    BY <2>1, <2>2
<1>12. Good(d, B)
  BY <1>0, <1>7, <1>11 DEF Good
<1>13. Keeps(L, B)
  <2>1. SUFFICES ASSUME NEW k \in Keys, B[k] # <<>>
                 PROVE  \E i \in DOMAIN L : IsLast(L, i) /\ L[i].key = k /\ Extends(L[i].proofs, B[k])
    BY DEF Keeps
  <2>2. PICK n \in DOMAIN P : P[n].key = k
    BY <2>1, <1>9
  <2>3. PICK i \in DOMAIN L : IsLast(L, i) /\ L[i].name = n /\ P[n] = L[i]
    BY <1>3
  <2>4. B[k] = L[i].proofs /\ L[i].proofs \in Seq(U256)
    BY <2>2, <2>3, <1>5, <1>7
  <2>5. Extends(L[i].proofs, B[k])
    BY <2>4, ExtendsItself
  <2> QED
    BY <2>2, <2>3, <2>5
<1>14. GoodList(L, d, B)
  BY <1>0, <1>13 DEF GoodList
<1> QED
  BY <1>10, <1>11, <1>12, <1>14

\* An entry that raises a profile, or is one of a new key and a new name.
LEMMA InsertedIsGood ==
  ASSUME NEW L, NEW d, NEW b, NEW P, NEW p, NEW e,
         Good(d, b), GoodList(L, d, b), Shows(P, L, b),
         d \subseteq e, e \subseteq Keys, p \in Entries(e),
         \/ p.name \in DOMAIN P /\ p.key = P[p.name].key /\ Extends(p.proofs, P[p.name].proofs)
         \/ p.name \notin DOMAIN P /\ p.key \notin d
  PROVE  GoodList(Append(L, p), e, b) /\ Good(e, b) /\ Shows(P, Append(L, p), b)
<1> DEFINE M == Append(L, p)
<1>0. /\ L \in Seq(Entries(d)) /\ L # <<>> /\ OneName(L) /\ Keeps(L, b)
      /\ d \subseteq Keys /\ DOMAIN b = Keys
      /\ \A k \in Keys : Valid(Uuid[k], b[k]) /\ (b[k] # <<>> => k \in d)
  BY DEF Good, GoodList
<1>1. Entries(d) \subseteq Entries(e)
  BY DEF Entries
<1>2. L \in Seq(Entries(e)) /\ Len(L) \in Nat /\ DOMAIN L = 1..Len(L)
  BY <1>0, <1>1
<1>3. /\ M \in Seq(Entries(e)) /\ DOMAIN M = 1..(Len(L) + 1) /\ M[Len(L) + 1] = p
      /\ \A i \in DOMAIN L : M[i] = L[i]
  BY <1>2
<1> HIDE DEF M
<1>4. \A i \in DOMAIN M : i \in DOMAIN L \/ (i = Len(L) + 1 /\ M[i] = p)
  BY <1>2, <1>3
<1>5. \A i \in DOMAIN L : L[i].key \in d
  BY <1>0, EntryFacts
<1>6. /\ \A n \in DOMAIN P : P[n].name = n /\ \E i \in DOMAIN L : L[i] = P[n]
      /\ \A n \in DOMAIN P : b[P[n].key] = P[n].proofs
      /\ \A k \in Keys : b[k] # <<>> => \E n \in DOMAIN P : P[n].key = k
  BY DEF Shows
<1>7. \A i \in DOMAIN L : L[i].key = p.key => L[i].name = p.name
  <2>1. SUFFICES ASSUME NEW i \in DOMAIN L, L[i].key = p.key PROVE L[i].name = p.name
    OBVIOUS
  <2>2. p.name \in DOMAIN P /\ p.key = P[p.name].key
    BY <2>1, <1>5
  <2>3. PICK j \in DOMAIN L : L[j] = P[p.name]
    BY <2>2, <1>6
  <2>4. L[j].name = p.name
    BY <2>2, <2>3, <1>6
  <2> QED
    BY <2>1, <2>2, <2>3, <2>4, <1>0 DEF OneName
<1>8. OneName(M)
  <2>1. SUFFICES ASSUME NEW i \in DOMAIN M, NEW j \in DOMAIN M, M[i].key = M[j].key
                 PROVE  M[i].name = M[j].name
    BY DEF OneName
  <2>2. CASE i \in DOMAIN L /\ j \in DOMAIN L
    BY <2>1, <2>2, <1>0, <1>3 DEF OneName
  <2>3. CASE i \in DOMAIN L /\ M[j] = p
    BY <2>1, <2>3, <1>3, <1>7
  <2>4. CASE j \in DOMAIN L /\ M[i] = p
    BY <2>1, <2>4, <1>3, <1>7
  <2>5. CASE M[i] = p /\ M[j] = p
    BY <2>5
  <2> QED
    BY <1>4, <2>2, <2>3, <2>4, <2>5
<1>9. \A i \in DOMAIN L : L[i].name # p.name /\ IsLast(L, i) => IsLast(M, i)
  <2>1. SUFFICES ASSUME NEW i \in DOMAIN L, L[i].name # p.name, IsLast(L, i),
                        NEW j \in DOMAIN M, M[j].name = M[i].name
                 PROVE  j <= i
    BY DEF IsLast
  <2>2. j \in DOMAIN L
    BY <2>1, <1>3, <1>4
  <2> QED
    BY <2>1, <2>2, <1>3 DEF IsLast
<1>10. IsLast(M, Len(L) + 1)
  BY <1>2, <1>3 DEF IsLast
<1>11. ASSUME NEW k \in Keys, b[k] # <<>>
       PROVE  \E i \in DOMAIN M : IsLast(M, i) /\ M[i].key = k /\ Extends(M[i].proofs, b[k])
  <2>1. PICK i \in DOMAIN L : IsLast(L, i) /\ L[i].key = k /\ Extends(L[i].proofs, b[k])
    BY <1>0, <1>11 DEF Keeps
  <2>2. CASE L[i].name # p.name
    <3>1. i \in DOMAIN M
      BY <1>2, <1>3
    <3> QED
      BY <2>1, <2>2, <3>1, <1>3, <1>9
  <2>3. CASE L[i].name = p.name
    <3>1. PICK n \in DOMAIN P : P[n].key = k
      BY <1>6, <1>11
    <3>2. PICK j \in DOMAIN L : L[j] = P[n]
      BY <1>6
    <3>3. P[n].name = n
      BY <1>6
    <3>4. n = p.name
      BY <2>1, <2>3, <3>1, <3>2, <3>3, <1>0 DEF OneName
    <3>5. p.key = k /\ Extends(p.proofs, P[n].proofs) /\ P[n].proofs = b[k]
      BY <3>1, <3>4, <1>6
    <3>6. Len(L) + 1 \in DOMAIN M
      BY <1>2, <1>3
    <3> QED
      BY <3>5, <3>6, <1>3, <1>10
  <2> QED
    BY <2>2, <2>3
<1>12. Keeps(M, b)
  BY <1>11 DEF Keeps
<1>13. GoodList(M, e, b)
  <2>1. M # <<>>
    BY <1>2, <1>3
  <2> QED
    BY <2>1, <1>3, <1>8, <1>12 DEF GoodList
<1>14. Good(e, b)
  BY <1>0 DEF Good
<1>15. \A n \in DOMAIN P : \E i \in DOMAIN M : M[i] = P[n]
  <2>1. \A i \in DOMAIN L : i \in DOMAIN M
    BY <1>2, <1>3
  <2> QED
    BY <2>1, <1>3, <1>6
<1>16. Shows(P, M, b)
  BY <1>6, <1>15 DEF Shows
<1> QED
  BY <1>13, <1>14, <1>16 DEF M

\* The entry at the end is shown.
LEMMA LastIsShown ==
  ASSUME NEW L, NEW d, NEW P, NEW Q, NEW B, NEW p,
         Good(d, best), GoodList(L, d, best), Shows(P, L, best),
         p = Last(L),
         p.name \in DOMAIN P => p.key = P[p.name].key /\ Extends(p.proofs, P[p.name].proofs),
         DOMAIN Q = DOMAIN P \cup {p.name}, Q[p.name] = p,
         \A n \in DOMAIN P : n # p.name => Q[n] = P[n],
         B = Reported(Q)
  PROVE  /\ Shows(Q, L, B) /\ Good(d, B) /\ GoodList(L, d, B)
         /\ \A k \in Keys : Extends(B[k], best[k])
<1>0. /\ L \in Seq(Entries(d)) /\ L # <<>> /\ OneName(L) /\ Keeps(L, best)
      /\ d \subseteq Keys /\ DOMAIN best = Keys
      /\ \A k \in Keys : Valid(Uuid[k], best[k]) /\ (best[k] # <<>> => k \in d)
  BY DEF Good, GoodList
<1> DEFINE l == Len(L)
<1>1. l \in DOMAIN L /\ L[l] = p /\ l \in Nat /\ DOMAIN L = 1..l
  BY <1>0 DEF Last
<1> HIDE DEF l
<1>2. \A i \in DOMAIN L : L[i] \in Entries(d)
  BY <1>0
<1>3. /\ \A n \in DOMAIN P : P[n].name = n /\ \E i \in DOMAIN L : L[i] = P[n]
      /\ \A n \in DOMAIN P : best[P[n].key] = P[n].proofs
      /\ \A k \in Keys : best[k] # <<>> => \E n \in DOMAIN P : P[n].key = k
  BY DEF Shows
<1>4. /\ DOMAIN Q = DOMAIN P \cup {p.name} /\ Q[p.name] = p
      /\ \A n \in DOMAIN P : n # p.name => Q[n] = P[n]
  OBVIOUS
<1>5. \A n \in DOMAIN Q : Q[n].name = n /\ \E i \in DOMAIN L : L[i] = Q[n]
  BY <1>1, <1>3, <1>4
<1>a. \A k \in Keys : best[k] \in Seq(U256)
  BY <1>0 DEF Valid
<1>6. \A n \in DOMAIN Q : Q[n].key \in Keys /\ Q[n].proofs \in Seq(U256)
  BY <1>2, <1>5, EntryFacts
<1>12. Extends(p.proofs, best[p.key])
  <2>1. p.key \in Keys /\ p.proofs \in Seq(U256)
    BY <1>4, <1>6
  <2>2. CASE best[p.key] = <<>>
    BY <2>1, <2>2, ExtendsNothing
  <2>3. CASE best[p.key] # <<>>
    <3>1. PICK n \in DOMAIN P : P[n].key = p.key
      BY <2>1, <2>3, <1>3
    <3>2. PICK i \in DOMAIN L : L[i] = P[n]
      BY <1>3
    <3>3. n = p.name
      BY <3>1, <3>2, <1>0, <1>1, <1>3 DEF OneName
    <3> QED
      BY <3>1, <3>3, <1>3
  <2> QED
    BY <2>2, <2>3
<1>b. ASSUME NEW n \in DOMAIN Q PROVE Extends(Q[n].proofs, best[Q[n].key])
  <2>1. CASE n = p.name
    BY <2>1, <1>4, <1>12
  <2>2. CASE n # p.name
    <3>1. n \in DOMAIN P /\ Q[n] = P[n] /\ best[P[n].key] = P[n].proofs
      BY <2>2, <1>3, <1>4
    <3> QED
      BY <3>1, <1>6, ExtendsItself
  <2> QED
    BY <2>1, <2>2
<1>c. /\ L \in Seq(Entries(d)) /\ OneName(L) /\ DOMAIN best = Keys
      /\ \A k \in Keys : best[k] \in Seq(U256)
      /\ \A n \in DOMAIN Q : Q[n].name = n /\ \E i \in DOMAIN L : L[i] = Q[n]
      /\ \A n \in DOMAIN Q : Extends(Q[n].proofs, best[Q[n].key])
  BY <1>0, <1>5, <1>a, <1>b
<1>d. /\ \A n \in DOMAIN Q : /\ Q[n].key \in Keys /\ Q[n].key \in d
                             /\ Q[n].proofs \in Seq(U256)
                             /\ Valid(Uuid[Q[n].key], Q[n].proofs)
      /\ DOMAIN Reported(Q) = Keys
      /\ \A n \in DOMAIN Q : Reported(Q)[Q[n].key] = Q[n].proofs
      /\ \A k \in Keys : (\A n \in DOMAIN Q : Q[n].key # k) => Reported(Q)[k] = best[k]
  BY ONLY <1>c, TableReports
<1>7. \A n \in DOMAIN Q : /\ Q[n].key \in Keys /\ Q[n].key \in d /\ Q[n].proofs \in Seq(U256)
                          /\ Valid(Uuid[Q[n].key], Q[n].proofs)
  BY <1>d
<1>9. /\ DOMAIN B = Keys
      /\ \A n \in DOMAIN Q : B[Q[n].key] = Q[n].proofs
      /\ \A k \in Keys : (\A n \in DOMAIN Q : Q[n].key # k) => B[k] = best[k]
  BY <1>d
<1>10. p.name \in DOMAIN Q /\ p.key \in Keys /\ p.proofs \in Seq(U256) /\ B[p.key] = p.proofs
  BY <1>4, <1>7, <1>9
\* Whose proofs change.
<1>11. \A k \in Keys : k # p.key => B[k] = best[k]
  <2>1. SUFFICES ASSUME NEW k \in Keys, k # p.key PROVE B[k] = best[k]
    OBVIOUS
  <2>2. CASE \E n \in DOMAIN Q : Q[n].key = k
    <3>1. PICK n \in DOMAIN Q : Q[n].key = k
      BY <2>2
    <3>2. n # p.name /\ n \in DOMAIN P /\ Q[n] = P[n]
      BY <2>1, <3>1, <1>4
    <3>3. best[P[n].key] = P[n].proofs
      BY <3>2, <1>3
    <3>4. B[Q[n].key] = Q[n].proofs
      BY <1>9
    <3> QED
      BY <3>1, <3>2, <3>3, <3>4
  <2> QED
    BY <2>2, <1>9
<1>13. ASSUME NEW k \in Keys
       PROVE  Valid(Uuid[k], B[k]) /\ (B[k] # <<>> => k \in d) /\ Extends(B[k], best[k])
  <2>1. CASE k = p.key
    BY <2>1, <1>4, <1>7, <1>10, <1>12
  <2>2. CASE k # p.key
    <3>1. B[k] = best[k] /\ best[k] \in Seq(U256)
      BY <2>2, <1>0, <1>11 DEF Valid
    <3> QED
      BY <3>1, <1>0, ExtendsItself
  <2> QED
    BY <2>1, <2>2
<1>14. Good(d, B)
  BY <1>0, <1>9, <1>13 DEF Good
<1>15. \A k \in Keys : B[k] # <<>> => \E n \in DOMAIN Q : Q[n].key = k
  <2>1. SUFFICES ASSUME NEW k \in Keys, B[k] # <<>> PROVE \E n \in DOMAIN Q : Q[n].key = k
    OBVIOUS
  <2>2. CASE k = p.key
    BY <2>2, <1>4
  <2>3. CASE k # p.key
    <3>1. PICK n \in DOMAIN P : P[n].key = k
      BY <2>1, <2>3, <1>3, <1>11
    <3>2. n # p.name
      <4>1. SUFFICES ASSUME n = p.name PROVE FALSE
        OBVIOUS
      <4> QED
        BY <4>1, <3>1, <2>3
    <3> QED
      BY <3>1, <3>2, <1>4
  <2> QED
    BY <2>2, <2>3
<1>16. Shows(Q, L, B)
  BY <1>5, <1>9, <1>15 DEF Shows
<1>17. IsLast(L, l)
  BY <1>1 DEF IsLast
<1>18. Keeps(L, B)
  <2>1. SUFFICES ASSUME NEW k \in Keys, B[k] # <<>>
                 PROVE  \E i \in DOMAIN L : IsLast(L, i) /\ L[i].key = k /\ Extends(L[i].proofs, B[k])
    BY DEF Keeps
  <2>2. CASE k = p.key
    <3>1. Extends(p.proofs, B[k])
      BY <2>2, <1>10, ExtendsItself
    <3> QED
      BY <2>2, <3>1, <1>1, <1>17
  <2>3. CASE k # p.key
    BY <2>1, <2>3, <1>0, <1>11 DEF Keeps
  <2> QED
    BY <2>2, <2>3
<1>19. GoodList(L, d, B)
  BY <1>0, <1>18 DEF GoodList
<1> QED
  BY <1>13, <1>14, <1>16, <1>19

-------------------------------------------------------------------------------
(* The inductive invariant.                                                    *)

Places ==
  /\ cpc \in {"down", "fill", "up", "cut", "write", "insert"}
  /\ Good(drawn, best)
  /\ pfile = NoFile \/ cpc = "fill" => \A k \in Keys : best[k] = <<>>

Files ==
  /\ pfile \notin {NoFile, Torn} => GoodList(pfile, drawn, best)
  /\ cpc # "down" => GoodList(cache, drawn, best)
  /\ cpc = "down" => cache = <<>>
  /\ cpc = "insert" => pfile = cache

Showing ==
  /\ cpc \in {"down", "fill"} => profiles = None
  /\ cpc \notin {"down", "fill"} => Shows(profiles, cache, best)

\* The entry under way raises a profile, or is one of a new name.
Pending ==
  cpc \in {"cut", "write", "insert"} =>
    LET p == Last(cache)
    IN  p.name \in DOMAIN profiles =>
          /\ p.key = profiles[p.name].key
          /\ Extends(p.proofs, profiles[p.name].proofs)

ClientPart == Places /\ Files /\ Showing /\ Pending

\* What the server has stored is among the proofs that were reported.
Stored(db, b) ==
  \A k \in DOMAIN db : /\ k \in Keys
                       /\ db[k].level \in 1..Len(b[k])
                       /\ db[k].proof = b[k][db[k].level]

ServerPart ==
  /\ level \in ConfigLevels /\ ~panicked
  /\ \A a \in auth : /\ a.key \in Keys /\ a.proofs \in Seq(U256)
                     /\ Extends(best[a.key], a.proofs)
  /\ Stored(users, best) /\ Stored(synced, best)
  /\ \A k \in admitted : k \in Keys /\ LoadedLevel(level) <= Len(best[k])

IInv == ClientPart /\ ServerPart

-------------------------------------------------------------------------------
LEMMA IdentityInit == Init => IInv
<1> SUFFICES ASSUME Init PROVE IInv
  OBVIOUS
<1>1. /\ pfile = NoFile /\ cpc = "down" /\ profiles = None /\ cache = <<>> /\ drawn = {}
      /\ auth = {} /\ level \in ConfigLevels /\ users = None /\ synced = None /\ ~panicked
      /\ best = [k \in Keys |-> <<>>] /\ admitted = {}
  BY DEF Init
<1>2. \A k \in Keys : Valid(Uuid[k], best[k])
  BY <1>1 DEF Valid
<1>3. Places
  BY <1>1, <1>2 DEF Places, Good
<1>4. Files
  BY <1>1 DEF Files
<1>5. Showing
  BY <1>1 DEF Showing
<1>6. Pending
  BY <1>1 DEF Pending
<1>7. DOMAIN None = {}
  BY DEF None
<1>8. ServerPart
  BY <1>1, <1>7 DEF ServerPart, Stored
<1> QED
  BY <1>3, <1>4, <1>5, <1>6, <1>8 DEF IInv, ClientPart

LEMMA LevelsAreSmall ==
  ASSUME NEW lvl \in ConfigLevels
  PROVE  lvl \in 0..255 /\ LoadedLevel(lvl) \in 1..255 /\ LoadedLevel(lvl) \in Nat
<1>1. lvl \in 0..255
  BY IdentityAssumption
<1>2. LoadedLevel(lvl) \in 1..255
  BY <1>1 DEF LoadedLevel
<1>3. \A n \in 1..255 : n \in Nat
  OBVIOUS
<1> QED
  BY <1>1, <1>2, <1>3

\* A list is not one of the two marks.
LEMMA ListsAreReadable ==
  ASSUME NEW d, NEW L \in Seq(Entries(d))
  PROVE  L \notin {NoFile, Torn}
<1> DEFINE R == [name : Names, key : Keys, proofs : Seq(U256)]
<1>1. Entries(d) \subseteq R
  BY DEF Entries
<1>2. \A M \in {NoFile, Torn} : M \notin Seq(R)
  BY IdentityAssumption
<1> HIDE DEF R
<1>3. L \in Seq(R)
  BY <1>1
<1> QED
  BY <1>2, <1>3

-------------------------------------------------------------------------------
(* The server keeps its part while the proofs only get longer.                 *)

LEMMA StoredGrows ==
  ASSUME NEW db, NEW b, NEW c, Stored(db, b),
         \A k \in Keys : b[k] \in Seq(U256) /\ c[k] \in Seq(U256) /\ Extends(c[k], b[k])
  PROVE  Stored(db, c)
<1> SUFFICES ASSUME NEW k \in DOMAIN db
             PROVE  k \in Keys /\ db[k].level \in 1..Len(c[k]) /\ db[k].proof = c[k][db[k].level]
  BY DEF Stored
<1>1. k \in Keys /\ db[k].level \in 1..Len(b[k]) /\ db[k].proof = b[k][db[k].level]
  BY DEF Stored
<1>2. Len(b[k]) \in Nat /\ Len(c[k]) \in Nat /\ Len(b[k]) <= Len(c[k])
      /\ \A i \in 1..Len(b[k]) : c[k][i] = b[k][i]
  BY <1>1 DEF Extends
<1> QED
  BY <1>1, <1>2

LEMMA ServerGrows ==
  ASSUME IInv, UNCHANGED <<server, admitted>>, Good(drawn', best'),
         \A k \in Keys : Extends(best'[k], best[k]),
         \A a \in auth' \ auth : /\ a.key \in Keys /\ a.proofs \in Seq(U256)
                                 /\ Extends(best'[a.key], a.proofs)
  PROVE  ServerPart'
<1>1. /\ ServerPart /\ level' = level /\ panicked' = panicked /\ users' = users
      /\ synced' = synced /\ admitted' = admitted
  BY DEF IInv, server
<1>2. \A k \in Keys : best[k] \in Seq(U256)
  BY DEF IInv, ClientPart, Places, Good, Valid
<1>3. \A k \in Keys : best'[k] \in Seq(U256)
  BY DEF Good, Valid
<1>4. Stored(users', best') /\ Stored(synced', best')
  BY <1>1, <1>2, <1>3, StoredGrows DEF ServerPart
<1>5. ASSUME NEW a \in auth'
      PROVE  a.key \in Keys /\ a.proofs \in Seq(U256) /\ Extends(best'[a.key], a.proofs)
  <2>1. CASE a \in auth
    <3>1. a.key \in Keys /\ a.proofs \in Seq(U256) /\ Extends(best[a.key], a.proofs)
      BY <2>1, <1>1 DEF ServerPart
    <3> QED
      BY <3>1, <1>2, <1>3, ExtendsMore
  <2> QED
    BY <2>1
<1>6. ASSUME NEW k \in admitted PROVE k \in Keys /\ LoadedLevel(level) <= Len(best'[k])
  <2>1. k \in Keys /\ LoadedLevel(level) <= Len(best[k]) /\ LoadedLevel(level) \in Nat
    BY <1>1, LevelsAreSmall DEF ServerPart
  <2>2. Len(best[k]) <= Len(best'[k]) /\ Len(best[k]) \in Nat /\ Len(best'[k]) \in Nat
    BY <2>1, <1>2, <1>3 DEF Extends
  <2> QED
    BY <2>1, <2>2, AtMost
<1> QED
  BY <1>1, <1>4, <1>5, <1>6 DEF ServerPart

\* A step of the client that reports nothing and sends nothing.
LEMMA ServerStays ==
  ASSUME IInv, UNCHANGED <<auth, server, best, admitted>>
  PROVE  ServerPart'
BY DEF IInv, ServerPart, Stored, server

-------------------------------------------------------------------------------
(* The client.                                                                 *)

\* What DbProfile::new makes.
LEMMA NewProfileIsEntry ==
  ASSUME IInv, Keys # drawn, NEW name \in Names, NEW p \in NewProfile(name)
  PROVE  /\ p.name = name /\ p.key \notin drawn /\ drawn \cup {p.key} \subseteq Keys
         /\ p \in Entries(drawn \cup {p.key})
<1>1. drawn \subseteq Keys
  BY DEF IInv, ClientPart, Places, Good
<1> DEFINE k == CHOOSE l \in Keys \ drawn : TRUE
<1>2. k \in Keys \ drawn
  BY <1>1
<1>3. PICK ps \in generate_token_num(DEFAULT_SECURITY_LEVEL, Uuid[k], <<>>) :
        p = [name |-> name, key |-> k, proofs |-> ps]
  BY DEF NewProfile
<1> HIDE DEF k
<1>4. DEFAULT_SECURITY_LEVEL \in 0..255
  BY IdentityAssumption
<1>5. Valid(Uuid[k], <<>>)
  BY DEF Valid
<1>6. Valid(Uuid[k], ps) /\ DEFAULT_SECURITY_LEVEL <= Len(ps)
  BY <1>3, <1>4, <1>5, SearchExtends
<1>7. ps \in Seq(U256)
  BY <1>6 DEF Valid
<1>8. p.name = name /\ p.key = k /\ p.proofs = ps
      /\ p \in [name : Names, key : Keys, proofs : Seq(U256)]
  BY <1>2, <1>3, <1>7
<1> QED
  BY <1>1, <1>2, <1>6, <1>8 DEF Entries

LEMMA ClientStartKeeps == ASSUME IInv, ClientStart PROVE IInv'
<1>1. Places /\ Files /\ Showing /\ ServerPart
  BY DEF IInv, ClientPart
<1>2. cpc = "down" /\ UNCHANGED <<auth, server, admitted>>
  BY DEF ClientStart
<1>3. Good(drawn, best)
  BY <1>1 DEF Places
<1>a. CASE /\ pfile = NoFile /\ Keys # drawn
           /\ \E p \in NewProfile("default") : drawn' = drawn \cup {p.key} /\ cache' = <<p>>
           /\ pfile' = Torn /\ cpc' = "fill" /\ UNCHANGED <<profiles, best>>
  <2>1. PICK p \in NewProfile("default") : drawn' = drawn \cup {p.key} /\ cache' = <<p>>
    BY <1>a
  <2>2. drawn' \subseteq Keys /\ p \in Entries(drawn')
    <3>1. "default" \in Names
      BY IdentityAssumption
    <3> QED
      BY <2>1, <3>1, <1>a, NewProfileIsEntry
  <2>3. Good(drawn', best')
    BY <1>3, <1>a, <2>1, <2>2 DEF Good
  <2>4. \A k \in Keys : best'[k] = <<>>
    BY <1>1, <1>a DEF Places
  <2>5. GoodList(cache', drawn', best')
    <3>1. cache' \in Seq(Entries(drawn')) /\ cache' # <<>> /\ DOMAIN cache' = {1}
      BY <2>1, <2>2
    <3>2. OneName(cache')
      BY <3>1 DEF OneName
    <3>3. Keeps(cache', best')
      BY <2>4 DEF Keeps
    <3> QED
      BY <3>1, <3>2, <3>3 DEF GoodList
  <2>6. Places'
    BY <1>a, <2>3, <2>4 DEF Places
  <2>7. Files'
    BY <1>a, <2>5 DEF Files
  <2>8. Showing' /\ Pending'
    BY <1>1, <1>2, <1>a DEF Showing, Pending
  <2>9. ServerPart'
    BY <1>2, <1>a, ServerStays
  <2> QED
    BY <2>6, <2>7, <2>8, <2>9 DEF IInv, ClientPart
<1>b. CASE /\ pfile \notin {NoFile, Torn}
           /\ cache' = pfile /\ profiles' = ByName(pfile)
           /\ best' = Reported(profiles')
           /\ cpc' = "up" /\ UNCHANGED <<pfile, drawn>>
  <2>1. GoodList(pfile, drawn, best)
    BY <1>1, <1>b DEF Files
  <2>2. /\ Shows(profiles', cache', best') /\ Good(drawn', best') /\ GoodList(cache', drawn', best')
        /\ \A k \in Keys : Extends(best'[k], best[k])
    BY <1>3, <1>b, <2>1, LoadedShows
  <2>3. Places'
    BY <1>b, <2>2 DEF Places
  <2>4. Files'
    BY <1>b, <2>2 DEF Files
  <2>5. Showing' /\ Pending'
    BY <1>b, <2>2 DEF Showing, Pending
  <2>6. ServerPart'
    BY <1>2, <2>2, ServerGrows
  <2> QED
    BY <2>3, <2>4, <2>5, <2>6 DEF IInv, ClientPart
<1> QED
  BY <1>a, <1>b DEF ClientStart

LEMMA FillKeeps == ASSUME IInv, Fill PROVE IInv'
<1>1. Places /\ Files /\ Showing /\ ServerPart
  BY DEF IInv, ClientPart
<1>2. /\ cpc = "fill" /\ pfile' = cache /\ profiles' = ByName(cache)
      /\ best' = Reported(profiles') /\ cpc' = "up"
      /\ UNCHANGED <<cache, drawn, auth, server, admitted>>
  BY DEF Fill
<1>3. Good(drawn, best) /\ GoodList(cache, drawn, best)
  BY <1>1, <1>2 DEF Places, Files
<1>4. /\ Shows(profiles', cache, best') /\ Good(drawn, best') /\ GoodList(cache, drawn, best')
      /\ \A k \in Keys : Extends(best'[k], best[k])
  BY <1>2, <1>3, LoadedShows
<1>5. pfile' \notin {NoFile, Torn}
  BY <1>2, <1>3, ListsAreReadable DEF GoodList
<1>6. Places'
  BY <1>2, <1>4, <1>5 DEF Places
<1>7. Files'
  BY <1>2, <1>3, <1>4 DEF Files
<1>8. Showing' /\ Pending'
  BY <1>2, <1>4 DEF Showing, Pending
<1>9. ServerPart'
  BY <1>2, <1>4, ServerGrows
<1> QED
  BY <1>6, <1>7, <1>8, <1>9 DEF IInv, ClientPart

\* The step that both commands end with.
LEMMA InsertKeeps ==
  ASSUME IInv, NEW p, InsertEntry(p), drawn \subseteq drawn', drawn' \subseteq Keys,
         p \in Entries(drawn'),
         \/ /\ p.name \in DOMAIN profiles /\ p.key = profiles[p.name].key
            /\ Extends(p.proofs, profiles[p.name].proofs)
         \/ p.name \notin DOMAIN profiles /\ p.key \notin drawn
  PROVE  IInv'
<1>1. Places /\ Files /\ Showing /\ ServerPart
  BY DEF IInv, ClientPart
<1>2. /\ cpc = "up" /\ cache' = Append(cache, p) /\ cpc' = "cut"
      /\ UNCHANGED <<profiles, best, pfile, auth, server, admitted>>
  BY DEF InsertEntry, Shown
<1>3. Good(drawn, best) /\ GoodList(cache, drawn, best) /\ Shows(profiles, cache, best)
  BY <1>1, <1>2 DEF Places, Files, Showing
<1>4. GoodList(cache', drawn', best) /\ Good(drawn', best) /\ Shows(profiles, cache', best)
  BY <1>2, <1>3, InsertedIsGood
<1>5. cache \in Seq(Entries(drawn))
  BY <1>3 DEF GoodList
<1>6. Last(cache') = p
  BY <1>2, <1>5 DEF Last
<1>7. pfile \notin {NoFile, Torn} => GoodList(pfile, drawn', best)
  <2>1. SUFFICES ASSUME pfile \notin {NoFile, Torn} PROVE GoodList(pfile, drawn', best)
    OBVIOUS
  <2>2. GoodList(pfile, drawn, best)
    BY <1>1, <2>1 DEF Files
  <2>3. Entries(drawn) \subseteq Entries(drawn')
    BY DEF Entries
  <2>4. pfile \in Seq(Entries(drawn'))
    BY <2>2, <2>3 DEF GoodList
  <2> QED
    BY <2>2, <2>4 DEF GoodList
<1>8. Places'
  BY <1>1, <1>2, <1>4 DEF Places
<1>9. Files'
  BY <1>2, <1>4, <1>6, <1>7 DEF Files
<1>10. Showing'
  BY <1>2, <1>4 DEF Showing
<1>11. Pending'
  BY <1>2, <1>6 DEF Pending
<1>12. ServerPart'
  BY <1>2, ServerStays
<1> QED
  BY <1>8, <1>9, <1>10, <1>11, <1>12 DEF IInv, ClientPart

LEMMA CreateKeeps == ASSUME IInv, NEW name \in Names, CreateProfile(name) PROVE IInv'
<1>1. name \notin DOMAIN profiles /\ Keys # drawn
  BY DEF CreateProfile
<1>2. PICK p \in NewProfile(name) : InsertEntry(p) /\ drawn' = drawn \cup {p.key}
  BY DEF CreateProfile
<1>3. /\ p.name = name /\ p.key \notin drawn /\ drawn \cup {p.key} \subseteq Keys
      /\ p \in Entries(drawn \cup {p.key})
  BY <1>1, NewProfileIsEntry
<1> QED
  BY <1>1, <1>2, <1>3, InsertKeeps

LEMMA BumpKeeps ==
  ASSUME IInv, NEW name \in Names, NEW req_lvl \in BumpLevels, Bump(name, req_lvl) PROVE IInv'
<1> DEFINE q == profiles[name]
<1>1. name \in DOMAIN profiles /\ drawn' = drawn
  BY DEF Bump
<1>2. PICK ps \in generate_token_num(req_lvl, Uuid[q.key], q.proofs) :
        InsertEntry([q EXCEPT !.proofs = ps])
  BY DEF Bump
<1>3. /\ cpc = "up" /\ Good(drawn, best) /\ GoodList(cache, drawn, best)
      /\ Shows(profiles, cache, best)
  BY <1>2 DEF InsertEntry, IInv, ClientPart, Places, Files, Showing
<1>4. PICK i \in DOMAIN cache : cache[i] = q
  BY <1>1, <1>3 DEF Shows
<1>5. q.name = name
  BY <1>1, <1>3 DEF Shows
<1>6. q \in Entries(drawn) /\ drawn \subseteq Keys
  BY <1>3, <1>4 DEF Good, GoodList
<1> HIDE DEF q
<1>7. /\ q.key \in Keys /\ q.key \in drawn /\ Valid(Uuid[q.key], q.proofs)
      /\ q \in [name : Names, key : Keys, proofs : Seq(U256)]
      /\ DEFAULT_SECURITY_LEVEL <= Len(q.proofs)
  BY <1>6 DEF Entries
<1>8. Valid(Uuid[q.key], ps) /\ Extends(ps, q.proofs)
  <2>1. req_lvl \in 0..255
    BY IdentityAssumption
  <2> QED
    BY <2>1, <1>2, <1>7, SearchExtends
<1>9. DEFAULT_SECURITY_LEVEL <= Len(ps)
  <2>1. Len(ps) \in Nat /\ Len(q.proofs) \in Nat
    BY <1>7, <1>8, ValidLength
  <2>2. Len(q.proofs) <= Len(ps)
    BY <1>8 DEF Extends
  <2>3. DEFAULT_SECURITY_LEVEL \in Nat
    BY IdentityAssumption
  <2> QED
    BY <2>1, <2>2, <2>3, <1>7
<1> DEFINE p == [q EXCEPT !.proofs = ps]
<1>10. /\ p.name = name /\ p.key = q.key /\ p.proofs = ps
       /\ p \in [name : Names, key : Keys, proofs : Seq(U256)]
  BY <1>5, <1>7, <1>8 DEF Valid
<1>11. InsertEntry(p)
  BY <1>2
<1> HIDE DEF p
<1>12. p \in Entries(drawn)
  BY <1>7, <1>8, <1>9, <1>10 DEF Entries
<1>13. /\ p.name \in DOMAIN profiles /\ p.key = profiles[p.name].key
       /\ Extends(p.proofs, profiles[p.name].proofs)
  BY <1>1, <1>8, <1>10 DEF q
<1> QED
  BY <1>1, <1>6, <1>11, <1>12, <1>13, InsertKeeps

LEMMA CutKeeps == ASSUME IInv, Cut PROVE IInv'
<1>1. Places /\ Files /\ Showing /\ Pending
  BY DEF IInv, ClientPart
<1>2. /\ cpc = "cut" /\ pfile' = Torn /\ cpc' = "write"
      /\ UNCHANGED <<profiles, cache, drawn, auth, server, best, admitted>>
  BY DEF Cut
<1>3. Torn # NoFile
  BY IdentityAssumption
<1>4. Places' /\ Files'
  BY <1>1, <1>2, <1>3 DEF Places, Files
<1>5. Showing' /\ Pending'
  BY <1>1, <1>2 DEF Showing, Pending
<1> QED
  BY <1>2, <1>4, <1>5, ServerStays DEF IInv, ClientPart

LEMMA WriteFileKeeps == ASSUME IInv, WriteFile PROVE IInv'
<1>1. Places /\ Files /\ Showing /\ Pending
  BY DEF IInv, ClientPart
<1>2. /\ cpc = "write" /\ pfile' = cache /\ cpc' = "insert"
      /\ UNCHANGED <<profiles, cache, drawn, auth, server, best, admitted>>
  BY DEF WriteFile
<1>3. GoodList(cache, drawn, best)
  BY <1>1, <1>2 DEF Files
<1>4. pfile' \notin {NoFile, Torn}
  BY <1>2, <1>3, ListsAreReadable DEF GoodList
<1>5. Places' /\ Files'
  BY <1>1, <1>2, <1>3, <1>4 DEF Places, Files
<1>6. Showing' /\ Pending'
  BY <1>1, <1>2 DEF Showing, Pending
<1> QED
  BY <1>2, <1>5, <1>6, ServerStays DEF IInv, ClientPart

LEMMA InsertProfileKeeps == ASSUME IInv, InsertProfile PROVE IInv'
<1>1. Places /\ Files /\ Showing /\ Pending
  BY DEF IInv, ClientPart
<1> DEFINE p == Last(cache)
<1>2. /\ cpc = "insert" /\ best' = Reported(profiles') /\ cpc' = "up"
      /\ profiles' = [n \in DOMAIN profiles \cup {p.name} |-> IF n = p.name THEN p ELSE profiles[n]]
      /\ UNCHANGED <<pfile, cache, drawn, auth, server, admitted>>
  BY DEF InsertProfile
<1>3. p.name \in DOMAIN profiles =>
        p.key = profiles[p.name].key /\ Extends(p.proofs, profiles[p.name].proofs)
  BY <1>1, <1>2 DEF Pending
<1>4. /\ Good(drawn, best) /\ GoodList(cache, drawn, best) /\ Shows(profiles, cache, best)
      /\ pfile = cache
  BY <1>1, <1>2 DEF Places, Files, Showing
<1>5. /\ DOMAIN profiles' = DOMAIN profiles \cup {p.name} /\ profiles'[p.name] = p
      /\ \A n \in DOMAIN profiles : n # p.name => profiles'[n] = profiles[n]
  BY <1>2
<1>6. /\ Shows(profiles', cache, best') /\ Good(drawn, best') /\ GoodList(cache, drawn, best')
      /\ \A k \in Keys : Extends(best'[k], best[k])
  <2>1. best' = Reported(profiles')
    BY <1>2
  <2>2. PICK q : q = Last(cache)
    OBVIOUS
  <2>3. /\ DOMAIN profiles' = DOMAIN profiles \cup {q.name} /\ profiles'[q.name] = q
        /\ \A n \in DOMAIN profiles : n # q.name => profiles'[n] = profiles[n]
        /\ q.name \in DOMAIN profiles =>
             q.key = profiles[q.name].key /\ Extends(q.proofs, profiles[q.name].proofs)
    BY <1>3, <1>5, <2>2
  <2> HIDE DEF p
  <2> QED
    BY <1>4, <2>1, <2>2, <2>3, LastIsShown, SMTT(20)
<1>7. pfile' \notin {NoFile, Torn}
  BY <1>2, <1>4, ListsAreReadable DEF GoodList
<1> HIDE DEF p
<1>8. Places'
  BY <1>2, <1>6, <1>7 DEF Places
<1>9. Files'
  BY <1>2, <1>4, <1>6 DEF Files
<1>10. Showing' /\ Pending'
  BY <1>2, <1>6 DEF Showing, Pending
<1>11. ServerPart'
  BY <1>2, <1>6, ServerGrows
<1> QED
  BY <1>8, <1>9, <1>10, <1>11 DEF IInv, ClientPart

LEMMA WriteFailsKeeps == ASSUME IInv, WriteFails PROVE IInv'
<1>1. Places /\ Files /\ Showing /\ Pending
  BY DEF IInv, ClientPart
<1>2. /\ cpc \in {"cut", "write"} /\ cpc' = "up"
      /\ UNCHANGED <<pfile, profiles, cache, drawn, auth, server, best, admitted>>
  BY DEF WriteFails
<1>3. Places' /\ Files' /\ Showing' /\ Pending'
  BY <1>1, <1>2 DEF Places, Files, Showing, Pending
<1> QED
  BY <1>2, <1>3, ServerStays DEF IInv, ClientPart

LEMMA ClientCrashKeeps == ASSUME IInv, ClientCrash PROVE IInv'
<1>1. Places /\ Files /\ Showing /\ Pending
  BY DEF IInv, ClientPart
<1>2. /\ cpc' = "down" /\ profiles' = None /\ cache' = <<>>
      /\ UNCHANGED <<pfile, drawn, auth, server, best, admitted>>
  BY DEF ClientCrash
<1>3. Places' /\ Files' /\ Showing' /\ Pending'
  BY <1>1, <1>2 DEF Places, Files, Showing, Pending
<1> QED
  BY <1>2, <1>3, ServerStays DEF IInv, ClientPart

\* The client is as it was.
LEMMA ClientStays ==
  ASSUME IInv, UNCHANGED <<client, best>>
  PROVE  ClientPart'
<1>1. /\ pfile' = pfile /\ cpc' = cpc /\ profiles' = profiles /\ cache' = cache
      /\ drawn' = drawn /\ best' = best
  BY DEF client
<1> QED
  BY <1>1 DEF IInv, ClientPart, Places, Files, Showing, Pending

LEMMA ConnectKeeps == ASSUME IInv, NEW name \in Names, Connect(name) PROVE IInv'
<1>1. /\ cpc \notin {"down", "fill"} /\ name \in DOMAIN profiles
      /\ auth' = auth \cup {[key |-> profiles[name].key, proofs |-> profiles[name].proofs]}
      /\ UNCHANGED <<client, server, best, admitted>>
  BY DEF Connect
<1>2. Good(drawn, best) /\ GoodList(cache, drawn, best) /\ Shows(profiles, cache, best)
  BY <1>1 DEF IInv, ClientPart, Places, Files, Showing
<1>3. PICK i \in DOMAIN cache : cache[i] = profiles[name]
  BY <1>1, <1>2 DEF Shows
<1>4. profiles[name].key \in Keys /\ profiles[name].proofs \in Seq(U256)
  BY <1>2, <1>3, EntryFacts DEF GoodList
<1>5. best[profiles[name].key] = profiles[name].proofs
  BY <1>1, <1>2 DEF Shows
<1>6. Extends(best[profiles[name].key], profiles[name].proofs)
  BY <1>4, <1>5, ExtendsItself
<1>7. \A k \in Keys : Extends(best[k], best[k])
  BY <1>2, ExtendsItself DEF Good, Valid
<1>8. best' = best /\ drawn' = drawn
  BY <1>1 DEF client
<1>9. ServerPart'
  BY <1>1, <1>2, <1>4, <1>6, <1>7, <1>8, ServerGrows
<1> QED
  BY <1>1, <1>9, ClientStays DEF IInv

LEMMA ConnectWithoutKeeps == ASSUME IInv, NEW k \in Keys, ConnectWithout(k) PROVE IInv'
<1>1. /\ auth' = auth \cup {[key |-> k, proofs |-> <<>>]}
      /\ UNCHANGED <<client, server, best, admitted>>
  BY DEF ConnectWithout
<1>2. Good(drawn, best)
  BY DEF IInv, ClientPart, Places
<1>3. \A l \in Keys : best[l] \in Seq(U256)
  BY <1>2 DEF Good, Valid
<1>4. \A l \in Keys : Extends(best[l], best[l])
  BY <1>3, ExtendsItself
<1>5. Extends(best[k], <<>>)
  BY <1>3, ExtendsNothing
<1>6. best' = best /\ drawn' = drawn
  BY <1>1 DEF client
<1>7. ServerPart'
  <2>1. ASSUME NEW a \in auth' \ auth
        PROVE  a.key \in Keys /\ a.proofs \in Seq(U256) /\ Extends(best'[a.key], a.proofs)
    <3>1. a = [key |-> k, proofs |-> <<>>]
      BY <1>1
    <3>2. a.key = k /\ a.proofs = <<>>
      BY <3>1
    <3> QED
      BY <3>2, <1>5, <1>6
  <2> QED
    BY <2>1, <1>1, <1>2, <1>4, <1>6, ServerGrows
<1> QED
  BY <1>1, <1>7, ClientStays DEF IInv

-------------------------------------------------------------------------------
(* The server.                                                                 *)

LEMMA ServerStartKeeps == ASSUME IInv, ServerStart PROVE IInv'
<1>1. UNCHANGED <<client, auth, level, users, synced, panicked, best, admitted>>
  BY DEF ServerStart
<1>2. ServerPart'
  BY <1>1 DEF IInv, ServerPart
<1> QED
  BY <1>1, <1>2, ClientStays DEF IInv

LEMMA SyncKeeps == ASSUME IInv, Sync PROVE IInv'
<1>1. synced' = users /\ UNCHANGED <<client, auth, level, users, panicked, best, admitted>>
  BY DEF Sync
<1>2. ServerPart'
  BY <1>1 DEF IInv, ServerPart
<1> QED
  BY <1>1, <1>2, ClientStays DEF IInv

LEMMA ServerCrashKeeps == ASSUME IInv, ServerCrash PROVE IInv'
<1>1. users' = synced /\ UNCHANGED <<client, auth, level, synced, panicked, best, admitted>>
  BY DEF ServerCrash
<1>2. ServerPart'
  BY <1>1 DEF IInv, ServerPart
<1> QED
  BY <1>1, <1>2, ClientStays DEF IInv

LEMMA RefuseKeeps == ASSUME IInv, NEW a \in auth, Refuse(a) PROVE IInv'
<1>1. auth' = auth \ {a} /\ UNCHANGED <<client, server, best, admitted>>
  BY DEF Refuse
<1>2. ServerPart'
  BY <1>1 DEF IInv, ServerPart, server
<1> QED
  BY <1>1, <1>2, ClientStays DEF IInv

\* Who is not refused has sent as many proofs as its level says, and at least one.
LEMMA AdmittedHasProofs ==
  ASSUME IInv, NEW a \in auth, ~Refused(a)
  PROVE  /\ a.key \in Keys /\ a.proofs \in Seq(U256)
         /\ Level(a) = Len(a.proofs) /\ LoadedLevel(level) <= Len(a.proofs)
         /\ Len(a.proofs) \in 1..Len(best[a.key])
         /\ Last(a.proofs) = best[a.key][Len(a.proofs)]
<1>1. /\ level \in ConfigLevels /\ a.key \in Keys /\ a.proofs \in Seq(U256)
      /\ Extends(best[a.key], a.proofs)
  BY DEF IInv, ServerPart
<1>2. Valid(Uuid[a.key], best[a.key])
  BY <1>1 DEF IInv, ClientPart, Places, Good
<1> DEFINE n == Len(a.proofs)
           b == Len(best[a.key])
<1>3. n \in Nat /\ b \in 0..255
  BY <1>1, <1>2, ValidLength
<1>4. n <= b /\ \A i \in 1..n : best[a.key][i] = a.proofs[i]
  BY <1>1 DEF Extends
<1> HIDE DEF n, b
<1>5. n \in 0..255
  BY <1>3, <1>4
<1>6. Level(a) # Invalid /\ ~(LoadedLevel(level) > Level(a))
  BY DEF Refused
<1>7. Level(a) = n
  <2>1. Level(a) = n % 256
    BY <1>6 DEF Level, verified_security_level, n
  <2> QED
    BY <2>1, <1>5, SmallIsKept
<1>8. LoadedLevel(level) \in 1..255
  BY <1>1, LevelsAreSmall
<1>9. LoadedLevel(level) <= n /\ n \in 1..b
  BY <1>3, <1>4, <1>5, <1>6, <1>7, <1>8
<1>10. Last(a.proofs) = best[a.key][n]
  BY <1>4, <1>9 DEF Last, n
<1> QED
  BY <1>1, <1>7, <1>9, <1>10 DEF n, b

LEMMA AdmitKeeps == ASSUME IInv, NEW a \in auth, Admit(a) PROVE IInv'
<1> DEFINE k == a.key
           entry == [proof |-> Last(a.proofs), level |-> StoredLevel(a)]
<1>1. /\ ~Refused(a) /\ auth' = auth \ {a}
      /\ panicked' = (k \notin DOMAIN users /\ a.proofs = <<>>)
      /\ users' = IF k \in DOMAIN users \/ a.proofs = <<>> THEN users
                  ELSE [l \in DOMAIN users \cup {k} |-> IF l = k THEN entry ELSE users[l]]
      /\ admitted' = admitted \cup {k}
      /\ UNCHANGED <<client, level, synced, best>>
  BY DEF Admit
<1>2. /\ k \in Keys /\ a.proofs \in Seq(U256)
      /\ Level(a) = Len(a.proofs) /\ LoadedLevel(level) <= Len(a.proofs)
      /\ Len(a.proofs) \in 1..Len(best[k])
      /\ Last(a.proofs) = best[k][Len(a.proofs)]
  BY <1>1, AdmittedHasProofs
<1>3. a.proofs # <<>> /\ ~panicked'
  <2>1. a.proofs # <<>>
    BY <1>2
  <2> QED
    BY <2>1, <1>1
<1>4. ServerPart
  BY DEF IInv
<1>5. Stored(users', best)
  <2>1. CASE k \in DOMAIN users
    BY <1>1, <1>4, <2>1 DEF ServerPart
  <2>2. CASE k \notin DOMAIN users
    <3>1. /\ DOMAIN users' = DOMAIN users \cup {k} /\ users'[k] = entry
          /\ \A l \in DOMAIN users : users'[l] = users[l]
      BY <1>1, <1>3, <2>2
    <3>2. entry.level = Len(a.proofs) /\ entry.proof = Last(a.proofs)
      BY <1>2 DEF StoredLevel
    <3> HIDE DEF entry
    <3>3. \A l \in DOMAIN users : /\ l \in Keys /\ users[l].level \in 1..Len(best[l])
                                  /\ users[l].proof = best[l][users[l].level]
      BY <1>4 DEF ServerPart, Stored
    <3>4. ASSUME NEW l \in DOMAIN users'
          PROVE  /\ l \in Keys /\ users'[l].level \in 1..Len(best[l])
                 /\ users'[l].proof = best[l][users'[l].level]
      <4>1. CASE l = k
        BY <4>1, <3>1, <3>2, <1>2
      <4>2. CASE l # k
        BY <4>2, <3>1, <3>3
      <4> QED
        BY <4>1, <4>2
    <3> QED
      BY <3>4 DEF Stored
  <2> QED
    BY <2>1, <2>2
<1>6. \A l \in admitted' : l \in Keys /\ LoadedLevel(level) <= Len(best[l])
  <2>1. \A l \in admitted : l \in Keys /\ LoadedLevel(level) <= Len(best[l])
    BY <1>4 DEF ServerPart
  <2>2. LoadedLevel(level) <= Len(best[k])
    <3>1. LoadedLevel(level) \in 1..255
      BY <1>4, LevelsAreSmall DEF ServerPart
    <3>2. Len(a.proofs) \in Nat /\ Len(best[k]) \in Nat /\ Len(a.proofs) <= Len(best[k])
      <4>1. best[k] \in Seq(U256)
        BY <1>2 DEF IInv, ClientPart, Places, Good, Valid
      <4> QED
        BY <4>1, <1>2
    <3>3. LoadedLevel(level) \in Nat
      BY <3>1
    <3> QED
      BY <3>2, <3>3, <1>2, AtMost
  <2> QED
    BY <2>1, <2>2, <1>1, <1>2
<1>7. ServerPart'
  BY <1>1, <1>3, <1>4, <1>5, <1>6 DEF ServerPart
<1> QED
  BY <1>1, <1>7, ClientStays DEF IInv

-------------------------------------------------------------------------------
LEMMA IdentityStep == IInv /\ [Next]_vars => IInv'
<1> SUFFICES ASSUME IInv, [Next]_vars PROVE IInv'
  OBVIOUS
<1>1. CASE UNCHANGED vars
  <2>1. UNCHANGED <<client, auth, server, best, admitted>>
    BY <1>1 DEF vars
  <2> QED
    BY <2>1, ClientStays, ServerStays DEF IInv
<1>2. CASE ClientStart
  BY <1>2, ClientStartKeeps
<1>3. CASE Fill
  BY <1>3, FillKeeps
<1>4. CASE Cut
  BY <1>4, CutKeeps
<1>5. CASE WriteFile
  BY <1>5, WriteFileKeeps
<1>6. CASE InsertProfile
  BY <1>6, InsertProfileKeeps
<1>7. CASE WriteFails
  BY <1>7, WriteFailsKeeps
<1>8. CASE ClientCrash
  BY <1>8, ClientCrashKeeps
<1>9. ASSUME NEW n \in Names, CreateProfile(n) PROVE IInv'
  BY <1>9, CreateKeeps
<1>10. ASSUME NEW n \in Names, Connect(n) PROVE IInv'
  BY <1>10, ConnectKeeps
<1>11. ASSUME NEW n \in Names, NEW l \in BumpLevels, Bump(n, l) PROVE IInv'
  BY <1>11, BumpKeeps
<1>12. ASSUME NEW k \in Keys, ConnectWithout(k) PROVE IInv'
  BY <1>12, ConnectWithoutKeeps
<1>13. CASE ServerStart
  BY <1>13, ServerStartKeeps
<1>14. CASE Sync
  BY <1>14, SyncKeeps
<1>15. CASE ServerCrash
  BY <1>15, ServerCrashKeeps
<1>16. ASSUME NEW a \in auth, Refuse(a) PROVE IInv'
  BY <1>16, RefuseKeeps
<1>17. ASSUME NEW a \in auth, Admit(a) PROVE IInv'
  BY <1>17, AdmitKeeps
<1> QED
  BY <1>1, <1>2, <1>3, <1>4, <1>5, <1>6, <1>7, <1>8, <1>9, <1>10, <1>11, <1>12, <1>13,
     <1>14, <1>15, <1>16, <1>17 DEF Next

\* The invariant holds in every state.
THEOREM IdentityCorrect == Spec => []IInv
BY IdentityInit, IdentityStep, PTL DEF Spec

-------------------------------------------------------------------------------
LEMMA ListHolds ==
  ASSUME NEW L, NEW d, NEW b, GoodList(L, d, b), NEW p \in Range(L)
  PROVE  Level(p) = Len(p.proofs) /\ Level(p) >= DEFAULT_SECURITY_LEVEL
<1>1. L \in Seq(Entries(d))
  BY DEF GoodList
<1>2. PICK i \in DOMAIN L : p = L[i]
  BY DEF Range
<1>3. p \in Entries(d)
  BY <1>1, <1>2
<1>4. Valid(Uuid[p.key], p.proofs) /\ DEFAULT_SECURITY_LEVEL <= Len(p.proofs)
  BY <1>3, EntryFacts
<1>5. Level(p) = Len(p.proofs)
  BY <1>4, CountedInFull DEF Level
<1>6. Len(p.proofs) \in Nat
  BY <1>4, ValidLength
<1>7. DEFAULT_SECURITY_LEVEL \in Nat
  BY IdentityAssumption
<1> QED
  BY <1>4, <1>5, <1>6, <1>7

\* security_level.rs:55: every entry of the client's cache and file, however it was made,
\* raised, saved and loaded again, counts in full on the server, for any hash.
THEOREM ProofsAlwaysHold == Spec => []ProofsHold
<1>1. IInv => ProofsHold
  <2>1. SUFFICES ASSUME IInv,
                        NEW p \in Range(cache) \cup (IF pfile \in {NoFile, Torn} THEN {} ELSE Range(pfile))
                 PROVE  Level(p) = Len(p.proofs) /\ Level(p) >= DEFAULT_SECURITY_LEVEL
    BY DEF ProofsHold
  <2>2. Files
    BY <2>1 DEF IInv, ClientPart
  <2>3. CASE p \in Range(cache)
    <3>1. cpc # "down"
      BY <2>2, <2>3 DEF Files, Range
    <3> QED
      BY <3>1, <2>2, <2>3, ListHolds DEF Files
  <2>4. CASE pfile \notin {NoFile, Torn} /\ p \in Range(pfile)
    BY <2>2, <2>4, ListHolds DEF Files
  <2> QED
    BY <2>1, <2>3, <2>4
<1> QED
  BY <1>1, IdentityCorrect, PTL

\* profile_db.rs:60: in every run of the client a profile that was shown in any run so
\* far is shown again, with proofs that go on from the most it ever had.
THEOREM ProfilesAreKept == Spec => []ProfilesKept
<1>1. IInv => ProfilesKept
  <2>1. SUFFICES ASSUME IInv, cpc = "up", NEW k \in Keys, best[k] # <<>>
                 PROVE  \E n \in DOMAIN profiles :
                          profiles[n].key = k /\ IsPrefix(best[k], profiles[n].proofs)
    BY DEF ProfilesKept
  <2>2. Shows(profiles, cache, best)
    BY <2>1 DEF IInv, ClientPart, Showing
  <2>3. PICK n \in DOMAIN profiles : profiles[n].key = k
    BY <2>1, <2>2 DEF Shows
  <2>4. best[k] = profiles[n].proofs
    BY <2>2, <2>3 DEF Shows
  <2>5. best[k] \in Seq(U256)
    BY <2>1 DEF IInv, ClientPart, Places, Good, Valid
  <2>6. IsPrefix(best[k], best[k])
    BY <2>5 DEF IsPrefix
  <2> QED
    BY <2>3, <2>4, <2>6
<1> QED
  BY <1>1, IdentityCorrect, PTL

\* main.rs:425: the level of a profile whose key was let in never falls below what the
\* server asks for.
THEOREM WelcomedAgain == Spec => []WelcomeAgain
<1>1. IInv => WelcomeAgain
  <2>1. SUFFICES ASSUME IInv, NEW n \in DOMAIN profiles, profiles[n].key \in admitted
                 PROVE  Level(profiles[n]) >= LoadedLevel(level)
    BY DEF WelcomeAgain
  <2> DEFINE k == profiles[n].key
  <2>2. k \in Keys /\ LoadedLevel(level) <= Len(best[k]) /\ level \in ConfigLevels
    BY <2>1 DEF IInv, ServerPart
  <2>3. Valid(Uuid[k], best[k])
    BY <2>1, <2>2 DEF IInv, ClientPart, Places, Good
  <2>4. cpc \notin {"down", "fill"}
    BY <2>1 DEF IInv, ClientPart, Showing, None
  <2>5. best[k] = profiles[n].proofs
    BY <2>1, <2>4 DEF IInv, ClientPart, Showing, Shows
  <2>6. Level(profiles[n]) = Len(best[k])
    BY <2>3, <2>5, CountedInFull DEF Level
  <2>7. Len(best[k]) \in Nat /\ LoadedLevel(level) \in Nat
    <3>1. best[k] \in Seq(U256)
      BY <2>3 DEF Valid
    <3> QED
      BY <3>1, <2>2, LevelsAreSmall
  <2> HIDE DEF k
  <2> QED
    BY <2>2, <2>6, <2>7
<1> QED
  BY <1>1, IdentityCorrect, PTL

\* user_db.rs:46: what is stored of a user, before and after a crash, is the proof at the
\* stored level among those that its client had reported.
THEOREM StoredAlwaysProven == Spec => []StoredIsProven
<1>1. IInv => StoredIsProven
  <2>1. SUFFICES ASSUME IInv, NEW k \in DOMAIN users
                 PROVE  users[k].level <= Len(best[k]) /\ users[k].proof = best[k][users[k].level]
    BY DEF StoredIsProven
  <2>2. k \in Keys /\ users[k].level \in 1..Len(best[k]) /\ users[k].proof = best[k][users[k].level]
    BY <2>1 DEF IInv, ServerPart, Stored
  <2>3. Len(best[k]) \in Nat
    <3>1. best[k] \in Seq(U256)
      BY <2>1, <2>2 DEF IInv, ClientPart, Places, Good, Valid
    <3> QED
      BY <3>1
  <2> QED
    BY <2>2, <2>3
<1> QED
  BY <1>1, IdentityCorrect, PTL

\* main.rs:466: the acceptor never unwraps the last of no proofs: the required level is
\* at least 1 once the configuration is loaded.
THEOREM AcceptorNeverPanics == Spec => []NeverPanics
<1>1. IInv => NeverPanics
  BY DEF IInv, ServerPart, NeverPanics
<1> QED
  BY <1>1, IdentityCorrect, PTL
===============================================================================
