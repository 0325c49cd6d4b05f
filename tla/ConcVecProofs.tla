---------------------------- MODULE ConcVecProofs ----------------------------
(***************************************************************************)
(* Theorems about ConcVec, for any number of threads, calls and elements:  *)
(* the packed word counts exactly who is inside, whoever is inside         *)
(* excludes whom it has to, and until the first edit no element is lost,   *)
(* none comes out twice, and the length says how many there are.           *)
(***************************************************************************)
EXTENDS ConcVec, FiniteSetTheorems, TLAPS

\* What a thread is doing, by where it stands.
PlaceInv ==
  /\ op \in [Threads -> Ops \cup {"none"}]
  /\ pc \in [Threads -> {"idle", "look", "cas", "clear", "leave", "popFar", "claim", "room",
                         "first", "drain", "grow", "load", "write", "count", "pushFar",
                         "take", "undo", "read", "uncount", "next", "enlarge", "shift",
                         "resize", "unlock", "panicked"}]
  /\ \A t \in Threads :
       /\ pc[t] = "idle" <=> op[t] = "none"
       /\ pc[t] \in {"look", "cas"} => op[t] \in {"push", "pop", "iter"}
       /\ pc[t] \in {"leave", "clear"} => op[t] \in {"push", "pop"}
       /\ Pushing(t) => op[t] = "push"
       /\ Popping(t) => op[t] = "pop"
       /\ Iterating(t) => op[t] = "iter"
       /\ Editing(t) => op[t] \in {"remove", "insert"}

\* The word a thread has read lets it do what it is about to do.
SeenInv ==
  /\ guard \in Words /\ seen \in [Threads -> Words] /\ leaks \in Nat
  /\ \A t \in Threads :
       /\ pc[t] = "cas" => ~Blocked(seen[t], op[t])
       /\ pc[t] = "clear" => MustClear(seen[t], op[t])

\* Whoever is inside has its flag, and the flags exclude each other.
FlagInv ==
  /\ ~(guard.POP /\ (guard.PUSH \/ guard.LOCK))
  /\ \A t \in Threads :
       /\ Pushing(t) => guard.PUSH /\ ~guard.LOCK
       /\ Iterating(t) => guard.PUSH
       /\ Popping(t) => guard.POP
       /\ Editing(t) => guard.LOCK
  /\ \A t, u \in Threads : Editing(t) /\ Editing(u) => t = u

WordInv == PlaceInv /\ SeenInv /\ FlagInv /\ WordCounts

-----------------------------------------------------------------------------
(* The parts of the definitions.                                           *)

LEMMA Gates ==
  ASSUME NEW g
  PROVE  /\ Flagged(g, "push") <=> g.PUSH /\ ~g.LOCK
         /\ Flagged(g, "iter") <=> g.PUSH
         /\ Flagged(g, "pop") <=> g.POP
         /\ Blocked(g, "push") <=> g.POP \/ g.LOCK
         /\ Blocked(g, "iter") <=> g.POP
         /\ Blocked(g, "pop") <=> g.PUSH \/ g.LOCK
         /\ First("push") = "popFar" /\ First("pop") = "pushFar" /\ First("iter") = "next"
BY DEF Flagged, Blocked, First

LEMMA FreeWord == Free \in Words
BY DEF Free, Words

\* Counting a call changes its counter and nothing else.
LEMMA CountWord ==
  ASSUME NEW g \in Words, NEW n \in Int, NEW o \in {"push", "pop", "iter"},
         IF o = "pop" THEN g.pop + n >= 0 ELSE g.push + n >= 0
  PROVE  /\ Count(g, o, n) \in Words
         /\ Count(g, o, n).push = (IF o = "pop" THEN g.push ELSE g.push + n)
         /\ Count(g, o, n).pop = (IF o = "pop" THEN g.pop + n ELSE g.pop)
         /\ Count(g, o, n).PUSH = g.PUSH /\ Count(g, o, n).POP = g.POP
         /\ Count(g, o, n).LOCK = g.LOCK
<1>1. CASE o = "pop"
  BY <1>1 DEF Count, Counter, Words
<1>2. CASE o # "pop"
  BY <1>2 DEF Count, Counter, Words
<1> QED
  BY <1>1, <1>2

LEMMA SetWord ==
  ASSUME NEW g \in Words, NEW o \in {"push", "pop", "iter"}
  PROVE  /\ SetFlag(g, o) \in Words
         /\ SetFlag(g, o).push = g.push /\ SetFlag(g, o).pop = g.pop
         /\ SetFlag(g, o).PUSH = (IF o = "pop" THEN g.PUSH ELSE TRUE)
         /\ SetFlag(g, o).POP = (IF o = "pop" THEN TRUE ELSE g.POP)
         /\ SetFlag(g, o).LOCK = g.LOCK
BY DEF SetFlag, Words

\* A state of the calls: idle, on the way in or out, inside.
Outside == {"idle", "look", "cas", "leave", "clear"}

LEMMA OutsideFacts ==
  ASSUME NEW t, pc[t] \in Outside
  PROVE  ~Pushing(t) /\ ~Popping(t) /\ ~Iterating(t) /\ ~Editing(t)
BY DEF Outside, Pushing, Popping, Iterating, Editing

-----------------------------------------------------------------------------
(* The calls that are counted.                                             *)

LEMMA GoingFinite ==
  ASSUME NEW os
  PROVE  /\ IsFiniteSet(Going(os)) /\ Cardinality(Going(os)) \in Nat
         /\ \A t \in Going(os) : Cardinality(Going(os)) >= 1
<1>1. IsFiniteSet(Going(os))
  <2>1. Going(os) \subseteq Threads
    BY DEF Going
  <2> QED
    BY <2>1, VecAssumption, FS_Subset
<1>2. Cardinality(Going(os)) \in Nat
  BY <1>1, FS_CardinalityType
<1>3. ASSUME NEW t \in Going(os) PROVE Cardinality(Going(os)) >= 1
  <2>1. Going(os) # {}
    BY <1>3
  <2>2. Cardinality(Going(os)) # 0
    BY <1>1, <2>1, FS_EmptySet
  <2> QED
    BY <1>2, <2>2
<1> QED
  BY <1>1, <1>2, <1>3

\* A thread that begins to count.
LEMMA GoingMore ==
  ASSUME NEW os, NEW t \in Threads, t \notin Going(os),
         Going(os)' = Going(os) \cup {t}
  PROVE  Cardinality(Going(os)') = Cardinality(Going(os)) + 1
BY GoingFinite, FS_AddElement

LEMMA GoingLess ==
  ASSUME NEW os, NEW t \in Threads, t \in Going(os),
         Going(os)' = Going(os) \ {t}
  PROVE  Cardinality(Going(os)') = Cardinality(Going(os)) - 1
BY GoingFinite, FS_RemoveElement

-----------------------------------------------------------------------------
(* Steps inside: the word stays.                                           *)

PushPlaces == {"popFar", "claim", "room", "first", "drain", "grow", "load", "write", "count"}
PopPlaces == {"pushFar", "take", "undo", "read", "uncount"}
EditPlaces == {"enlarge", "shift", "resize", "unlock", "panicked"}

LEMMA MoveInv ==
  ASSUME WordInv, NEW t \in Threads, NEW s, pc' = [pc EXCEPT ![t] = s],
         \/ pc[t] \in PushPlaces /\ s \in PushPlaces \cup {"leave"}
         \/ pc[t] \in PopPlaces /\ s \in PopPlaces \cup {"leave"}
         \/ pc[t] \in EditPlaces /\ s \in EditPlaces,
         UNCHANGED <<op, guard, seen, leaks>>
  PROVE  WordInv'
<1> USE DEF PushPlaces, PopPlaces, EditPlaces, Pushing, Popping, Iterating, Editing
<1>1. /\ pc'[t] = s /\ \A q \in Threads : q # t => pc'[q] = pc[q]
  BY DEF WordInv, PlaceInv
<1>2. PlaceInv'
  BY <1>1 DEF WordInv, PlaceInv
<1>3. SeenInv'
  <2>1. ASSUME NEW q \in Threads, pc'[q] \in {"cas", "clear"} PROVE pc[q] = pc'[q]
    BY <1>1, <2>1
  <2> QED
    BY <2>1 DEF WordInv, SeenInv
<1>4. FlagInv'
  BY <1>1 DEF WordInv, FlagInv, PlaceInv
<1>5. \A os : Going(os)' = Going(os)
  BY <1>1 DEF Going
<1>6. WordCounts'
  BY <1>5 DEF WordInv, WordCounts
<1> QED
  BY <1>2, <1>3, <1>4, <1>6 DEF WordInv

LEMMA InnerInv ==
  ASSUME WordInv, NEW t \in Threads,
         \/ PushStep(t)
         \/ LoadPushFar(t) \/ TakeSlot(t) \/ ReadSlot(t) \/ CountDown(t)
         \/ Enlarge(t) \/ Shift(t) \/ Resize(t)
  PROVE  WordInv'
<1>1. UNCHANGED <<op, guard, seen, leaks>>
  BY DEF PushStep, LoadPopFar, ClaimSlot, Room, FirstAlloc, Drain, Grow, LoadAlloc, WriteSlot,
         CountUp, LoadPushFar, TakeSlot, ReadSlot, CountDown, Enlarge, Shift, Resize,
         locals, history, counts
<1>2. CASE PushStep(t)
  <2>1. pc[t] \in PushPlaces
    BY <1>2 DEF PushStep, LoadPopFar, ClaimSlot, Room, FirstAlloc, Drain, Grow, LoadAlloc,
                WriteSlot, CountUp, PushPlaces
  <2>2. PICK s \in PushPlaces \cup {"leave"} : pc' = [pc EXCEPT ![t] = s]
    BY <1>2 DEF PushStep, LoadPopFar, ClaimSlot, Room, FirstAlloc, Drain, Grow, LoadAlloc,
                WriteSlot, CountUp, PushPlaces, Goto
  <2> QED
    BY <1>1, <2>1, <2>2, MoveInv
<1>3. CASE LoadPushFar(t) \/ TakeSlot(t) \/ ReadSlot(t) \/ CountDown(t)
  <2>1. pc[t] \in PopPlaces
    BY <1>3 DEF LoadPushFar, TakeSlot, ReadSlot, CountDown, PopPlaces
  <2>2. PICK s \in PopPlaces \cup {"leave"} : pc' = [pc EXCEPT ![t] = s]
    BY <1>3 DEF LoadPushFar, TakeSlot, ReadSlot, CountDown, PopPlaces, Goto
  <2> QED
    BY <1>1, <2>1, <2>2, MoveInv
<1>4. CASE Enlarge(t) \/ Shift(t) \/ Resize(t)
  <2>1. pc[t] \in EditPlaces
    BY <1>4 DEF Enlarge, Shift, Resize, EditPlaces
  <2>2. PICK s \in EditPlaces : pc' = [pc EXCEPT ![t] = s]
    BY <1>4 DEF Enlarge, Shift, Resize, EditPlaces, Goto
  <2> QED
    BY <1>1, <2>1, <2>2, MoveInv
<1> QED
  BY <1>2, <1>3, <1>4

-----------------------------------------------------------------------------
(* The way in.                                                             *)

\* Where a call stands after it has considered a word, and what it then knows.
LEMMA ConsiderFacts ==
  ASSUME NEW t \in Threads, NEW o \in {"push", "pop", "iter"}, NEW g \in Words,
         Consider(t, o, g)
  PROVE  \E s \in {"look", "cas", "popFar", "pushFar", "next"} :
           /\ pc' = [pc EXCEPT ![t] = s]
           /\ \E w \in Words : seen' = [seen EXCEPT ![t] = w] /\ (s = "cas" => ~Blocked(w, o))
           /\ s \in {"popFar", "pushFar", "next"} => s = First(o) /\ Flagged(g, o)
<1>1. CASE Flagged(g, o)
  BY <1>1, Gates, FreeWord DEF Consider
<1>2. CASE ~Flagged(g, o) /\ Blocked(g, o)
  BY <1>2, FreeWord DEF Consider
<1>3. CASE ~Flagged(g, o) /\ ~Blocked(g, o)
  BY <1>3 DEF Consider
<1> QED
  BY <1>1, <1>2, <1>3

LEMMA EnterInv ==
  ASSUME WordInv, NEW t \in Threads, NEW o \in {"push", "pop", "iter"}, NEW v, Enter(t, o, v)
  PROVE  WordInv'
<1>1. /\ pc[t] = "idle" /\ op' = [op EXCEPT ![t] = o] /\ guard' = Count(guard, o, 1)
      /\ Consider(t, o, guard) /\ leaks' = leaks /\ guard \in Words /\ op[t] = "none"
  BY DEF Enter, Begin, WordInv, PlaceInv, SeenInv
<1>2. PICK s \in {"look", "cas", "popFar", "pushFar", "next"}, w \in Words :
         /\ pc' = [pc EXCEPT ![t] = s] /\ seen' = [seen EXCEPT ![t] = w]
         /\ s = "cas" => ~Blocked(w, o)
         /\ s \in {"popFar", "pushFar", "next"} => s = First(o) /\ Flagged(guard, o)
  BY <1>1, ConsiderFacts
<1>3. /\ guard' \in Words
      /\ guard'.push = (IF o = "pop" THEN guard.push ELSE guard.push + 1)
      /\ guard'.pop = (IF o = "pop" THEN guard.pop + 1 ELSE guard.pop)
      /\ guard'.PUSH = guard.PUSH /\ guard'.POP = guard.POP /\ guard'.LOCK = guard.LOCK
  BY <1>1, CountWord DEF Words
<1>4. /\ pc'[t] = s /\ op'[t] = o /\ seen'[t] = w
      /\ \A q \in Threads : q # t => pc'[q] = pc[q] /\ op'[q] = op[q] /\ seen'[q] = seen[q]
  BY <1>1, <1>2 DEF WordInv, PlaceInv, SeenInv
<1>5. s \in {"popFar", "pushFar", "next"} =>
        /\ o = "push" => s = "popFar" /\ guard.PUSH /\ ~guard.LOCK
        /\ o = "iter" => s = "next" /\ guard.PUSH
        /\ o = "pop" => s = "pushFar" /\ guard.POP
  BY <1>2, Gates
<1>6. PlaceInv'
  BY <1>1, <1>2, <1>4, <1>5
     DEF WordInv, PlaceInv, Pushing, Popping, Iterating, Editing, Ops
<1>7. SeenInv'
  <2>1. seen' \in [Threads -> Words] /\ leaks' \in Nat
    BY <1>1, <1>2 DEF WordInv, SeenInv
  <2>2. ASSUME NEW q \in Threads
        PROVE  /\ pc'[q] = "cas" => ~Blocked(seen'[q], op'[q])
               /\ pc'[q] = "clear" => MustClear(seen'[q], op'[q])
    <3>1. CASE q = t
      BY <1>2, <1>4, <3>1
    <3>2. CASE q # t
      BY <1>4, <3>2 DEF WordInv, SeenInv
    <3> QED
      BY <3>1, <3>2
  <2> QED
    BY <1>3, <2>1, <2>2 DEF SeenInv
<1>8. FlagInv'
  BY <1>1, <1>2, <1>3, <1>4, <1>5 DEF WordInv, FlagInv, Pushing, Popping, Iterating, Editing
<1>9. WordCounts'
  <2>1. \A os : t \notin Going(os) \/ "none" \in os
    BY <1>1 DEF Going
  <2>2. \A os : o \in os => Going(os)' = Going(os) \cup {t}
    BY <1>2, <1>4 DEF Going
  <2>3. \A os : o \notin os /\ "none" \notin os => Going(os)' = Going(os)
    BY <1>1, <1>2, <1>4 DEF Going
  <2>4. \A os : o \in os /\ "none" \notin os =>
          Cardinality(Going(os)') = Cardinality(Going(os)) + 1
    BY <2>1, <2>2, GoingMore
  <2>5. CASE o = "pop"
    <3>1. /\ Going({"push", "iter"})' = Going({"push", "iter"})
          /\ Cardinality(Going({"pop"})') = Cardinality(Going({"pop"})) + 1
      BY <2>3, <2>4, <2>5
    <3> QED
      BY <1>1, <1>3, <2>5, <3>1, GoingFinite DEF WordInv, WordCounts, SeenInv
  <2>6. CASE o # "pop"
    <3>1. /\ Going({"pop"})' = Going({"pop"})
          /\ Cardinality(Going({"push", "iter"})') = Cardinality(Going({"push", "iter"})) + 1
      BY <2>3, <2>4, <2>6
    <3> QED
      BY <1>1, <1>3, <2>6, <3>1, GoingFinite DEF WordInv, WordCounts
  <2> QED
    BY <2>5, <2>6
<1> QED
  BY <1>6, <1>7, <1>8, <1>9 DEF WordInv

LEMMA LookInv ==
  ASSUME WordInv, NEW t \in Threads, Look(t)
  PROVE  WordInv'
<1>1. /\ pc[t] = "look" /\ ~Blocked(guard, op[t])
      /\ seen' = [seen EXCEPT ![t] = guard] /\ pc' = [pc EXCEPT ![t] = "cas"]
      /\ UNCHANGED <<guard, op, leaks>>
  BY DEF Look, locals, history
<1>2. PlaceInv'
  BY <1>1 DEF WordInv, PlaceInv, Pushing, Popping, Iterating, Editing
<1>3. SeenInv'
  BY <1>1 DEF WordInv, SeenInv, PlaceInv
<1>4. FlagInv'
  BY <1>1 DEF WordInv, FlagInv, PlaceInv, Pushing, Popping, Iterating, Editing
<1>5. \A os : Going(os)' = Going(os)
  BY <1>1 DEF WordInv, PlaceInv, Going
<1>6. WordCounts'
  BY <1>1, <1>5 DEF WordInv, WordCounts
<1> QED
  BY <1>2, <1>3, <1>4, <1>6 DEF WordInv

LEMMA CasInv ==
  ASSUME WordInv, NEW t \in Threads, Cas(t)
  PROVE  WordInv'
<1> DEFINE o == op[t]
<1>1. /\ pc[t] = "cas" /\ UNCHANGED <<op, leaks>>
      /\ o \in {"push", "pop", "iter"} /\ guard \in Words /\ ~Blocked(seen[t], o)
  BY DEF Cas, locals, history, WordInv, PlaceInv, SeenInv
<1>2. PICK s \in {"look", "cas", "popFar", "pushFar", "next"}, w \in Words :
         /\ pc' = [pc EXCEPT ![t] = s] /\ seen' = [seen EXCEPT ![t] = w]
         /\ s = "cas" => ~Blocked(w, o)
         /\ s \in {"popFar", "pushFar", "next"} => s = First(o)
         /\ \/ guard' = guard /\ (s \in {"popFar", "pushFar", "next"} => Flagged(guard, o))
            \/ guard' = SetFlag(guard, o) /\ guard = seen[t]
  <2>1. CASE guard = seen[t]
    <3>1. First(o) \in {"popFar", "pushFar", "next"}
      BY <1>1, Gates
    <3> QED
      BY <1>1, <2>1, <3>1, FreeWord DEF Cas
  <2>2. CASE guard # seen[t]
    BY <1>1, <2>2, ConsiderFacts DEF Cas
  <2> QED
    BY <2>1, <2>2
<1>3. /\ pc'[t] = s /\ seen'[t] = w
      /\ \A q \in Threads : q # t => pc'[q] = pc[q] /\ seen'[q] = seen[q]
  BY <1>2 DEF WordInv, PlaceInv, SeenInv
<1>4. /\ guard' \in Words /\ guard'.push = guard.push /\ guard'.pop = guard.pop
      /\ guard'.LOCK = guard.LOCK
      /\ guard.PUSH => guard'.PUSH
      /\ guard.POP => guard'.POP
      /\ guard' # guard => /\ o = "pop" => ~guard.PUSH /\ ~guard.LOCK /\ guard'.PUSH = guard.PUSH
                           /\ o # "pop" => ~guard.POP /\ guard'.POP = guard.POP
  <2>1. CASE guard' = guard
    BY <1>1, <2>1
  <2>2. CASE guard' = SetFlag(guard, o) /\ guard = seen[t]
    <3>1. /\ guard' \in Words /\ guard'.push = guard.push /\ guard'.pop = guard.pop
          /\ guard'.PUSH = (IF o = "pop" THEN guard.PUSH ELSE TRUE)
          /\ guard'.POP = (IF o = "pop" THEN TRUE ELSE guard.POP)
          /\ guard'.LOCK = guard.LOCK
      BY <1>1, <2>2, SetWord
    <3>2. ~Blocked(guard, o)
      BY <1>1, <2>2
    <3>3. CASE o = "pop"
      BY <3>1, <3>2, <3>3, Gates
    <3>4. CASE o = "push"
      BY <3>1, <3>2, <3>4, Gates
    <3>5. CASE o = "iter"
      BY <3>1, <3>2, <3>5, Gates
    <3> QED
      BY <1>1, <3>3, <3>4, <3>5
  <2> QED
    BY <1>2, <2>1, <2>2
<1>5. s \in {"popFar", "pushFar", "next"} =>
        /\ o = "push" => s = "popFar" /\ guard'.PUSH /\ ~guard'.LOCK
        /\ o = "iter" => s = "next" /\ guard'.PUSH
        /\ o = "pop" => s = "pushFar" /\ guard'.POP
  <2> SUFFICES ASSUME s \in {"popFar", "pushFar", "next"}
               PROVE  /\ o = "push" => s = "popFar" /\ guard'.PUSH /\ ~guard'.LOCK
                      /\ o = "iter" => s = "next" /\ guard'.PUSH
                      /\ o = "pop" => s = "pushFar" /\ guard'.POP
    OBVIOUS
  <2>1. CASE guard' = guard /\ Flagged(guard, o)
    BY <1>2, <2>1, Gates
  <2>2. CASE guard' = SetFlag(guard, o) /\ guard = seen[t]
    <3>1. /\ guard'.PUSH = (IF o = "pop" THEN guard.PUSH ELSE TRUE)
          /\ guard'.POP = (IF o = "pop" THEN TRUE ELSE guard.POP)
          /\ guard'.LOCK = guard.LOCK
      BY <1>1, <2>2, SetWord
    <3>2. ~Blocked(guard, o) /\ s = First(o)
      BY <1>1, <1>2, <2>2
    <3> QED
      BY <3>1, <3>2, Gates
  <2> QED
    BY <1>2, <2>1, <2>2
<1>6. PlaceInv'
  BY <1>1, <1>2, <1>3, <1>5 DEF WordInv, PlaceInv, Pushing, Popping, Iterating, Editing
<1>7. SeenInv'
  <2>1. seen' \in [Threads -> Words] /\ leaks' \in Nat
    BY <1>1, <1>2 DEF WordInv, SeenInv
  <2>2. ASSUME NEW q \in Threads
        PROVE  /\ pc'[q] = "cas" => ~Blocked(seen'[q], op'[q])
               /\ pc'[q] = "clear" => MustClear(seen'[q], op'[q])
    <3>1. CASE q = t
      BY <1>1, <1>2, <1>3, <3>1
    <3>2. CASE q # t
      BY <1>1, <1>3, <3>2 DEF WordInv, SeenInv
    <3> QED
      BY <3>1, <3>2
  <2> QED
    BY <1>4, <2>1, <2>2 DEF SeenInv
<1>8. FlagInv'
  <2>1. ~(guard'.POP /\ (guard'.PUSH \/ guard'.LOCK))
    BY <1>1, <1>4 DEF WordInv, FlagInv
  <2>2. ASSUME NEW q \in Threads
        PROVE  /\ Pushing(q)' => guard'.PUSH /\ ~guard'.LOCK
               /\ Iterating(q)' => guard'.PUSH
               /\ Popping(q)' => guard'.POP
               /\ Editing(q)' => guard'.LOCK
    <3>1. CASE q = t
      BY <1>1, <1>2, <1>3, <1>5, <3>1 DEF Pushing, Popping, Iterating, Editing
    <3>2. CASE q # t
      BY <1>3, <1>4, <3>2 DEF WordInv, FlagInv, Pushing, Popping, Iterating, Editing
    <3> QED
      BY <3>1, <3>2
  <2>3. \A q \in Threads : Editing(q)' => Editing(q)
    BY <1>2, <1>3 DEF Editing
  <2> QED
    BY <2>1, <2>2, <2>3 DEF WordInv, FlagInv
<1>9. \A os : Going(os)' = Going(os)
  BY <1>1, <1>2, <1>3 DEF Going
<1>10. WordCounts'
  BY <1>1, <1>4, <1>9 DEF WordInv, WordCounts
<1> QED
  BY <1>6, <1>7, <1>8, <1>10 DEF WordInv

-----------------------------------------------------------------------------
(* The way out.                                                            *)

LEMMA FinishFacts ==
  ASSUME WordInv, NEW t \in Threads, Finish(t)
  PROVE  /\ pc'[t] = "idle" /\ op'[t] = "none" /\ seen' \in [Threads -> Words]
         /\ pc' = [pc EXCEPT ![t] = "idle"] /\ op' = [op EXCEPT ![t] = "none"]
         /\ \A q \in Threads : q # t => pc'[q] = pc[q] /\ op'[q] = op[q] /\ seen'[q] = seen[q]
BY FreeWord DEF Finish, WordInv, PlaceInv, SeenInv

\* A call that returns leaves the others where they are.
LEMMA GoneInv ==
  ASSUME WordInv, NEW t \in Threads, Finish(t), guard' \in Words, leaks' \in Nat
  PROVE  /\ PlaceInv' /\ SeenInv'
         /\ \A q \in Threads : /\ Pushing(q)' => q # t /\ Pushing(q)
                               /\ Popping(q)' => q # t /\ Popping(q)
                               /\ Iterating(q)' => q # t /\ Iterating(q)
                               /\ Editing(q)' => q # t /\ Editing(q)
         /\ \A os : "none" \notin os => Going(os)' = Going(os) \ {t}
<1>1. PlaceInv'
  BY FinishFacts DEF WordInv, PlaceInv, Pushing, Popping, Iterating, Editing
<1>2. SeenInv'
  <2>1. ASSUME NEW q \in Threads
        PROVE  /\ pc'[q] = "cas" => ~Blocked(seen'[q], op'[q])
               /\ pc'[q] = "clear" => MustClear(seen'[q], op'[q])
    <3>1. CASE q = t
      BY FinishFacts, <3>1
    <3>2. CASE q # t
      BY FinishFacts, <3>2 DEF WordInv, SeenInv
    <3> QED
      BY <3>1, <3>2
  <2> QED
    BY FinishFacts, <2>1 DEF SeenInv
<1>3. \A q \in Threads : /\ Pushing(q)' => q # t /\ Pushing(q)
                         /\ Popping(q)' => q # t /\ Popping(q)
                         /\ Iterating(q)' => q # t /\ Iterating(q)
                         /\ Editing(q)' => q # t /\ Editing(q)
  BY FinishFacts DEF Pushing, Popping, Iterating, Editing
<1>4. \A os : "none" \notin os => Going(os)' = Going(os) \ {t}
  BY FinishFacts DEF Going
<1> QED
  BY <1>1, <1>2, <1>3, <1>4

\* The counters after one call of kind o is not counted any more.
LEMMA Uncounted ==
  ASSUME WordInv, NEW t \in Threads, NEW o \in {"push", "pop", "iter"}, op[t] = o,
         pc[t] # "clear", \A os : "none" \notin os => Going(os)' = Going(os) \ {t},
         guard' = Count(guard, o, -1), leaks' = leaks
  PROVE  /\ WordCounts' /\ guard' \in Words
         /\ guard'.PUSH = guard.PUSH /\ guard'.POP = guard.POP /\ guard'.LOCK = guard.LOCK
<1>1. \A os : o \in os /\ "none" \notin os =>
        /\ Cardinality(Going(os)') = Cardinality(Going(os)) - 1
        /\ Cardinality(Going(os)) >= 1 /\ Cardinality(Going(os)) \in Nat
  <2> TAKE os
  <2> HAVE o \in os /\ "none" \notin os
  <2>1. t \in Going(os)
    BY DEF Going
  <2> QED
    BY <2>1, GoingLess, GoingFinite
<1>2. \A os : o \notin os /\ "none" \notin os => Going(os)' = Going(os)
  BY DEF Going
<1>3. guard \in Words /\ leaks \in Nat
  BY DEF WordInv, SeenInv
<1>4. CASE o = "pop"
  <2>1. /\ Cardinality(Going({"pop"})') = Cardinality(Going({"pop"})) - 1
        /\ Cardinality(Going({"pop"})) >= 1 /\ Cardinality(Going({"pop"})) \in Nat
        /\ Going({"push", "iter"})' = Going({"push", "iter"})
    BY <1>1, <1>2, <1>4
  <2>2. /\ guard.pop = Cardinality(Going({"pop"})) + leaks
        /\ guard.push = Cardinality(Going({"push", "iter"}))
    BY DEF WordInv, WordCounts
  <2>3. /\ guard' \in Words /\ guard'.push = guard.push /\ guard'.pop = guard.pop + -1
        /\ guard'.PUSH = guard.PUSH /\ guard'.POP = guard.POP /\ guard'.LOCK = guard.LOCK
    BY <1>3, <1>4, <2>1, <2>2, CountWord
  <2> QED
    BY <1>3, <2>1, <2>2, <2>3 DEF WordCounts
<1>5. CASE o # "pop"
  <2>1. /\ Cardinality(Going({"push", "iter"})') = Cardinality(Going({"push", "iter"})) - 1
        /\ Cardinality(Going({"push", "iter"})) >= 1
        /\ Cardinality(Going({"push", "iter"})) \in Nat
        /\ Going({"pop"})' = Going({"pop"})
    BY <1>1, <1>2, <1>5
  <2>2. /\ guard.pop = Cardinality(Going({"pop"})) + leaks
        /\ guard.push = Cardinality(Going({"push", "iter"}))
    BY DEF WordInv, WordCounts
  <2>3. /\ guard' \in Words /\ guard'.push = guard.push + -1 /\ guard'.pop = guard.pop
        /\ guard'.PUSH = guard.PUSH /\ guard'.POP = guard.POP /\ guard'.LOCK = guard.LOCK
    BY <1>3, <1>5, <2>1, <2>2, CountWord
  <2> QED
    BY <1>3, <2>1, <2>2, <2>3 DEF WordCounts
<1> QED
  BY <1>4, <1>5

\* A call on its way out that must clear the flag.
LEMMA ClearNext ==
  ASSUME WordInv, NEW t \in Threads, NEW g \in Words, op[t] \in {"push", "pop"},
         pc[t] \in {"leave", "clear"}, MustClear(g, op[t]), guard' \in Words, leaks' \in Nat,
         pc' = [pc EXCEPT ![t] = "clear"], seen' = [seen EXCEPT ![t] = g], op' = op
  PROVE  /\ PlaceInv' /\ SeenInv'
         /\ \A q \in Threads : /\ Pushing(q)' => Pushing(q)
                               /\ Popping(q)' => Popping(q)
                               /\ Iterating(q)' => Iterating(q)
                               /\ Editing(q)' => Editing(q)
         /\ \A os : Going(os)' = Going(os) \ {t}
<1>1. /\ pc'[t] = "clear" /\ seen'[t] = g
      /\ \A q \in Threads : q # t => pc'[q] = pc[q] /\ seen'[q] = seen[q]
  BY DEF WordInv, PlaceInv, SeenInv
<1>2. PlaceInv'
  BY <1>1 DEF WordInv, PlaceInv, Pushing, Popping, Iterating, Editing
<1>3. SeenInv'
  <2>1. ASSUME NEW q \in Threads
        PROVE  /\ pc'[q] = "cas" => ~Blocked(seen'[q], op'[q])
               /\ pc'[q] = "clear" => MustClear(seen'[q], op'[q])
    <3>1. CASE q = t
      BY <1>1, <3>1
    <3>2. CASE q # t
      BY <1>1, <3>2 DEF WordInv, SeenInv
    <3> QED
      BY <3>1, <3>2
  <2> QED
    BY <2>1 DEF WordInv, SeenInv
<1>4. \A q \in Threads : /\ Pushing(q)' => Pushing(q)
                         /\ Popping(q)' => Popping(q)
                         /\ Iterating(q)' => Iterating(q)
                         /\ Editing(q)' => Editing(q)
  BY <1>1 DEF Pushing, Popping, Iterating, Editing
<1>5. \A os : Going(os)' = Going(os) \ {t}
  BY <1>1 DEF Going
<1> QED
  BY <1>2, <1>3, <1>4, <1>5

\* With the same flags, fewer are inside.
LEMMA FewerInv ==
  ASSUME FlagInv,
         \A q \in Threads : /\ Pushing(q)' => Pushing(q)
                            /\ Popping(q)' => Popping(q)
                            /\ Iterating(q)' => Iterating(q)
                            /\ Editing(q)' => Editing(q),
         guard'.PUSH = guard.PUSH, guard'.POP = guard.POP, guard'.LOCK = guard.LOCK
  PROVE  FlagInv'
BY DEF FlagInv

LEMMA LeaveInv ==
  ASSUME WordInv, NEW t \in Threads, Leave(t)
  PROVE  WordInv'
<1>1. /\ pc[t] = "leave" /\ op[t] \in {"push", "pop"} /\ guard' = Count(guard, op[t], -1)
      /\ leaks' = leaks /\ Ending(t, guard') /\ leaks \in Nat
  BY DEF Leave, history, WordInv, PlaceInv, SeenInv
<1>2. ASSUME \A os : "none" \notin os => Going(os)' = Going(os) \ {t}
      PROVE  /\ WordCounts' /\ guard' \in Words
             /\ guard'.PUSH = guard.PUSH /\ guard'.POP = guard.POP /\ guard'.LOCK = guard.LOCK
  BY <1>1, <1>2, Uncounted
<1>3. guard' \in Words
  <2>1. guard \in Words
    BY DEF WordInv, SeenInv
  <2>2. IF op[t] = "pop" THEN guard.pop + -1 >= 0 ELSE guard.push + -1 >= 0
    <3>1. CASE op[t] = "pop"
      <4>1. Cardinality(Going({"pop"})) >= 1 /\ Cardinality(Going({"pop"})) \in Nat
        <5>1. t \in Going({"pop"})
          BY <1>1, <3>1 DEF Going
        <5> QED
          BY <5>1, GoingFinite
      <4> QED
        BY <1>1, <3>1, <4>1 DEF WordInv, WordCounts
    <3>2. CASE op[t] = "push"
      <4>1. Cardinality(Going({"push", "iter"})) >= 1
            /\ Cardinality(Going({"push", "iter"})) \in Nat
        <5>1. t \in Going({"push", "iter"})
          BY <1>1, <3>2 DEF Going
        <5> QED
          BY <5>1, GoingFinite
      <4> QED
        BY <3>2, <4>1 DEF WordInv, WordCounts
    <3> QED
      BY <1>1, <3>1, <3>2
  <2> QED
    BY <1>1, <2>1, <2>2, CountWord
<1>4. CASE MustClear(guard', op[t])
  <2>1. /\ pc' = [pc EXCEPT ![t] = "clear"] /\ seen' = [seen EXCEPT ![t] = guard'] /\ op' = op
    BY <1>1, <1>4 DEF Ending, locals
  <2>2. /\ PlaceInv' /\ SeenInv'
        /\ \A q \in Threads : /\ Pushing(q)' => Pushing(q)
                              /\ Popping(q)' => Popping(q)
                              /\ Iterating(q)' => Iterating(q)
                              /\ Editing(q)' => Editing(q)
        /\ \A os : Going(os)' = Going(os) \ {t}
    BY <1>1, <1>3, <1>4, <2>1, ClearNext
  <2> QED
    BY <1>2, <2>2, FewerInv DEF WordInv
<1>5. CASE ~MustClear(guard', op[t])
  <2>1. Finish(t)
    BY <1>1, <1>5 DEF Ending
  <2> QED
    BY <1>1, <1>2, <1>3, <2>1, GoneInv, FewerInv DEF WordInv
<1> QED
  BY <1>4, <1>5

LEMMA ClearInv ==
  ASSUME WordInv, NEW t \in Threads, Clear(t)
  PROVE  WordInv'
<1>1. /\ pc[t] = "clear" /\ op[t] \in {"push", "pop"} /\ leaks' = leaks /\ leaks \in Nat
      /\ MustClear(seen[t], op[t]) /\ guard \in Words
  BY DEF Clear, history, WordInv, PlaceInv, SeenInv
<1>2. \A os : Going(os) \ {t} = Going(os)
  <2>1. \A os : t \notin Going(os)
    BY <1>1 DEF Going
  <2> QED
    BY <2>1
<1>3. CASE guard = seen[t] /\ op[t] = "pop"
  <2>1. /\ Finish(t) /\ guard' = [guard EXCEPT !.POP = FALSE] /\ guard.pop = 0
    BY <1>1, <1>3 DEF Clear, MustClear
  <2>2. /\ guard' \in Words /\ guard'.push = guard.push /\ guard'.pop = guard.pop
        /\ guard'.PUSH = guard.PUSH /\ guard'.POP = FALSE /\ guard'.LOCK = guard.LOCK
    BY <1>1, <2>1 DEF Words
  <2>3. PlaceInv' /\ SeenInv' /\ (\A os : "none" \notin os => Going(os)' = Going(os))
    <3>1. PlaceInv' /\ SeenInv' /\ (\A os : "none" \notin os => Going(os)' = Going(os) \ {t})
      BY <1>1, <2>1, <2>2, GoneInv
    <3> QED
      BY <1>2, <3>1
  <2>4. WordCounts'
    BY <1>1, <2>2, <2>3 DEF WordInv, WordCounts
  <2>5. \A q \in Threads : ~Popping(q)
    <3> SUFFICES ASSUME NEW q \in Threads, Popping(q) PROVE FALSE
      OBVIOUS
    <3>1. q \in Going({"pop"})
      BY DEF Going, Popping, WordInv, PlaceInv
    <3>2. Cardinality(Going({"pop"})) >= 1 /\ Cardinality(Going({"pop"})) \in Nat
      BY <3>1, GoingFinite
    <3> QED
      BY <1>1, <2>1, <3>2 DEF WordInv, WordCounts
  <2>6. FlagInv'
    BY <1>1, <2>1, <2>2, <2>5, GoneInv DEF WordInv, FlagInv
  <2> QED
    BY <2>3, <2>4, <2>6 DEF WordInv
<1>4. CASE guard = seen[t] /\ op[t] # "pop"
  <2>1. /\ Finish(t) /\ guard' = [guard EXCEPT !.PUSH = FALSE] /\ guard.push = 0
    BY <1>1, <1>4 DEF Clear, MustClear
  <2>2. /\ guard' \in Words /\ guard'.push = guard.push /\ guard'.pop = guard.pop
        /\ guard'.POP = guard.POP /\ guard'.PUSH = FALSE /\ guard'.LOCK = guard.LOCK
    BY <1>1, <2>1 DEF Words
  <2>3. PlaceInv' /\ SeenInv' /\ (\A os : "none" \notin os => Going(os)' = Going(os))
    <3>1. PlaceInv' /\ SeenInv' /\ (\A os : "none" \notin os => Going(os)' = Going(os) \ {t})
      BY <1>1, <2>1, <2>2, GoneInv
    <3> QED
      BY <1>2, <3>1
  <2>4. WordCounts'
    BY <1>1, <2>2, <2>3 DEF WordInv, WordCounts
  <2>5. \A q \in Threads : ~Pushing(q) /\ ~Iterating(q)
    <3> SUFFICES ASSUME NEW q \in Threads, Pushing(q) \/ Iterating(q) PROVE FALSE
      OBVIOUS
    <3>1. q \in Going({"push", "iter"})
      BY DEF Going, Pushing, Iterating, WordInv, PlaceInv
    <3>2. Cardinality(Going({"push", "iter"})) >= 1
          /\ Cardinality(Going({"push", "iter"})) \in Nat
      BY <3>1, GoingFinite
    <3> QED
      BY <1>1, <2>1, <3>2 DEF WordInv, WordCounts
  <2>6. FlagInv'
    BY <1>1, <2>1, <2>2, <2>5, GoneInv DEF WordInv, FlagInv
  <2> QED
    BY <2>3, <2>4, <2>6 DEF WordInv
<1>5. CASE guard # seen[t] /\ MustClear(guard, op[t])
  <2>1. /\ pc' = [pc EXCEPT ![t] = "clear"] /\ seen' = [seen EXCEPT ![t] = guard]
        /\ op' = op /\ guard' = guard
    BY <1>5 DEF Clear, Ending, locals
  <2>2. /\ PlaceInv' /\ SeenInv'
        /\ \A q \in Threads : /\ Pushing(q)' => Pushing(q)
                              /\ Popping(q)' => Popping(q)
                              /\ Iterating(q)' => Iterating(q)
                              /\ Editing(q)' => Editing(q)
        /\ \A os : Going(os)' = Going(os) \ {t}
    BY <1>1, <1>5, <2>1, ClearNext
  <2>3. \A os : Going(os)' = Going(os)
    BY <1>2, <2>2
  <2> QED
    BY <1>1, <2>1, <2>2, <2>3, FewerInv DEF WordInv, WordCounts
<1>6. CASE guard # seen[t] /\ ~MustClear(guard, op[t])
  <2>1. Finish(t) /\ guard' = guard
    BY <1>6 DEF Clear, Ending
  <2>2. PlaceInv' /\ SeenInv' /\ (\A os : "none" \notin os => Going(os)' = Going(os))
    BY <1>1, <1>2, <2>1, GoneInv
  <2>3. FlagInv'
    BY <1>1, <2>1, GoneInv, FewerInv DEF WordInv
  <2>4. WordCounts'
    BY <1>1, <2>1, <2>2 DEF WordInv, WordCounts
  <2> QED
    BY <2>2, <2>3, <2>4 DEF WordInv
<1> QED
  BY <1>3, <1>4, <1>5, <1>6

\* A pop of an empty vector returns and stays counted.
LEMMA UndoInv ==
  ASSUME WordInv, NEW t \in Threads, Undo(t)
  PROVE  WordInv'
<1>1. /\ pc[t] = "undo" /\ op[t] = "pop" /\ Finish(t) /\ guard' = guard
      /\ leaks' = leaks + 1 /\ leaks \in Nat /\ guard \in Words
  BY DEF Undo, WordInv, PlaceInv, SeenInv, Popping
<1>2. /\ PlaceInv' /\ SeenInv'
      /\ \A os : "none" \notin os => Going(os)' = Going(os) \ {t}
  BY <1>1, GoneInv
<1>3. FlagInv'
  BY <1>1, GoneInv, FewerInv DEF WordInv
<1>4. /\ Cardinality(Going({"pop"})') = Cardinality(Going({"pop"})) - 1
      /\ Cardinality(Going({"pop"})) \in Nat
  <2>1. t \in Going({"pop"})
    BY <1>1 DEF Going
  <2>2. Going({"pop"})' = Going({"pop"}) \ {t}
    BY <1>2
  <2> QED
    BY <2>1, <2>2, GoingLess, GoingFinite
<1>5. Going({"push", "iter"})' = Going({"push", "iter"})
  <2>1. t \notin Going({"push", "iter"})
    BY <1>1 DEF Going
  <2>2. Going({"push", "iter"})' = Going({"push", "iter"}) \ {t}
    BY <1>2
  <2> QED
    BY <2>1, <2>2
<1>6. WordCounts'
  BY <1>1, <1>4, <1>5 DEF WordInv, WordCounts
<1> QED
  BY <1>2, <1>3, <1>6 DEF WordInv

\* A dropped iterator is uncounted; the flag stays.
LEMMA IterDropInv ==
  ASSUME WordInv, NEW t \in Threads, IterDrop(t)
  PROVE  WordInv'
<1>1. /\ pc[t] = "next" /\ op[t] = "iter" /\ Finish(t) /\ guard' = Count(guard, "iter", -1)
      /\ leaks' = leaks /\ leaks \in Nat
  BY DEF IterDrop, WordInv, PlaceInv, SeenInv, Iterating
<1>2. \A os : "none" \notin os => Going(os)' = Going(os) \ {t}
  BY <1>1, FinishFacts DEF Going
<1>3. /\ WordCounts' /\ guard' \in Words
      /\ guard'.PUSH = guard.PUSH /\ guard'.POP = guard.POP /\ guard'.LOCK = guard.LOCK
  BY <1>1, <1>2, Uncounted
<1> QED
  BY <1>1, <1>3, GoneInv, FewerInv DEF WordInv

-----------------------------------------------------------------------------
(* remove and insert.                                                      *)

\* The free word says that nobody is inside.
LEMMA FreeAlone ==
  ASSUME WordInv, guard = Free
  PROVE  \A q \in Threads : ~Pushing(q) /\ ~Popping(q) /\ ~Iterating(q) /\ ~Editing(q)
BY DEF Free, WordInv, FlagInv

LEMMA LockInv ==
  ASSUME WordInv, NEW t \in Threads, NEW i, NEW o \in {"remove", "insert"}, NEW s \in EditPlaces,
         Lock(t, o, i), pc' = [pc EXCEPT ![t] = s], UNCHANGED <<seen, leaks>>
  PROVE  WordInv'
<1>1. /\ pc[t] = "idle" /\ op' = [op EXCEPT ![t] = o] /\ guard = Free
      /\ guard' = [Free EXCEPT !.LOCK = TRUE] /\ op[t] = "none"
  BY DEF Lock, Begin, WordInv, PlaceInv
<1>2. /\ guard' \in Words /\ guard'.push = guard.push /\ guard'.pop = guard.pop
      /\ guard'.PUSH = FALSE /\ guard'.POP = FALSE /\ guard'.LOCK = TRUE
  BY <1>1 DEF Free, Words
<1>3. /\ pc'[t] = s /\ op'[t] = o
      /\ \A q \in Threads : q # t => pc'[q] = pc[q] /\ op'[q] = op[q]
  BY <1>1 DEF WordInv, PlaceInv
<1>4. PlaceInv'
  BY <1>1, <1>3 DEF WordInv, PlaceInv, Pushing, Popping, Iterating, Editing, EditPlaces, Ops
<1>5. SeenInv'
  BY <1>1, <1>2, <1>3 DEF WordInv, SeenInv, EditPlaces
<1>6. FlagInv'
  <2>1. \A q \in Threads : /\ ~Pushing(q)' /\ ~Popping(q)' /\ ~Iterating(q)'
                           /\ Editing(q)' => q = t
    BY <1>1, <1>3, FreeAlone DEF Pushing, Popping, Iterating, Editing, EditPlaces
  <2> QED
    BY <1>2, <2>1 DEF FlagInv
<1>7. \A os : {"remove", "insert", "none"} \cap os = {} => Going(os)' = Going(os)
  BY <1>1, <1>3 DEF Going
<1>8. WordCounts'
  BY <1>2, <1>7 DEF WordInv, WordCounts
<1> QED
  BY <1>4, <1>5, <1>6, <1>8 DEF WordInv

LEMMA RemoveInv ==
  ASSUME WordInv, NEW t \in Threads, NEW i, Remove(t, i)
  PROVE  WordInv'
<1>1. Lock(t, "remove", i) /\ pc' = [pc EXCEPT ![t] = "shift"] /\ UNCHANGED <<seen, leaks>>
  BY DEF Remove, Goto
<1>2. "shift" \in EditPlaces
  BY DEF EditPlaces
<1> QED
  BY <1>1, <1>2, LockInv

LEMMA InsertInv ==
  ASSUME WordInv, NEW t \in Threads, NEW i, Insert(t, i)
  PROVE  WordInv'
<1>1. PICK s \in EditPlaces : pc' = [pc EXCEPT ![t] = s]
  BY DEF Insert, Goto, EditPlaces
<1>2. Lock(t, "insert", i) /\ UNCHANGED <<seen, leaks>>
  BY DEF Insert
<1> QED
  BY <1>1, <1>2, LockInv

LEMMA UnlockInv ==
  ASSUME WordInv, NEW t \in Threads, Unlock(t)
  PROVE  WordInv'
<1>1. /\ pc[t] = "unlock" /\ op[t] \in {"remove", "insert"} /\ Finish(t)
      /\ guard' = [guard EXCEPT !.LOCK = FALSE] /\ leaks' = leaks /\ leaks \in Nat
      /\ guard \in Words /\ Editing(t)
  BY DEF Unlock, history, WordInv, PlaceInv, SeenInv, Editing
<1>2. /\ guard' \in Words /\ guard'.push = guard.push /\ guard'.pop = guard.pop
      /\ guard'.PUSH = guard.PUSH /\ guard'.POP = guard.POP /\ guard'.LOCK = FALSE
  BY <1>1 DEF Words
<1>3. PlaceInv' /\ SeenInv'
  BY <1>1, <1>2, GoneInv
<1>4. FlagInv'
  BY <1>1, <1>2, GoneInv DEF WordInv, FlagInv
<1>5. \A os : {"remove", "insert", "none"} \cap os = {} => Going(os)' = Going(os)
  BY <1>1, FinishFacts DEF Going
<1>6. WordCounts'
  BY <1>1, <1>2, <1>5 DEF WordInv, WordCounts
<1> QED
  BY <1>3, <1>4, <1>6 DEF WordInv

-----------------------------------------------------------------------------
(* The theorems.                                                           *)

LEMMA WordInit ==
  ASSUME Init
  PROVE  WordInv
<1>1. \A os : "none" \notin os => Going(os) = {}
  BY DEF Init, Going
<1>2. Going({"push", "iter"}) = {} /\ Going({"pop"}) = {}
  BY <1>1
<1>3. Cardinality({}) = 0
  BY FS_EmptySet
<1>4. WordCounts
  <2>1. guard.push = 0 /\ guard.pop = 0 /\ leaks = 0
    BY DEF Init, Free
  <2>2. Cardinality(Going({"push", "iter"})) = 0 /\ Cardinality(Going({"pop"})) = 0
    BY <1>2, <1>3
  <2> QED
    BY <2>1, <2>2 DEF WordCounts
<1>5. PlaceInv
  BY DEF Init, PlaceInv, Pushing, Popping, Iterating, Editing
<1>6. SeenInv
  BY FreeWord DEF Init, SeenInv
<1>7. FlagInv
  BY DEF Init, FlagInv, Free, Pushing, Popping, Iterating, Editing
<1> QED
  BY <1>4, <1>5, <1>6, <1>7 DEF WordInv

LEMMA WordStep ==
  ASSUME WordInv, [Next]_vars
  PROVE  WordInv'
<1>1. CASE UNCHANGED <<guard, pc, op, seen, leaks>>
  <2>1. \A os : Going(os)' = Going(os)
    BY <1>1 DEF Going
  <2> QED
    BY <1>1, <2>1 DEF WordInv, PlaceInv, SeenInv, FlagInv, WordCounts,
                      Pushing, Popping, Iterating, Editing
<1>2. CASE UNCHANGED vars
  BY <1>1, <1>2 DEF vars
<1>3. ASSUME NEW t \in Threads, IterNext(t) PROVE WordInv'
  BY <1>1, <1>3 DEF IterNext, history
<1>4. ASSUME NEW t \in Threads, Call(t) PROVE WordInv'
  <2>1. CASE Push(t) \/ Pop(t) \/ Iter(t)
    BY <2>1, EnterInv DEF Push, Pop, Iter
  <2>2. CASE \E i \in 0..len : Remove(t, i)
    BY <2>2, RemoveInv
  <2>3. CASE \E i \in 0..(len + 1) : Insert(t, i)
    BY <2>3, InsertInv
  <2> QED
    BY <1>4, <2>1, <2>2, <2>3 DEF Call
<1>5. ASSUME NEW t \in Threads, Step(t) PROVE WordInv'
  BY <1>5, LookInv, CasInv, LeaveInv, ClearInv, InnerInv, UndoInv, UnlockInv, IterDropInv
     DEF Step, PopStep, EditStep
<1> QED
  BY <1>2, <1>3, <1>4, <1>5 DEF Next

\* The packed word counts the calls under way, and whoever is inside has its flag.
THEOREM WordCorrect == Spec => []WordInv
<1>1. Init => WordInv
  BY WordInit
<1>2. WordInv /\ [Next]_vars => WordInv'
  BY WordStep
<1> QED
  BY <1>1, <1>2, PTL DEF Spec

\* conc_vec.rs:183: no call is counted twice and none is given up, except that an
\* empty pop stays counted for ever.
THEOREM CountsExact == Spec => []WordCounts
<1>1. WordInv => WordCounts
  BY DEF WordInv
<1> QED
  BY <1>1, WordCorrect, PTL

\* conc_vec.rs:129: pops never overlap pushes or iterations, and an edit overlaps
\* neither pushes, pops nor another edit, for any number of threads and calls.
THEOREM SectionsStayApart == Spec => []SectionsApart
<1>1. WordInv => SectionsApart
  BY DEF WordInv, FlagInv, SectionsApart
<1> QED
  BY <1>1, WordCorrect, PTL

-----------------------------------------------------------------------------
(* Where the threads stand.                                                    *)

Owed == {"room", "first", "drain", "grow", "load", "write"}
At(P) == {t \in Threads : pc[t] \in P}
Before == {t \in Threads : op[t] = "push" /\ pc[t] \in {"look", "cas", "popFar", "claim"}}

LEMMA ThreadSets ==
  ASSUME NEW T, T \subseteq Threads
  PROVE  IsFiniteSet(T) /\ Cardinality(T) \in Nat /\ (T # {} => Cardinality(T) >= 1)
<1>1. IsFiniteSet(T)
  BY VecAssumption, FS_Subset
<1>2. Cardinality(T) \in Nat
  BY <1>1, FS_CardinalityType
<1>3. ASSUME T # {} PROVE Cardinality(T) >= 1
  <2>1. Cardinality(T) # 0
    BY <1>1, <1>3, FS_EmptySet
  <2> QED
    BY <1>2, <2>1
<1> QED
  BY <1>1, <1>2, <1>3

LEMMA OneMore ==
  ASSUME NEW T, T \subseteq Threads, NEW t \in Threads, t \notin T
  PROVE  Cardinality(T \cup {t}) = Cardinality(T) + 1
BY ThreadSets, FS_AddElement

LEMMA OneLess ==
  ASSUME NEW T, T \subseteq Threads, NEW t \in T
  PROVE  Cardinality(T \ {t}) = Cardinality(T) - 1
BY ThreadSets, FS_RemoveElement

\* Only t moves, from where it stands to b.
Moves(t, b) == pc'[t] = b /\ \A u \in Threads \ {t} : pc'[u] = pc[u]

LEMMA MoveIs ==
  ASSUME WordInv, NEW t \in Threads, NEW b, pc' = [pc EXCEPT ![t] = b]
  PROVE  Moves(t, b)
BY DEF WordInv, PlaceInv, Moves

LEMMA AtSame ==
  ASSUME NEW t \in Threads, NEW b, Moves(t, b), NEW P, pc[t] \in P <=> b \in P
  PROVE  At(P)' = At(P)
BY DEF Moves, At

LEMMA AtMore ==
  ASSUME NEW t \in Threads, NEW b, Moves(t, b), NEW P, pc[t] \notin P, b \in P
  PROVE  /\ At(P)' = At(P) \cup {t}
         /\ Cardinality(At(P)') = Cardinality(At(P)) + 1
<1>1. At(P)' = At(P) \cup {t}
  BY DEF Moves, At
<1>2. At(P) \subseteq Threads /\ t \notin At(P)
  BY DEF At
<1> QED
  BY <1>1, <1>2, OneMore

LEMMA AtLess ==
  ASSUME NEW t \in Threads, NEW b, Moves(t, b), NEW P, pc[t] \in P, b \notin P
  PROVE  /\ At(P)' = At(P) \ {t}
         /\ Cardinality(At(P)') = Cardinality(At(P)) - 1
<1>1. At(P)' = At(P) \ {t}
  BY DEF Moves, At
<1>2. At(P) \subseteq Threads /\ t \in At(P)
  BY DEF At
<1> QED
  BY <1>1, <1>2, OneLess

LEMMA AtNat ==
  ASSUME NEW P
  PROVE  /\ Cardinality(At(P)) \in Nat
         /\ \A t \in Threads : pc[t] \in P => Cardinality(At(P)) >= 1
         /\ (\A t \in Threads : pc[t] \notin P) => At(P) = {} /\ Cardinality(At(P)) = 0
<1>1. At(P) \subseteq Threads
  BY DEF At
<1>2. Cardinality(At(P)) \in Nat /\ (At(P) # {} => Cardinality(At(P)) >= 1)
  BY <1>1, ThreadSets
<1>3. Cardinality({}) = 0
  BY FS_EmptySet
<1> QED
  BY <1>2, <1>3 DEF At

-----------------------------------------------------------------------------
(* Allocations.                                                                *)

Cells == Items \cup {Empty}
Allocs == UNION {[0..(n - 1) -> Cells] : n \in Nat \ {0}}

LEMMA AllocFacts ==
  ASSUME NEW a \in Allocs
  PROVE  /\ SizeOf(a) \in Nat /\ SizeOf(a) >= 1
         /\ a \in [0..(SizeOf(a) - 1) -> Cells]
         /\ DOMAIN a = 0..(SizeOf(a) - 1)
<1>1. PICK n \in Nat \ {0} : a \in [0..(n - 1) -> Cells]
  BY DEF Allocs
<1>2. DOMAIN a = 0..(n - 1)
  BY <1>1
<1>3. Cardinality(0..(n - 1)) = n
  BY FS_Interval
<1>4. SizeOf(a) = n
  BY <1>2, <1>3 DEF SizeOf
<1> QED
  BY <1>1, <1>2, <1>4

LEMMA AllocIs ==
  ASSUME NEW n \in Nat, n >= 1, NEW a \in [0..(n - 1) -> Cells]
  PROVE  a \in Allocs /\ SizeOf(a) = n
<1>1. a \in Allocs
  BY DEF Allocs
<1>2. DOMAIN a = 0..(n - 1)
  OBVIOUS
<1>3. Cardinality(0..(n - 1)) = n
  BY FS_Interval
<1> QED
  BY <1>1, <1>2, <1>3 DEF SizeOf

LEMMA WrittenAlloc ==
  ASSUME NEW a \in Allocs, NEW s, NEW v \in Cells
  PROVE  /\ [a EXCEPT ![s] = v] \in Allocs
         /\ SizeOf([a EXCEPT ![s] = v]) = SizeOf(a)
         /\ s \in DOMAIN a => [a EXCEPT ![s] = v][s] = v
         /\ \A r \in DOMAIN a : r # s => [a EXCEPT ![s] = v][r] = a[r]
<1>1. SizeOf(a) \in Nat /\ SizeOf(a) >= 1 /\ a \in [0..(SizeOf(a) - 1) -> Cells]
  BY AllocFacts
<1>2. [a EXCEPT ![s] = v] \in [0..(SizeOf(a) - 1) -> Cells]
  BY <1>1
<1> QED
  BY <1>1, <1>2, AllocIs

LEMMA BlankAlloc ==
  /\ Blank \in Allocs /\ SizeOf(Blank) = InitialCap /\ InitialCap \in Nat /\ InitialCap >= 1
  /\ \A s \in 0..(InitialCap - 1) : Blank[s] = Empty
<1>1. InitialCap \in Nat /\ InitialCap >= 1
  BY VecAssumption
<1>2. Blank \in [0..(InitialCap - 1) -> Cells]
  BY DEF Blank, Cells
<1>3. \A s \in 0..(InitialCap - 1) : Blank[s] = Empty
  BY DEF Blank
<1> QED
  BY <1>1, <1>2, <1>3, AllocIs

LEMMA TimesScale ==
  ASSUME NEW n \in Nat, n >= 1
  PROVE  n * Scale \in Nat /\ n < n * Scale
<1>1. Scale \in Nat /\ Scale >= 2
  BY VecAssumption
<1>2. PICK k \in Nat : Scale = 2 + k
  <2>1. Scale - 2 \in Nat /\ Scale = 2 + (Scale - 2)
    BY <1>1
  <2> QED
    BY <2>1
<1>3. n * Scale = n + n + n * k /\ n * k \in Nat
  BY <1>2
<1> QED
  BY <1>3

LEMMA GrownAlloc ==
  ASSUME NEW a \in Allocs
  PROVE  /\ Grown(a) \in Allocs /\ SizeOf(a) < SizeOf(Grown(a))
         /\ \A s \in 0..(SizeOf(a) - 1) : Grown(a)[s] = a[s]
         /\ \A s \in 0..(SizeOf(Grown(a)) - 1) : SizeOf(a) <= s => Grown(a)[s] = Empty
<1> DEFINE n == SizeOf(a)
           m == n * Scale
<1>1. n \in Nat /\ n >= 1 /\ a \in [0..(n - 1) -> Cells] /\ DOMAIN a = 0..(n - 1)
  BY AllocFacts
<1>2. m \in Nat /\ n < m
  BY <1>1, TimesScale
<1>3. Grown(a) = [s \in 0..(m - 1) |-> IF s \in 0..(n - 1) THEN a[s] ELSE Empty]
  BY <1>1 DEF Grown
<1> HIDE DEF n, m
<1>4. Grown(a) \in [0..(m - 1) -> Cells]
  BY <1>1, <1>3 DEF Cells
<1>5. Grown(a) \in Allocs /\ SizeOf(Grown(a)) = m
  BY <1>1, <1>2, <1>4, AllocIs
<1>6. \A s \in 0..(n - 1) : s \in 0..(m - 1)
  BY <1>1, <1>2
<1>7. \A s \in 0..(m - 1) : n <= s => s \notin 0..(n - 1)
  BY <1>1, <1>2
<1> QED
  BY <1>1, <1>2, <1>3, <1>5, <1>6, <1>7 DEF n

-----------------------------------------------------------------------------
(* Types.                                                                      *)

Cur == heap[Len(heap)]

ShapeInv ==
  /\ pushFar \in Nat /\ popFar \in Nat /\ len \in 0..(Word - 1)
  /\ far \in [Threads -> Nat] /\ slot \in [Threads -> Nat] /\ at \in [Threads -> Nat]
  /\ val \in [Threads -> Cells]
  /\ heap \in Seq(Allocs)
  /\ calls \in 0..MaxCalls /\ used \subseteq Items
  /\ kept \in BOOLEAN /\ missed \in BOOLEAN /\ edited \in BOOLEAN
  /\ \A t \in Threads : /\ pc[t] \in {"drain", "grow", "shift"} => heap # <<>>
                        /\ pc[t] \in {"grow", "write"} => at[t] \in 1..Len(heap)

FarInv ==
  /\ \A t \in Threads : /\ pc[t] = "claim" => far[t] = popFar
                        /\ pc[t] = "take" => far[t] = pushFar
  /\ At({"undo"}) = {} => popFar <= pushFar
  /\ At({"undo"}) # {} => popFar = pushFar + Cardinality(At({"undo"}))

LEMMA SizeFacts ==
  ASSUME heap \in Seq(Allocs)
  PROVE  /\ Size \in Nat
         /\ heap = <<>> => Size = 0
         /\ heap # <<>> => /\ Size >= 1 /\ Len(heap) \in Nat /\ Len(heap) >= 1
                           /\ Cur \in Allocs /\ SizeOf(Cur) = Size
                           /\ DOMAIN Cur = 0..(Size - 1)
                           /\ \A s \in 0..(Size - 1) : Cur[s] \in Cells
<1>1. CASE heap = <<>>
  BY <1>1 DEF Size
<1>2. CASE heap # <<>>
  <2>1. Len(heap) \in Nat /\ Len(heap) >= 1 /\ Cur \in Allocs
    BY <1>2 DEF Cur
  <2>2. Size = SizeOf(Cur)
    BY <1>2 DEF Size, Cur
  <2> QED
    BY <1>2, <2>1, <2>2, AllocFacts
<1> QED
  BY <1>1, <1>2

\* The heap gets one more allocation, or another one in the place of the g-th.
LEMMA HeapMore ==
  ASSUME heap \in Seq(Allocs), NEW a \in Allocs, heap' = Append(heap, a)
  PROVE  /\ heap' \in Seq(Allocs) /\ heap' # <<>> /\ Len(heap') = Len(heap) + 1
         /\ Cur' = a /\ Size' = SizeOf(a)
<1>1. /\ heap' \in Seq(Allocs) /\ Len(heap') = Len(heap) + 1 /\ heap' # <<>>
      /\ heap'[Len(heap')] = a
  OBVIOUS
<1> QED
  BY <1>1 DEF Cur, Size

LEMMA HeapAgain ==
  ASSUME heap \in Seq(Allocs), NEW g \in 1..Len(heap), NEW a \in Allocs,
         heap' = [heap EXCEPT ![g] = a]
  PROVE  /\ heap' \in Seq(Allocs) /\ Len(heap') = Len(heap) /\ heap' # <<>> /\ heap # <<>>
         /\ g = Len(heap) => Cur' = a /\ Size' = SizeOf(a)
<1>1. /\ heap' \in Seq(Allocs) /\ Len(heap') = Len(heap) /\ heap'[g] = a
      /\ heap # <<>> /\ heap' # <<>>
  OBVIOUS
<1> QED
  BY <1>1 DEF Cur, Size

\* Who is inside keeps the others out.
LEMMA Phases ==
  ASSUME WordInv, NEW t \in Threads
  PROVE  /\ Pushing(t) => \A u \in Threads : ~Popping(u) /\ ~Editing(u)
         /\ Popping(t) => \A u \in Threads : ~Pushing(u) /\ ~Editing(u)
         /\ Editing(t) => \A u \in Threads : ~Pushing(u) /\ ~Popping(u)
BY DEF WordInv, FlagInv

\* A call that stays with what it has, or loads what the counters and the heap say.
LEMMA CalmTypes ==
  ASSUME ShapeInv, FarInv, NEW t \in Threads, NEW b, Moves(t, b), pc[t] # "undo", b # "undo",
         pushFar' = pushFar, popFar' = popFar, len' \in 0..(Word - 1),
         far' \in [Threads -> Nat], slot' \in [Threads -> Nat], at' \in [Threads -> Nat],
         val' \in [Threads -> Cells],
         heap' \in Seq(Allocs), Len(heap) <= Len(heap'),
         calls' \in 0..MaxCalls, used' \subseteq Items,
         kept' \in BOOLEAN, missed' \in BOOLEAN, edited' \in BOOLEAN,
         \A u \in Threads \ {t} : far'[u] = far[u] /\ at'[u] = at[u],
         b \in {"drain", "grow", "shift"} => heap' # <<>>,
         b \in {"grow", "write"} => at'[t] \in 1..Len(heap'),
         b = "claim" => far'[t] = popFar,
         b = "take" => far'[t] = pushFar
  PROVE  ShapeInv' /\ FarInv'
<1>1. At({"undo"})' = At({"undo"})
  BY AtSame
<1>2. FarInv'
  <2>1. ASSUME NEW u \in Threads
        PROVE  /\ pc'[u] = "claim" => far'[u] = popFar'
               /\ pc'[u] = "take" => far'[u] = pushFar'
    BY DEF FarInv, Moves
  <2> QED
    BY <1>1, <2>1 DEF FarInv
<1>3. Len(heap) \in Nat /\ Len(heap') \in Nat /\ (heap # <<>> => heap' # <<>>)
  BY DEF ShapeInv
<1>4. ASSUME NEW u \in Threads
      PROVE  /\ pc'[u] \in {"drain", "grow", "shift"} => heap' # <<>>
             /\ pc'[u] \in {"grow", "write"} => at'[u] \in 1..Len(heap')
  <2>1. CASE u = t
    BY <2>1 DEF Moves
  <2>2. CASE u # t
    <3>1. pc'[u] = pc[u] /\ at'[u] = at[u]
      BY <2>2 DEF Moves
    <3>2. pc[u] \in {"grow", "write"} => at[u] \in 1..Len(heap')
      <4>1. pc[u] \in {"grow", "write"} => at[u] \in 1..Len(heap)
        BY DEF ShapeInv
      <4> QED
        BY <1>3, <4>1
    <3> QED
      BY <1>3, <3>1, <3>2 DEF ShapeInv
  <2> QED
    BY <2>1, <2>2
<1> QED
  BY <1>2, <1>4 DEF ShapeInv

LEMMA FinishTypes ==
  ASSUME WordInv, ShapeInv, NEW t \in Threads, Finish(t)
  PROVE  /\ Moves(t, "idle")
         /\ far' \in [Threads -> Nat] /\ slot' \in [Threads -> Nat] /\ at' \in [Threads -> Nat]
         /\ val' \in [Threads -> Cells]
         /\ \A u \in Threads \ {t} : /\ far'[u] = far[u] /\ at'[u] = at[u]
                                     /\ slot'[u] = slot[u] /\ val'[u] = val[u]
                                     /\ op'[u] = op[u]
         /\ val'[t] = Empty /\ op'[t] = "none"
<1>1. Moves(t, "idle")
  BY MoveIs DEF Finish
<1> QED
  BY <1>1 DEF Finish, ShapeInv, Cells, WordInv, PlaceInv

LEMMA WordNat == Word \in Nat /\ Word >= 1 /\ MaxCalls \in Nat /\ MaxCalls < Word
BY VecAssumption

LEMMA EnterTypes ==
  ASSUME WordInv, ShapeInv, FarInv, NEW t \in Threads, NEW o \in {"push", "pop", "iter"},
         NEW v \in Cells, Enter(t, o, v)
  PROVE  ShapeInv' /\ FarInv'
<1>1. guard \in Words
  BY DEF WordInv, SeenInv
<1>2. PICK b \in {"look", "cas", "popFar", "pushFar", "next"} : pc' = [pc EXCEPT ![t] = b]
  BY <1>1, ConsiderFacts DEF Enter
<1>3. Moves(t, b)
  BY <1>2, MoveIs
<1>4. pc[t] = "idle" /\ calls < MaxCalls /\ calls' = calls + 1
  BY DEF Enter, Begin
<1>5. calls' \in 0..MaxCalls
  BY <1>4, WordNat DEF ShapeInv
<1>6. val' \in [Threads -> Cells] /\ used' \subseteq Items
  BY DEF Enter, ShapeInv, Cells
<1>7. UNCHANGED <<pushFar, popFar, len, heap, far, slot, at, kept, missed, edited>>
  BY DEF Enter, counts
<1>8. Len(heap) <= Len(heap')
  BY <1>7 DEF ShapeInv
<1> QED
  BY <1>3, <1>4, <1>5, <1>6, <1>7, <1>8, CalmTypes DEF ShapeInv

LEMMA FreshItem ==
  ASSUME used \subseteq Items, used # Items
  PROVE  Fresh \in Items /\ Fresh \notin used /\ Fresh \in Cells /\ Fresh # Empty
BY VecAssumption DEF Fresh, Cells

LEMMA ConsiderMoves ==
  ASSUME WordInv, NEW t \in Threads, Cas(t)
  PROVE  \E b \in {"look", "cas", "popFar", "pushFar", "next"} : Moves(t, b)
<1>1. op[t] \in {"push", "pop", "iter"} /\ guard \in Words
  BY DEF WordInv, PlaceInv, SeenInv, Cas
<1>2. \E b \in {"look", "cas", "popFar", "pushFar", "next"} : pc' = [pc EXCEPT ![t] = b]
  <2>1. CASE guard = seen[t]
    BY <1>1, <2>1, Gates DEF Cas
  <2>2. CASE guard # seen[t]
    BY <1>1, <2>2, ConsiderFacts DEF Cas
  <2> QED
    BY <2>1, <2>2
<1> QED
  BY <1>2, MoveIs

\* A call on its way in or out.
LEMMA WayTypes ==
  ASSUME WordInv, ShapeInv, FarInv, NEW t \in Threads,
         Look(t) \/ Cas(t) \/ Leave(t) \/ Clear(t) \/ IterDrop(t) \/ Unlock(t)
  PROVE  ShapeInv' /\ FarInv'
<1>1. /\ UNCHANGED <<pushFar, popFar, len, heap, calls, used, missed, edited>>
      /\ kept' \in BOOLEAN
  BY DEF Look, Cas, Leave, Clear, IterDrop, Unlock, counts, history, ShapeInv
<1>2. Len(heap) <= Len(heap')
  BY <1>1 DEF ShapeInv
<1>3. pc[t] # "undo"
  BY DEF Look, Cas, Leave, Clear, IterDrop, Unlock
<1>4. CASE Look(t) \/ Cas(t)
  <2>1. \E b \in {"look", "cas", "popFar", "pushFar", "next"} : Moves(t, b)
    BY <1>4, ConsiderMoves, MoveIs DEF Look
  <2>2. UNCHANGED <<far, slot, at, val>>
    BY <1>4 DEF Look, Cas, locals
  <2> QED
    BY <1>1, <1>2, <1>3, <2>1, <2>2, CalmTypes DEF ShapeInv
<1>5. CASE pc' = [pc EXCEPT ![t] = "clear"] /\ UNCHANGED <<far, slot, at, val>>
  <2>1. Moves(t, "clear")
    BY <1>5, MoveIs
  <2> QED
    BY <1>1, <1>2, <1>3, <1>5, <2>1, CalmTypes DEF ShapeInv
<1>6. CASE Finish(t)
  BY <1>1, <1>2, <1>3, <1>6, FinishTypes, CalmTypes DEF ShapeInv
<1>7. Leave(t) \/ Clear(t) =>
        (pc' = [pc EXCEPT ![t] = "clear"] /\ UNCHANGED <<far, slot, at, val>>) \/ Finish(t)
  BY DEF Leave, Clear, Ending, locals
<1>8. IterDrop(t) \/ Unlock(t) => Finish(t)
  BY DEF IterDrop, Unlock
<1> QED
  BY <1>4, <1>5, <1>6, <1>7, <1>8

LEMMA IterNextTypes ==
  ASSUME WordInv, ShapeInv, FarInv, NEW t \in Threads, IterNext(t)
  PROVE  ShapeInv' /\ FarInv'
<1>1. Moves(t, "next") /\ pc[t] = "next"
  BY DEF IterNext, Moves
<1>2. slot' \in [Threads -> Nat]
  BY DEF IterNext, ShapeInv
<1>3. UNCHANGED <<pushFar, popFar, len, heap, far, at, val, calls, used, kept, missed, edited>>
  BY DEF IterNext, counts, history
<1>4. Len(heap) <= Len(heap')
  BY <1>3 DEF ShapeInv
<1> QED
  BY <1>1, <1>2, <1>3, <1>4, CalmTypes DEF ShapeInv

-----------------------------------------------------------------------------
(* The steps of push.                                                          *)

LEMMA ClaimTypes ==
  ASSUME WordInv, ShapeInv, FarInv, NEW t \in Threads, ClaimSlot(t)
  PROVE  /\ ShapeInv' /\ FarInv' /\ Moves(t, "room") /\ popFar <= pushFar
         /\ slot'[t] = pushFar - popFar /\ pushFar' = pushFar + 1
         /\ \A u \in Threads \ {t} : slot'[u] = slot[u]
         /\ \A u \in Threads : ~Popping(u) /\ ~Editing(u)
<1>1. Moves(t, "room") /\ pc[t] = "claim"
  BY MoveIs DEF ClaimSlot, Goto
<1>2. \A u \in Threads : ~Popping(u) /\ ~Editing(u)
  <2>1. Pushing(t)
    BY <1>1 DEF Pushing
  <2> QED
    BY <2>1, Phases
<1>3. At({"undo"}) = {}
  BY <1>2 DEF At, Popping
<1>4. popFar <= pushFar /\ far[t] = popFar /\ pushFar' = pushFar + 1 /\ popFar' = popFar
  BY <1>1, <1>3 DEF FarInv, ClaimSlot
<1>5. slot' \in [Threads -> Nat] /\ slot'[t] = pushFar - popFar
      /\ \A u \in Threads \ {t} : slot'[u] = slot[u]
  <2>1. slot' = [slot EXCEPT ![t] = pushFar - popFar]
    BY <1>4 DEF ClaimSlot
  <2>2. pushFar - popFar \in Nat /\ slot \in [Threads -> Nat]
    BY <1>4 DEF ShapeInv
  <2> QED
    BY <2>1, <2>2
<1>6. UNCHANGED <<len, heap, far, at, val, calls, used, kept, missed, edited>>
  BY DEF ClaimSlot, history
<1>7. At({"undo"})' = {}
  BY <1>1, <1>3, AtSame
<1>8. FarInv'
  <2>1. ASSUME NEW u \in Threads
        PROVE  /\ pc'[u] = "claim" => far'[u] = popFar'
               /\ pc'[u] = "take" => far'[u] = pushFar'
    BY <1>1, <1>2, <1>4, <1>6 DEF FarInv, Moves, Popping
  <2>2. popFar' <= pushFar'
    BY <1>4 DEF ShapeInv
  <2> QED
    BY <1>7, <2>1, <2>2 DEF FarInv
<1>9. ShapeInv'
  <2>1. ASSUME NEW u \in Threads
        PROVE  /\ pc'[u] \in {"drain", "grow", "shift"} => heap' # <<>>
               /\ pc'[u] \in {"grow", "write"} => at'[u] \in 1..Len(heap')
    BY <1>1, <1>6 DEF ShapeInv, Moves
  <2>2. pushFar' \in Nat
    BY <1>4 DEF ShapeInv
  <2> QED
    BY <1>4, <1>5, <1>6, <2>1, <2>2 DEF ShapeInv
<1> QED
  BY <1>1, <1>2, <1>4, <1>5, <1>8, <1>9

LEMMA LoadTypes ==
  ASSUME WordInv, ShapeInv, FarInv, NEW t \in Threads,
         LoadPopFar(t) \/ LoadPushFar(t) \/ CountUp(t) \/ CountDown(t)
  PROVE  ShapeInv' /\ FarInv'
<1>1. /\ UNCHANGED <<pushFar, popFar, heap, slot, at, val, calls, used, kept, missed, edited>>
      /\ pc[t] # "undo"
  BY DEF LoadPopFar, LoadPushFar, CountUp, CountDown, counts, locals, history
<1>2. Len(heap) <= Len(heap')
  BY <1>1 DEF ShapeInv
<1>3. CASE LoadPopFar(t)
  <2>1. Moves(t, "claim")
    BY <1>3, MoveIs DEF LoadPopFar, Goto
  <2>2. /\ far' \in [Threads -> Nat] /\ far'[t] = popFar /\ len' = len
        /\ \A u \in Threads \ {t} : far'[u] = far[u]
    BY <1>3 DEF LoadPopFar, ShapeInv, counts
  <2> QED
    BY <1>1, <1>2, <2>1, <2>2, CalmTypes DEF ShapeInv
<1>4. CASE LoadPushFar(t)
  <2>1. Moves(t, "take")
    BY <1>4, MoveIs DEF LoadPushFar, Goto
  <2>2. /\ far' \in [Threads -> Nat] /\ far'[t] = pushFar /\ len' = len
        /\ \A u \in Threads \ {t} : far'[u] = far[u]
    BY <1>4 DEF LoadPushFar, ShapeInv, counts
  <2> QED
    BY <1>1, <1>2, <2>1, <2>2, CalmTypes DEF ShapeInv
<1>5. CASE CountUp(t) \/ CountDown(t)
  <2>1. Moves(t, "leave") /\ far' = far
    BY <1>5, MoveIs DEF CountUp, CountDown, Goto, locals
  <2>2. len' \in 0..(Word - 1)
    BY <1>5, WordNat DEF CountUp, CountDown, ShapeInv
  <2> QED
    BY <1>1, <1>2, <2>1, <2>2, CalmTypes DEF ShapeInv
<1> QED
  BY <1>3, <1>4, <1>5

LEMMA RoomTypes ==
  ASSUME WordInv, ShapeInv, FarInv, NEW t \in Threads,
         Room(t) \/ Drain(t) \/ LoadAlloc(t)
  PROVE  ShapeInv' /\ FarInv'
<1>1. /\ UNCHANGED <<pushFar, popFar, len, heap, far, slot, val, calls, used, kept, edited>>
      /\ pc[t] # "undo"
  BY DEF Room, Drain, LoadAlloc, counts, locals, history
<1>2. Len(heap) <= Len(heap')
  BY <1>1 DEF ShapeInv
<1>3. CASE Room(t)
  <2>1. PICK b \in {"first", "drain", "load"} : pc' = [pc EXCEPT ![t] = b]
                                               /\ (b = "drain" => Size # 0)
    BY <1>3 DEF Room, Goto
  <2>2. Moves(t, b)
    BY <2>1, MoveIs
  <2>3. b = "drain" => heap' # <<>>
    BY <1>1, <2>1, SizeFacts DEF ShapeInv
  <2>4. at' = at /\ missed' \in BOOLEAN
    BY <1>3 DEF Room, locals, ShapeInv
  <2> QED
    BY <1>1, <1>2, <2>2, <2>3, <2>4, CalmTypes DEF ShapeInv
<1>4. CASE Drain(t) \/ LoadAlloc(t)
  <2>1. PICK b \in {"grow", "write"} : pc' = [pc EXCEPT ![t] = b]
    BY <1>4 DEF Drain, LoadAlloc, Goto
  <2>2. Moves(t, b)
    BY <2>1, MoveIs
  <2>3. heap # <<>>
    <3>1. CASE Drain(t)
      BY <3>1 DEF Drain, ShapeInv
    <3>2. CASE LoadAlloc(t)
      <4>1. slot[t] < Size /\ slot[t] \in Nat
        BY <3>2 DEF LoadAlloc, ShapeInv
      <4> QED
        BY <4>1, SizeFacts DEF ShapeInv
    <3> QED
      BY <1>4, <3>1, <3>2
  <2>4. Len(heap) \in 1..Len(heap) /\ Len(heap) \in Nat
    BY <2>3 DEF ShapeInv
  <2>5. /\ at' \in [Threads -> Nat] /\ at'[t] = Len(heap)
        /\ \A u \in Threads \ {t} : at'[u] = at[u]
    BY <1>4, <2>4 DEF Drain, LoadAlloc, ShapeInv
  <2>6. missed' = missed
    BY <1>4 DEF Drain, LoadAlloc, history
  <2> QED
    BY <1>1, <1>2, <2>2, <2>3, <2>4, <2>5, <2>6, CalmTypes DEF ShapeInv
<1> QED
  BY <1>3, <1>4

\* The steps that change the heap and no counter.
LEMMA HeapTypes ==
  ASSUME ShapeInv, FarInv, NEW t \in Threads, NEW b, Moves(t, b),
         pc[t] \notin {"undo"}, b \notin {"undo", "claim", "take", "drain", "grow", "write"},
         UNCHANGED <<pushFar, popFar, len, far, slot, at, val, calls, used, kept, missed, edited>>,
         heap' \in Seq(Allocs), heap' # <<>>, Len(heap) <= Len(heap')
  PROVE  ShapeInv' /\ FarInv'
BY CalmTypes DEF ShapeInv

LEMMA AllocTypes ==
  ASSUME WordInv, ShapeInv, FarInv, NEW t \in Threads,
         FirstAlloc(t) \/ Grow(t) \/ Enlarge(t)
  PROVE  ShapeInv' /\ FarInv'
<1>1. PICK a \in Allocs : heap' = Append(heap, a)
  <2>1. CASE FirstAlloc(t)
    BY <2>1, BlankAlloc DEF FirstAlloc
  <2>2. CASE Grow(t)
    <3>1. heap[at[t]] \in Allocs
      BY <2>2 DEF Grow, ShapeInv
    <3> QED
      BY <2>2, <3>1, GrownAlloc DEF Grow
  <2>3. CASE Enlarge(t) /\ heap = <<>>
    BY <2>3, BlankAlloc DEF Enlarge
  <2>4. CASE Enlarge(t) /\ heap # <<>>
    BY <2>4, SizeFacts, GrownAlloc DEF Enlarge, ShapeInv, Cur
  <2> QED
    BY <2>1, <2>2, <2>3, <2>4
<1>2. heap' \in Seq(Allocs) /\ heap' # <<>> /\ Len(heap) <= Len(heap')
  <2>1. heap' \in Seq(Allocs) /\ heap' # <<>> /\ Len(heap') = Len(heap) + 1 /\ Len(heap) \in Nat
    BY <1>1, HeapMore DEF ShapeInv
  <2> QED
    BY <2>1
<1>3. PICK b \in {"load", "shift"} : pc' = [pc EXCEPT ![t] = b]
  BY DEF FirstAlloc, Grow, Enlarge, Goto
<1>4. Moves(t, b)
  BY <1>3, MoveIs
<1>5. /\ UNCHANGED <<pushFar, popFar, len, far, slot, at, val, calls, used, kept, missed, edited>>
      /\ pc[t] # "undo"
  BY DEF FirstAlloc, Grow, Enlarge, counts, locals, history
<1> QED
  BY <1>2, <1>4, <1>5, HeapTypes

LEMMA ShiftedAlloc ==
  ASSUME NEW a \in Allocs, NEW i \in Nat, NEW v \in Cells, len \in Nat
  PROVE  Without(a, i) \in Allocs /\ With(a, i, v) \in Allocs
<1>1. /\ SizeOf(a) \in Nat /\ SizeOf(a) >= 1 /\ a \in [0..(SizeOf(a) - 1) -> Cells]
      /\ DOMAIN a = 0..(SizeOf(a) - 1)
  BY AllocFacts
<1>2. Without(a, i) \in [0..(SizeOf(a) - 1) -> Cells]
  BY <1>1 DEF Without
<1>3. With(a, i, v) \in [0..(SizeOf(a) - 1) -> Cells]
  <2>1. ASSUME NEW s \in 0..(SizeOf(a) - 1)
        PROVE  (IF s < i \/ s > len THEN a[s] ELSE IF s = i THEN v ELSE a[s - 1]) \in Cells
    <3>1. CASE s < i \/ s > len
      BY <1>1, <3>1
    <3>2. CASE ~(s < i \/ s > len) /\ s = i
      BY <3>2
    <3>3. CASE ~(s < i \/ s > len) /\ s # i
      <4>1. s - 1 \in 0..(SizeOf(a) - 1)
        BY <1>1, <3>3
      <4> QED
        BY <1>1, <3>3, <4>1
    <3> QED
      BY <3>1, <3>2, <3>3
  <2> QED
    BY <1>1, <2>1 DEF With
<1> QED
  BY <1>1, <1>2, <1>3, AllocIs

LEMMA CellTypes ==
  ASSUME WordInv, ShapeInv, FarInv, NEW t \in Threads,
         WriteSlot(t) \/ ReadSlot(t) \/ Shift(t)
  PROVE  ShapeInv' /\ FarInv'
<1>1. PICK b \in {"count", "leave", "uncount", "resize"} : pc' = [pc EXCEPT ![t] = b]
  BY DEF WriteSlot, ReadSlot, Shift, Goto
<1>2. Moves(t, b)
  BY <1>1, MoveIs
<1>3. /\ UNCHANGED <<pushFar, popFar, len, far, slot, at, val, calls, used, kept, missed, edited>>
      /\ pc[t] # "undo"
  BY DEF WriteSlot, ReadSlot, Shift, counts, locals, history
<1>4. heap' = heap \/ \E g \in 1..Len(heap), a \in Allocs : heap' = [heap EXCEPT ![g] = a]
  <2>1. CASE WriteSlot(t)
    <3>1. at[t] \in 1..Len(heap) /\ heap[at[t]] \in Allocs /\ val[t] \in Cells
      BY <2>1 DEF WriteSlot, ShapeInv
    <3>2. [heap[at[t]] EXCEPT ![slot[t]] = val[t]] \in Allocs
      BY <3>1, WrittenAlloc
    <3>3. heap' = [heap EXCEPT ![at[t]] = [heap[at[t]] EXCEPT ![slot[t]] = val[t]]]
      BY <2>1 DEF WriteSlot
    <3> QED
      BY <3>1, <3>2, <3>3
  <2>2. CASE ReadSlot(t) /\ heap # <<>>
    <3>1. Len(heap) \in 1..Len(heap) /\ heap[Len(heap)] \in Allocs
      BY <2>2 DEF ShapeInv
    <3>2. [heap[Len(heap)] EXCEPT ![slot[t]] = Empty] \in Allocs
      BY <3>1, WrittenAlloc DEF Cells
    <3>3. heap' = [heap EXCEPT ![Len(heap)] = [heap[Len(heap)] EXCEPT ![slot[t]] = Empty]]
      BY <2>2 DEF ReadSlot
    <3> QED
      BY <3>1, <3>2, <3>3
  <2>3. CASE ReadSlot(t) /\ heap = <<>>
    BY <2>3 DEF ReadSlot
  <2>4. CASE Shift(t)
    <3>1. heap # <<>> /\ len \in Nat /\ slot[t] \in Nat /\ val[t] \in Cells
      BY <2>4, WordNat DEF Shift, ShapeInv
    <3>2. Len(heap) \in 1..Len(heap) /\ heap[Len(heap)] \in Allocs
      BY <3>1 DEF ShapeInv
    <3>3. Without(heap[Len(heap)], slot[t]) \in Allocs
          /\ With(heap[Len(heap)], slot[t], val[t]) \in Allocs
      BY <3>1, <3>2, ShiftedAlloc
    <3>4. \E a \in Allocs : heap' = [heap EXCEPT ![Len(heap)] = a]
      <4>1. CASE op[t] = "remove"
        BY <2>4, <3>3, <4>1 DEF Shift
      <4>2. CASE op[t] # "remove"
        BY <2>4, <3>3, <4>2 DEF Shift
      <4> QED
        BY <4>1, <4>2
    <3> QED
      BY <3>2, <3>4
  <2> QED
    BY <2>1, <2>2, <2>3, <2>4
<1>5. heap' \in Seq(Allocs) /\ Len(heap) <= Len(heap')
  <2>1. heap' \in Seq(Allocs) /\ Len(heap') = Len(heap) /\ Len(heap) \in Nat
    <3>1. heap \in Seq(Allocs) /\ Len(heap) \in Nat
      BY DEF ShapeInv
    <3> QED
      BY <1>4, <3>1, HeapAgain
  <2> QED
    BY <2>1
<1> QED
  BY <1>2, <1>3, <1>5, CalmTypes DEF ShapeInv

-----------------------------------------------------------------------------
(* The steps of pop that move its counter.                                     *)

LEMMA TakeTypes ==
  ASSUME WordInv, ShapeInv, FarInv, NEW t \in Threads, TakeSlot(t)
  PROVE  /\ ShapeInv' /\ FarInv' /\ popFar' = popFar + 1
         /\ \A u \in Threads : ~Pushing(u) /\ ~Editing(u)
         /\ \A u \in Threads \ {t} : slot'[u] = slot[u]
         /\ \/ Moves(t, "undo") /\ pushFar <= popFar
            \/ /\ Moves(t, "read") /\ popFar < pushFar
               /\ slot'[t] = pushFar - popFar - 1
<1>1. pc[t] = "take" /\ far[t] = pushFar /\ popFar' = popFar + 1 /\ pushFar' = pushFar
  BY DEF TakeSlot, FarInv
<1>2. \A u \in Threads : ~Pushing(u) /\ ~Editing(u)
  <2>1. Popping(t)
    BY <1>1 DEF Popping
  <2> QED
    BY <2>1, Phases
<1>3. UNCHANGED <<len, heap, far, at, val, calls, used, kept, missed, edited>>
  BY DEF TakeSlot, history
<1>4. \A u \in Threads : pc[u] # "claim"
  BY <1>2 DEF Pushing
<1>5. CASE pushFar <= popFar
  <2>1. pc' = [pc EXCEPT ![t] = "undo"] /\ slot' = slot
    BY <1>1, <1>5 DEF TakeSlot, Goto, ShapeInv
  <2>2. Moves(t, "undo")
    BY <2>1, MoveIs
  <2>3. Cardinality(At({"undo"})') = Cardinality(At({"undo"})) + 1 /\ At({"undo"})' # {}
        /\ Cardinality(At({"undo"})) \in Nat
    <3>1. At({"undo"})' = At({"undo"}) \cup {t}
      BY <1>1, <2>2, AtMore
    <3> QED
      BY <1>1, <2>2, <3>1, AtMore, AtNat
  <2>4. popFar' = pushFar' + Cardinality(At({"undo"})')
    <3>1. popFar = pushFar + Cardinality(At({"undo"}))
      <4>1. CASE At({"undo"}) = {}
        <5>1. Cardinality({}) = 0
          BY FS_EmptySet
        <5>2. popFar = pushFar
          BY <1>5, <4>1 DEF FarInv, ShapeInv
        <5>3. Cardinality(At({"undo"})) = 0
          BY <4>1, <5>1
        <5>4. pushFar \in Nat
          BY DEF ShapeInv
        <5> QED
          BY <5>2, <5>3, <5>4
      <4>2. CASE At({"undo"}) # {}
        BY <4>2 DEF FarInv
      <4> QED
        BY <4>1, <4>2
    <3> QED
      BY <1>1, <2>3, <3>1 DEF ShapeInv
  <2>5. ASSUME NEW u \in Threads
        PROVE  /\ pc'[u] = "claim" => far'[u] = popFar'
               /\ pc'[u] = "take" => far'[u] = pushFar'
    BY <1>1, <1>3, <1>4, <2>2 DEF FarInv, Moves
  <2>6. FarInv'
    BY <2>3, <2>4, <2>5 DEF FarInv
  <2>7. ASSUME NEW u \in Threads
        PROVE  /\ pc'[u] \in {"drain", "grow", "shift"} => heap' # <<>>
               /\ pc'[u] \in {"grow", "write"} => at'[u] \in 1..Len(heap')
    BY <1>3, <2>2 DEF ShapeInv, Moves
  <2>8. popFar' \in Nat /\ slot' \in [Threads -> Nat]
    BY <1>1, <2>1 DEF ShapeInv
  <2>9. ShapeInv'
    BY <1>1, <1>3, <2>7, <2>8 DEF ShapeInv
  <2> QED
    BY <1>1, <1>2, <1>5, <2>1, <2>2, <2>6, <2>9
<1>6. CASE popFar < pushFar
  <2>1. pc' = [pc EXCEPT ![t] = "read"] /\ slot' = [slot EXCEPT ![t] = pushFar - popFar - 1]
    BY <1>1, <1>6 DEF TakeSlot, Goto, ShapeInv
  <2>2. Moves(t, "read")
    BY <2>1, MoveIs
  <2>3. At({"undo"})' = At({"undo"})
    BY <1>1, <2>2, AtSame
  <2>4. At({"undo"}) = {}
    BY <1>6, AtNat DEF FarInv, ShapeInv
  <2>5. ASSUME NEW u \in Threads
        PROVE  /\ pc'[u] = "claim" => far'[u] = popFar'
               /\ pc'[u] = "take" => far'[u] = pushFar'
    BY <1>1, <1>3, <1>4, <2>2 DEF FarInv, Moves
  <2>6. popFar' <= pushFar' /\ popFar' \in Nat /\ pushFar - popFar - 1 \in Nat
    BY <1>1, <1>6 DEF ShapeInv
  <2>7. FarInv'
    BY <2>3, <2>4, <2>5, <2>6 DEF FarInv
  <2>8. ASSUME NEW u \in Threads
        PROVE  /\ pc'[u] \in {"drain", "grow", "shift"} => heap' # <<>>
               /\ pc'[u] \in {"grow", "write"} => at'[u] \in 1..Len(heap')
    BY <1>3, <2>2 DEF ShapeInv, Moves
  <2>9. slot \in [Threads -> Nat]
    BY DEF ShapeInv
  <2>10. /\ slot' \in [Threads -> Nat] /\ slot'[t] = pushFar - popFar - 1
         /\ \A u \in Threads \ {t} : slot'[u] = slot[u]
    BY <2>1, <2>6, <2>9
  <2>11. ShapeInv'
    BY <1>1, <1>3, <2>6, <2>8, <2>10 DEF ShapeInv
  <2> QED
    BY <1>1, <1>2, <1>6, <2>2, <2>7, <2>10, <2>11
<1> QED
  BY <1>5, <1>6, SMTT(20) DEF ShapeInv

LEMMA UndoTypes ==
  ASSUME WordInv, ShapeInv, FarInv, NEW t \in Threads, Undo(t)
  PROVE  /\ ShapeInv' /\ FarInv' /\ popFar' = popFar - 1 /\ pushFar < popFar
         /\ \A u \in Threads : ~Pushing(u) /\ ~Editing(u)
<1>1. pc[t] = "undo" /\ Finish(t) /\ popFar' = popFar - 1 /\ pushFar' = pushFar
  BY DEF Undo
<1>2. \A u \in Threads : ~Pushing(u) /\ ~Editing(u)
  <2>1. Popping(t)
    BY <1>1 DEF Popping
  <2> QED
    BY <2>1, Phases
<1>3. /\ UNCHANGED <<len, heap, calls, used, kept, missed, edited>>
      /\ Moves(t, "idle")
      /\ far' \in [Threads -> Nat] /\ slot' \in [Threads -> Nat] /\ at' \in [Threads -> Nat]
      /\ val' \in [Threads -> Cells]
      /\ \A u \in Threads \ {t} : far'[u] = far[u] /\ at'[u] = at[u]
  BY <1>1, FinishTypes DEF Undo
<1>4. /\ At({"undo"}) # {} /\ Cardinality(At({"undo"})) >= 1 /\ Cardinality(At({"undo"})) \in Nat
      /\ At({"undo"})' = At({"undo"}) \ {t}
      /\ Cardinality(At({"undo"})') = Cardinality(At({"undo"})) - 1
  <2>1. /\ At({"undo"})' = At({"undo"}) \ {t}
        /\ Cardinality(At({"undo"})') = Cardinality(At({"undo"})) - 1
    BY <1>1, <1>3, AtLess
  <2>2. Cardinality(At({"undo"})) >= 1 /\ Cardinality(At({"undo"})) \in Nat
    BY <1>1, AtNat
  <2>3. t \in At({"undo"})
    BY <1>1 DEF At
  <2> QED
    BY <2>1, <2>2, <2>3
<1>5. popFar = pushFar + Cardinality(At({"undo"}))
  BY <1>4 DEF FarInv
<1>6. popFar' = pushFar' + Cardinality(At({"undo"})')
  BY <1>1, <1>4, <1>5 DEF ShapeInv
<1>7. ASSUME NEW u \in Threads
      PROVE  /\ pc'[u] = "claim" => far'[u] = popFar'
             /\ pc'[u] = "take" => far'[u] = pushFar'
  BY <1>1, <1>2, <1>3 DEF FarInv, Moves, Pushing
<1>8. FarInv'
  <2>1. At({"undo"})' = {} => popFar' <= pushFar'
    <3>1. ASSUME At({"undo"})' = {} PROVE popFar' <= pushFar'
      <4>1. Cardinality(At({"undo"})') = 0
        BY <3>1, FS_EmptySet
      <4> QED
        BY <1>1, <1>6, <4>1 DEF ShapeInv
    <3> QED
      BY <3>1
  <2> QED
    BY <1>6, <1>7, <2>1 DEF FarInv
<1>9. pushFar < popFar /\ popFar' \in Nat
  BY <1>1, <1>4, <1>5 DEF ShapeInv
<1>10. ASSUME NEW u \in Threads
       PROVE  /\ pc'[u] \in {"drain", "grow", "shift"} => heap' # <<>>
              /\ pc'[u] \in {"grow", "write"} => at'[u] \in 1..Len(heap')
  BY <1>3 DEF ShapeInv, Moves
<1>11. ShapeInv'
  BY <1>1, <1>3, <1>9, <1>10 DEF ShapeInv
<1> QED
  BY <1>1, <1>2, <1>8, <1>9, <1>11

-----------------------------------------------------------------------------
(* remove and insert.                                                          *)

LEMMA EditTypes ==
  ASSUME WordInv, ShapeInv, FarInv, NEW t \in Threads,
         \/ \E i \in 0..len : Remove(t, i)
         \/ \E i \in 0..(len + 1) : Insert(t, i)
         \/ Resize(t)
  PROVE  ShapeInv' /\ FarInv'
<1>1. /\ UNCHANGED <<pushFar, popFar, heap, far, at, kept, missed>>
      /\ edited' \in BOOLEAN /\ pc[t] # "undo"
  BY DEF Remove, Insert, Lock, Begin, Resize, counts, locals, history, ShapeInv
<1>2. Len(heap) <= Len(heap') /\ len \in Nat
  BY <1>1, WordNat DEF ShapeInv
<1>3. CASE Resize(t)
  <2>1. Moves(t, "unlock") /\ UNCHANGED <<slot, val, calls, used>>
    BY <1>3, MoveIs DEF Resize, Goto, locals, history
  <2>2. len' \in 0..(Word - 1)
    <3>1. len \in Int /\ (len + 1) % Word \in 0..(Word - 1) /\ (len - 1) % Word \in 0..(Word - 1)
      BY WordNat DEF ShapeInv
    <3> QED
      BY <1>3, <3>1 DEF Resize
  <2> QED
    BY <1>1, <1>2, <2>1, <2>2, CalmTypes DEF ShapeInv
<1>4. ASSUME NEW i \in Nat, Remove(t, i) PROVE ShapeInv' /\ FarInv'
  <2>1. Moves(t, "shift") /\ UNCHANGED <<len, val, used>>
    BY <1>4, MoveIs DEF Remove, Goto, counts
  <2>2. calls' \in 0..MaxCalls /\ slot' \in [Threads -> Nat]
    BY <1>4, WordNat, SMTT(20) DEF Remove, Lock, Begin, ShapeInv
  <2>3. heap # <<>>
    BY <1>2, <1>4, SizeFacts DEF Remove, Lock, Begin, ShapeInv
  <2> QED
    BY <1>1, <1>2, <2>1, <2>2, <2>3, CalmTypes DEF ShapeInv
<1>5. ASSUME NEW i \in Nat, Insert(t, i) PROVE ShapeInv' /\ FarInv'
  <2>1. PICK b \in {"panicked", "enlarge", "shift"} :
          pc' = [pc EXCEPT ![t] = b] /\ (b = "shift" => ~(Size < len + 1))
    BY <1>5 DEF Insert, Goto
  <2>2. Moves(t, b) /\ len' = len
    BY <1>5, <2>1, MoveIs DEF Insert, counts
  <2>3. calls' \in 0..MaxCalls /\ slot' \in [Threads -> Nat]
    BY <1>5, WordNat, SMTT(20) DEF Insert, Lock, Begin, ShapeInv
  <2>4. b = "shift" => heap # <<>>
    BY <1>2, <2>1, SizeFacts DEF ShapeInv
  <2>5. val' \in [Threads -> Cells] /\ used' \subseteq Items
    BY <1>5, FreshItem DEF Insert, ShapeInv
  <2> QED
    BY <1>1, <1>2, <2>2, <2>3, <2>4, <2>5, CalmTypes DEF ShapeInv
<1>6. \A i : i \in 0..len \/ i \in 0..(len + 1) => i \in Nat
  BY <1>2
<1> QED
  BY <1>3, <1>4, <1>5, <1>6

-----------------------------------------------------------------------------

LEMMA TypesInit ==
  ASSUME Init
  PROVE  ShapeInv /\ FarInv
<1>1. At({"undo"}) = {}
  BY DEF Init, At
<1>2. FarInv
  BY <1>1 DEF Init, FarInv
<1>3. heap \in Seq(Allocs)
  BY DEF Init
<1>4. ShapeInv
  <2>1. /\ 0 \in 0..(Word - 1) /\ 0 \in 0..MaxCalls /\ Empty \in Cells
    BY WordNat DEF Cells
  <2>2. /\ pushFar = 0 /\ popFar = 0 /\ len = 0 /\ calls = 0 /\ used = {}
        /\ kept = FALSE /\ missed = FALSE /\ edited = FALSE
    BY DEF Init
  <2>3. /\ far \in [Threads -> Nat] /\ slot \in [Threads -> Nat] /\ at \in [Threads -> Nat]
        /\ val \in [Threads -> Cells]
    BY <2>1 DEF Init
  <2>4. \A t \in Threads : pc[t] = "idle"
    BY DEF Init
  <2> QED
    BY <1>3, <2>1, <2>2, <2>3, <2>4 DEF ShapeInv
<1> QED
  BY <1>2, <1>4

LEMMA TypesStep ==
  ASSUME WordInv, ShapeInv, FarInv, [Next]_vars
  PROVE  ShapeInv' /\ FarInv'
<1>1. CASE UNCHANGED vars
  <2>1. /\ UNCHANGED <<pushFar, popFar, len, heap, far, slot, at, val, calls, used, pc>>
        /\ UNCHANGED <<kept, missed, edited>>
    BY <1>1 DEF vars
  <2>2. At({"undo"})' = At({"undo"})
    BY <2>1 DEF At
  <2> QED
    BY <2>1, <2>2 DEF ShapeInv, FarInv
<1>2. ASSUME NEW t \in Threads, Call(t) PROVE ShapeInv' /\ FarInv'
  <2>1. CASE Push(t)
    <3>1. Fresh \in Cells /\ Enter(t, "push", Fresh)
      BY <2>1, FreshItem DEF Push, ShapeInv
    <3> QED
      BY <3>1, EnterTypes
  <2>2. CASE Pop(t) \/ Iter(t)
    <3>1. Empty \in Cells
      BY DEF Cells
    <3> QED
      BY <2>2, <3>1, EnterTypes DEF Pop, Iter
  <2>3. CASE (\E i \in 0..len : Remove(t, i)) \/ (\E i \in 0..(len + 1) : Insert(t, i))
    BY <2>3, EditTypes
  <2> QED
    BY <1>2, <2>1, <2>2, <2>3 DEF Call
<1>3. ASSUME NEW t \in Threads, PushStep(t) PROVE ShapeInv' /\ FarInv'
  BY <1>3, LoadTypes, ClaimTypes, RoomTypes, AllocTypes, CellTypes DEF PushStep
<1>4. ASSUME NEW t \in Threads, PopStep(t) PROVE ShapeInv' /\ FarInv'
  BY <1>4, LoadTypes, TakeTypes, UndoTypes, CellTypes DEF PopStep
<1>5. ASSUME NEW t \in Threads, EditStep(t) PROVE ShapeInv' /\ FarInv'
  BY <1>5, AllocTypes, CellTypes, EditTypes, WayTypes DEF EditStep
<1>6. ASSUME NEW t \in Threads, Step(t) PROVE ShapeInv' /\ FarInv'
  BY <1>3, <1>4, <1>5, <1>6, WayTypes DEF Step
<1> QED
  BY <1>1, <1>2, <1>6, IterNextTypes DEF Next

THEOREM TypesCorrect == Spec => [](WordInv /\ ShapeInv /\ FarInv)
<1>1. Init => WordInv /\ ShapeInv /\ FarInv
  BY WordInit, TypesInit
<1>2. WordInv /\ ShapeInv /\ FarInv /\ [Next]_vars => (WordInv /\ ShapeInv /\ FarInv)'
  BY WordStep, TypesStep
<1> QED
  BY <1>1, <1>2, PTL DEF Spec

\* The variables have their types, after remove and insert too.
THEOREM VectorTypes == Spec => []TypeOK
<1>1. WordInv /\ ShapeInv /\ FarInv => TypeOK
  <2> SUFFICES ASSUME WordInv, ShapeInv PROVE TypeOK
    OBVIOUS
  <2>1. \A g \in 1..Len(heap) : heap[g] \in [0..(SizeOf(heap[g]) - 1) -> Items \cup {Empty}]
    <3> TAKE g \in 1..Len(heap)
    <3>1. heap[g] \in Allocs
      BY DEF ShapeInv
    <3> QED
      BY <3>1, AllocFacts DEF Cells
  <2> QED
    BY <2>1 DEF TypeOK, WordInv, PlaceInv, SeenInv, ShapeInv, Cells
<1> QED
  BY <1>1, TypesCorrect, PTL

-----------------------------------------------------------------------------
(* What the slots hold while nobody edits.                                     *)

\* The threads whose element is in no slot yet.
Carriers == Before \cup At(Owed)

Slots == 0..(Size - 1)
N == pushFar - popFar

\* Every claim was a call, and the length lags behind the claims by the calls inside.
CallsInv == pushFar + Cardinality(Before) <= calls
LenInv == len = N - Cardinality(At(Owed \cup {"count"}))
                  + Cardinality(At({"read", "uncount", "undo"}))

PlacesInv ==
  \A t \in Threads :
    /\ pc[t] \in Owed => slot[t] < N
    /\ pc[t] = "read" => N <= slot[t] /\ slot[t] < Size
    /\ pc[t] = "write" => slot[t] < Size /\ at[t] = Len(heap)
    /\ pc[t] = "first" => slot[t] = 0 /\ heap = <<>>
    /\ pc[t] \in {"drain", "grow"} => slot[t] = Size /\ heap # <<>>
    /\ pc[t] = "grow" => at[t] = Len(heap) /\ \A u \in At(Owed) : Size <= slot[u]

ApartInv ==
  /\ \A t, u \in At(Owed) : slot[t] = slot[u] => t = u
  /\ \A t, u \in At({"read"}) : slot[t] = slot[u] => t = u

\* Each claimed slot is in the vector or has an owner; a slot holds an element
\* when it is claimed and written, or taken and not yet read.
CoveredInv == \A s \in 0..(N - 1) : s < Size \/ \E t \in At(Owed) : slot[t] = s
FilledInv ==
  \A s \in Slots : Cur[s] # Empty <=> \/ s < N /\ \A t \in At(Owed) : slot[t] # s
                                      \/ \E t \in At({"read"}) : slot[t] = s

SlotInv == PlacesInv /\ ApartInv /\ CoveredInv /\ FilledInv

Stored == {Cur[s] : s \in Slots} \ {Empty}
Gone == {taken[k] : k \in DOMAIN taken}

\* Each element given to push is with its thread, in one slot, or returned.
ItemInv ==
  /\ \A t \in Threads : op[t] # "push" => val[t] = Empty
  /\ \A t \in Carriers : val[t] \in used /\ val[t] \notin Stored /\ val[t] \notin Gone
  /\ \A t, u \in Carriers : val[t] = val[u] => t = u
  /\ \A s, r \in Slots : Cur[s] # Empty /\ Cur[s] = Cur[r] => s = r
  /\ Stored \cap Gone = {}
  /\ used = {val[t] : t \in Carriers} \cup Stored \cup Gone
  /\ taken \in Seq(Cells)

BodyInv == CallsInv /\ LenInv /\ SlotInv /\ ItemInv

DataInv == ~edited => BodyInv /\ \A t \in Threads : op[t] \notin {"remove", "insert"}

-----------------------------------------------------------------------------

LEMMA SameHeap ==
  ASSUME heap' = heap
  PROVE  /\ Cur' = Cur /\ Size' = Size /\ Slots' = Slots /\ Stored' = Stored
         /\ Len(heap') = Len(heap)
BY DEF Cur, Size, Slots, Stored

LEMMA SlotKeep ==
  ASSUME SlotInv, NEW t \in Threads, NEW b, Moves(t, b), heap' = heap,
         pushFar' = pushFar, popFar' = popFar,
         pc[t] \in Owed <=> b \in Owed, pc[t] \in {"read"} <=> b \in {"read"},
         pc[t] \in Owed \cup {"read"} => slot'[t] = slot[t],
         \A u \in Threads \ {t} : slot'[u] = slot[u] /\ at'[u] = at[u],
         b = "write" => slot[t] < Size /\ at'[t] = Len(heap),
         b = "first" => slot[t] = 0 /\ heap = <<>>,
         b \in {"drain", "grow"} => slot[t] = Size /\ heap # <<>>,
         b = "grow" => at'[t] = Len(heap) /\ \A u \in At(Owed) : Size <= slot[u]
  PROVE  SlotInv'
<1>1. At(Owed)' = At(Owed) /\ At({"read"})' = At({"read"})
  BY AtSame
<1>2. \A u \in At(Owed) \cup At({"read"}) : slot'[u] = slot[u]
  BY DEF At
<1>3. N' = N
  BY DEF N
<1>4. PlacesInv'
  <2>1. ASSUME NEW u \in Threads
        PROVE  /\ pc'[u] \in Owed => slot'[u] < N
               /\ pc'[u] = "read" => N <= slot'[u] /\ slot'[u] < Size
               /\ pc'[u] = "write" => slot'[u] < Size /\ at'[u] = Len(heap)
               /\ pc'[u] = "first" => slot'[u] = 0 /\ heap = <<>>
               /\ pc'[u] \in {"drain", "grow"} => slot'[u] = Size /\ heap # <<>>
               /\ pc'[u] = "grow" => at'[u] = Len(heap) /\ \A v \in At(Owed) : Size <= slot'[v]
    <3>1. CASE u = t
      BY <1>2, <3>1 DEF SlotInv, PlacesInv, Moves, Owed
    <3>2. CASE u # t
      BY <1>2, <3>2 DEF SlotInv, PlacesInv, Moves
    <3> QED
      BY <3>1, <3>2
  <2> QED
    BY <1>1, <1>3, <2>1, SameHeap DEF PlacesInv, Owed
<1>5. ApartInv'
  BY <1>1, <1>2 DEF SlotInv, ApartInv
<1>6. CoveredInv'
  BY <1>1, <1>2, <1>3, SameHeap DEF SlotInv, CoveredInv
<1>7. FilledInv'
  BY <1>1, <1>2, <1>3, SameHeap DEF SlotInv, FilledInv
<1> QED
  BY <1>4, <1>5, <1>6, <1>7 DEF SlotInv

LEMMA LenKeep ==
  ASSUME LenInv, NEW t \in Threads, NEW b, Moves(t, b),
         pushFar' = pushFar, popFar' = popFar, len' = len,
         pc[t] \in Owed \cup {"count"} <=> b \in Owed \cup {"count"},
         pc[t] \in {"read", "uncount", "undo"} <=> b \in {"read", "uncount", "undo"}
  PROVE  LenInv'
<1>1. /\ At(Owed \cup {"count"})' = At(Owed \cup {"count"})
      /\ At({"read", "uncount", "undo"})' = At({"read", "uncount", "undo"})
  BY AtSame
<1> QED
  BY <1>1 DEF LenInv, N, Owed

LEMMA ItemKeep ==
  ASSUME ItemInv, Stored' = Stored, Slots' = Slots, Cur' = Cur, taken' = taken, used' = used,
         Carriers' = Carriers, \A u \in Carriers : val'[u] = val[u],
         \A u \in Threads : op'[u] # "push" => val'[u] = Empty
  PROVE  ItemInv'
<1>1. Gone' = Gone
  BY DEF Gone
<1>2. {val'[u] : u \in Carriers'} = {val[u] : u \in Carriers}
  OBVIOUS
<1> QED
  BY <1>1, <1>2 DEF ItemInv

\* A step on the way in or out, or one that only loads a counter.
LEMMA CalmData ==
  ASSUME BodyInv, ShapeInv, NEW t \in Threads, NEW b, Moves(t, b),
         pc[t] \notin Owed \cup {"count", "read", "uncount", "undo"},
         b \notin Owed \cup {"count", "read", "uncount", "undo"},
         UNCHANGED <<pushFar, popFar, len, heap, used, taken>>, calls' \in Nat, calls <= calls',
         \A u \in Threads \ {t} : /\ slot'[u] = slot[u] /\ at'[u] = at[u]
                                  /\ val'[u] = val[u] /\ op'[u] = op[u],
         op[t] = "push" /\ pc[t] \in {"look", "cas", "popFar", "claim"} <=>
           op'[t] = "push" /\ b \in {"look", "cas", "popFar", "claim"},
         op[t] = "push" /\ pc[t] \in {"look", "cas", "popFar", "claim"} => val'[t] = val[t],
         op'[t] # "push" => val'[t] = Empty
  PROVE  BodyInv'
<1>1. Before' = Before
  BY DEF Before, Moves
<1>2. Carriers' = Carriers
  <2>1. At(Owed)' = At(Owed)
    BY AtSame
  <2> QED
    BY <1>1, <2>1 DEF Carriers
<1>3. \A u \in Carriers : val'[u] = val[u]
  BY DEF Carriers, Before, At
<1>4. ItemInv'
  <2>1. \A u \in Threads : op'[u] # "push" => val'[u] = Empty
    BY DEF BodyInv, ItemInv
  <2> QED
    BY <1>2, <1>3, <2>1, ItemKeep, SameHeap DEF BodyInv
<1>5. CallsInv'
  <2>1. Cardinality(Before) \in Nat
    <3>1. Before \subseteq Threads
      BY DEF Before
    <3> QED
      BY <3>1, ThreadSets
  <2>2. Cardinality(Before') = Cardinality(Before)
    BY <1>1
  <2> QED
    BY <2>1, <2>2 DEF BodyInv, CallsInv, ShapeInv
<1>6. LenInv'
  BY LenKeep DEF BodyInv
<1>7. SlotInv'
  <2>1. b \notin {"write", "first", "drain", "grow"}
    BY DEF Owed
  <2> QED
    BY <2>1, SlotKeep DEF BodyInv
<1> QED
  BY <1>4, <1>5, <1>6, <1>7 DEF BodyInv

EnterPlaces == {"look", "cas", "popFar", "pushFar", "next"}

LEMMA ConsiderGoes ==
  ASSUME WordInv, NEW t \in Threads, NEW o \in {"push", "pop", "iter"},
         Consider(t, o, guard) \/ pc' = [pc EXCEPT ![t] = First(o)]
  PROVE  \E b \in EnterPlaces : /\ Moves(t, b)
                                /\ o = "push" => b \in {"look", "cas", "popFar"}
<1>1. guard \in Words
  BY DEF WordInv, SeenInv
<1>2. \E b \in EnterPlaces : /\ pc' = [pc EXCEPT ![t] = b]
                             /\ o = "push" => b \in {"look", "cas", "popFar"}
  <2>1. CASE pc' = [pc EXCEPT ![t] = First(o)]
    BY <2>1, Gates DEF EnterPlaces
  <2>2. CASE Consider(t, o, guard)
    <3>1. PICK b \in EnterPlaces : /\ pc' = [pc EXCEPT ![t] = b]
                                   /\ b \in {"popFar", "pushFar", "next"} => b = First(o)
      BY <1>1, <2>2, ConsiderFacts DEF EnterPlaces
    <3>2. o = "push" => b \in {"look", "cas", "popFar"}
      BY <3>1, Gates DEF EnterPlaces
    <3> QED
      BY <3>1, <3>2
  <2> QED
    BY <2>1, <2>2
<1> QED
  BY <1>2, MoveIs

LEMMA WayData ==
  ASSUME WordInv, ShapeInv, BodyInv, NEW t \in Threads,
         Look(t) \/ Cas(t) \/ Leave(t) \/ Clear(t) \/ IterDrop(t)
  PROVE  BodyInv'
<1>1. /\ UNCHANGED <<pushFar, popFar, len, heap, calls, used, taken>>
      /\ pc[t] \in {"look", "cas", "leave", "clear", "next"}
  BY DEF Look, Cas, Leave, Clear, IterDrop, counts, history
<1>2. calls' \in Nat /\ calls <= calls'
  BY <1>1, WordNat DEF ShapeInv
<1>3. pc[t] \notin Owed \cup {"count", "read", "uncount", "undo"}
  BY <1>1 DEF Owed
<1>4. op[t] # "push" => val[t] = Empty
  BY DEF BodyInv, ItemInv
<1>5. CASE Look(t) \/ Cas(t)
  <2>1. op[t] \in {"push", "pop", "iter"} /\ pc[t] \in {"look", "cas"}
    BY <1>5 DEF Look, Cas, WordInv, PlaceInv
  <2>2. PICK b \in EnterPlaces : /\ Moves(t, b)
                                 /\ op[t] = "push" => b \in {"look", "cas", "popFar"}
    <3>1. CASE Look(t)
      <4>1. Moves(t, "cas")
        BY <3>1, MoveIs DEF Look
      <4> QED
        BY <4>1 DEF EnterPlaces
    <3>2. CASE Cas(t)
      <4>1. Consider(t, op[t], guard) \/ pc' = [pc EXCEPT ![t] = First(op[t])]
        BY <3>2 DEF Cas
      <4> QED
        BY <2>1, <4>1, ConsiderGoes
    <3> QED
      BY <1>5, <3>1, <3>2
  <2>3. UNCHANGED <<op, far, slot, at, val>>
    BY <1>5 DEF Look, Cas, locals
  <2>4. b \notin Owed \cup {"count", "read", "uncount", "undo"}
    BY DEF EnterPlaces, Owed
  <2> QED
    BY <1>1, <1>2, <1>3, <1>4, <2>1, <2>2, <2>3, <2>4, CalmData
<1>6. CASE pc[t] \in {"leave", "clear"} /\ pc' = [pc EXCEPT ![t] = "clear"] /\ UNCHANGED locals
  <2>1. Moves(t, "clear") /\ UNCHANGED <<op, slot, at, val>>
    BY <1>6, MoveIs DEF locals
  <2>2. "clear" \notin Owed \cup {"count", "read", "uncount", "undo"}
    BY DEF Owed
  <2> QED
    BY <1>1, <1>2, <1>3, <1>4, <1>6, <2>1, <2>2, CalmData
<1>7. CASE pc[t] \in {"leave", "clear", "next"} /\ Finish(t)
  <2>1. "idle" \notin Owed \cup {"count", "read", "uncount", "undo"}
    BY DEF Owed
  <2> QED
    BY <1>1, <1>2, <1>3, <1>7, <2>1, CalmData, FinishTypes
<1>8. Leave(t) \/ Clear(t) => /\ pc[t] \in {"leave", "clear"}
                              /\ \/ pc' = [pc EXCEPT ![t] = "clear"] /\ UNCHANGED locals
                                 \/ Finish(t)
  BY DEF Leave, Clear, Ending
<1>9. IterDrop(t) => pc[t] = "next" /\ Finish(t)
  BY DEF IterDrop
<1> QED
  BY <1>5, <1>6, <1>7, <1>8, <1>9

LEMMA LoadData ==
  ASSUME WordInv, ShapeInv, BodyInv, NEW t \in Threads,
         LoadPopFar(t) \/ LoadPushFar(t) \/ IterNext(t)
  PROVE  BodyInv'
<1>1. /\ UNCHANGED <<pushFar, popFar, len, heap, calls, used, taken, op, at, val>>
      /\ pc[t] \in {"popFar", "pushFar", "next"}
  BY DEF LoadPopFar, LoadPushFar, IterNext, counts, history
<1>2. calls' \in Nat /\ calls <= calls'
  BY <1>1, WordNat DEF ShapeInv
<1>3. pc[t] \notin Owed \cup {"count", "read", "uncount", "undo"}
  BY <1>1 DEF Owed
<1>4. op[t] # "push" => val[t] = Empty
  BY DEF BodyInv, ItemInv
<1>5. \A u \in Threads \ {t} : slot'[u] = slot[u]
  BY DEF LoadPopFar, LoadPushFar, IterNext, ShapeInv
<1>6. PICK b \in {"claim", "take", "next"} : Moves(t, b) /\ (pc[t] = "popFar" <=> b = "claim")
  <2>1. CASE LoadPopFar(t)
    BY <2>1, MoveIs DEF LoadPopFar, Goto
  <2>2. CASE LoadPushFar(t)
    BY <2>2, MoveIs DEF LoadPushFar, Goto
  <2>3. CASE IterNext(t)
    BY <2>3 DEF IterNext, Moves
  <2> QED
    BY <2>1, <2>2, <2>3
<1>7. b \notin Owed \cup {"count", "read", "uncount", "undo"}
  BY DEF Owed
<1> QED
  BY <1>1, <1>2, <1>3, <1>4, <1>5, <1>6, <1>7, CalmData

LEMMA EnterMoves ==
  ASSUME WordInv, ShapeInv, NEW t \in Threads, NEW o \in {"push", "pop", "iter"}, NEW v \in Cells,
         Enter(t, o, v)
  PROVE  /\ UNCHANGED <<pushFar, popFar, len, heap, slot, at, taken>>
         /\ pc[t] = "idle" /\ calls' \in Nat /\ calls' = calls + 1 /\ calls \in Nat
         /\ op[t] = "none" /\ op'[t] = o /\ val'[t] = v
         /\ \A u \in Threads \ {t} : op'[u] = op[u] /\ val'[u] = val[u]
         /\ \E b \in EnterPlaces : /\ Moves(t, b)
                                   /\ o = "push" => b \in {"look", "cas", "popFar"}
<1>1. UNCHANGED <<pushFar, popFar, len, heap, slot, at, taken>>
  BY DEF Enter, counts
<1>2. pc[t] = "idle" /\ calls' = calls + 1 /\ op' = [op EXCEPT ![t] = o]
      /\ val' = [val EXCEPT ![t] = v] /\ Consider(t, o, guard)
  BY DEF Enter, Begin
<1>3. calls \in Nat
  BY WordNat DEF ShapeInv
<1>4. op[t] = "none"
  BY <1>2 DEF WordInv, PlaceInv
<1>5. op'[t] = o /\ val'[t] = v /\ \A u \in Threads \ {t} : op'[u] = op[u] /\ val'[u] = val[u]
  BY <1>2 DEF WordInv, PlaceInv, ShapeInv
<1> QED
  BY <1>1, <1>2, <1>3, <1>4, <1>5, ConsiderGoes

LEMMA EnterData ==
  ASSUME WordInv, ShapeInv, BodyInv, NEW t \in Threads, Pop(t) \/ Iter(t)
  PROVE  BodyInv'
<1>1. PICK o \in {"pop", "iter"} : Enter(t, o, Empty)
  BY DEF Pop, Iter
<1>2. used' = used
  BY <1>1 DEF Enter
<1>3. Empty \in Cells
  BY DEF Cells
<1>4. PICK b \in EnterPlaces : Moves(t, b)
  BY <1>1, <1>3, EnterMoves
<1>5. b \notin Owed \cup {"count", "read", "uncount", "undo"}
  BY DEF EnterPlaces, Owed
<1>6. "idle" \notin Owed \cup {"count", "read", "uncount", "undo"}
  BY DEF Owed
<1>7. calls <= calls'
  BY <1>1, <1>3, EnterMoves
<1> QED
  BY <1>1, <1>2, <1>3, <1>4, <1>5, <1>6, <1>7, EnterMoves, CalmData

LEMMA PushData ==
  ASSUME WordInv, ShapeInv, BodyInv, NEW t \in Threads, Push(t)
  PROVE  BodyInv'
<1> DEFINE v == Fresh
<1>1. /\ v \in Items /\ v \notin used /\ v \in Cells /\ v # Empty
      /\ Enter(t, "push", v)
  BY FreshItem DEF Push, ShapeInv
<1>2. used' = used \cup {v}
  BY <1>1 DEF Enter
<1> HIDE DEF v
<1>3. PICK b \in {"look", "cas", "popFar"} : Moves(t, b)
  BY <1>1, EnterMoves
<1>4. /\ UNCHANGED <<pushFar, popFar, len, heap, slot, at, taken>>
      /\ pc[t] = "idle" /\ calls' = calls + 1 /\ calls \in Nat
      /\ op[t] = "none" /\ op'[t] = "push" /\ val'[t] = v
      /\ \A u \in Threads \ {t} : op'[u] = op[u] /\ val'[u] = val[u]
  BY <1>1, EnterMoves
<1>5. b \notin Owed \cup {"count", "read", "uncount", "undo"} /\ pc[t] \notin Owed
      /\ pc[t] \notin {"count", "read", "uncount", "undo"}
  BY <1>4 DEF Owed
<1>6. Before' = Before \cup {t} /\ t \notin Before /\ Before \subseteq Threads
  BY <1>3, <1>4 DEF Before, Moves
<1>7. t \notin Carriers /\ Carriers' = Carriers \cup {t} /\ Carriers \subseteq Threads
  <2>1. At(Owed)' = At(Owed) /\ t \notin At(Owed) /\ At(Owed) \subseteq Threads
    BY <1>3, <1>5, AtSame DEF At
  <2> QED
    BY <1>6, <2>1 DEF Carriers
<1>8. CallsInv'
  <2>1. Cardinality(Before') = Cardinality(Before) + 1 /\ Cardinality(Before) \in Nat
    BY <1>6, OneMore, ThreadSets
  <2> QED
    BY <1>4, <2>1 DEF BodyInv, CallsInv, ShapeInv
<1>9. LenInv'
  BY <1>3, <1>4, <1>5, LenKeep DEF BodyInv
<1>10. SlotInv'
  <2>1. b \notin {"write", "first", "drain", "grow"}
    BY DEF Owed
  <2> QED
    BY <1>3, <1>4, <1>5, <2>1, SlotKeep DEF BodyInv
<1>11. ItemInv'
  <2>1. \A u \in Carriers : val'[u] = val[u]
    BY <1>4, <1>7
  <2>2. Stored' = Stored /\ Gone' = Gone /\ Slots' = Slots /\ Cur' = Cur
    BY <1>4, SameHeap DEF Gone
  <2>3. {val'[u] : u \in Carriers'} = {val[u] : u \in Carriers} \cup {v}
    BY <1>4, <1>7, <2>1
  <2>4. Stored \subseteq used /\ Gone \subseteq used /\ \A u \in Carriers : val[u] \in used
    BY DEF BodyInv, ItemInv
  <2>5. \A u \in Carriers' : val'[u] \in used' /\ val'[u] \notin Stored' /\ val'[u] \notin Gone'
    BY <1>1, <1>2, <1>4, <1>7, <2>1, <2>2, <2>4 DEF BodyInv, ItemInv
  <2>6. \A u, w \in Carriers' : val'[u] = val'[w] => u = w
    BY <1>1, <1>4, <1>7, <2>1, <2>4 DEF BodyInv, ItemInv
  <2>7. \A u \in Threads : op'[u] # "push" => val'[u] = Empty
    BY <1>4 DEF BodyInv, ItemInv
  <2>8. used' = {val'[u] : u \in Carriers'} \cup Stored' \cup Gone'
    BY <1>2, <2>2, <2>3 DEF BodyInv, ItemInv
  <2> QED
    BY <1>4, <2>2, <2>5, <2>6, <2>7, <2>8 DEF BodyInv, ItemInv
<1> QED
  BY <1>8, <1>9, <1>10, <1>11 DEF BodyInv

\* While somebody pushes, nobody takes.
LEMMA NoTakers ==
  ASSUME WordInv, NEW t \in Threads, Pushing(t)
  PROVE  /\ At({"read"}) = {} /\ At({"read", "uncount", "undo"}) = {}
         /\ Cardinality(At({"read", "uncount", "undo"})) = 0
         /\ op[t] = "push"
<1>1. \A u \in Threads : pc[u] \notin {"read", "uncount", "undo"}
  BY Phases DEF Popping
<1>2. At({"read"}) = {} /\ At({"read", "uncount", "undo"}) = {}
  BY <1>1 DEF At
<1> QED
  BY <1>2, FS_EmptySet DEF WordInv, PlaceInv

\* A step of a push that touches no slot: it stays with what it owes.
LEMMA OwedData ==
  ASSUME WordInv, ShapeInv, BodyInv, NEW t \in Threads, NEW b, Moves(t, b),
         pc[t] \in Owed, b \in Owed,
         UNCHANGED <<pushFar, popFar, len, heap, used, taken, calls, slot, val, op>>,
         \A u \in Threads \ {t} : at'[u] = at[u],
         b = "write" => slot[t] < Size /\ at'[t] = Len(heap),
         b = "first" => slot[t] = 0 /\ heap = <<>>,
         b \in {"drain", "grow"} => slot[t] = Size /\ heap # <<>>,
         b = "grow" => at'[t] = Len(heap) /\ \A u \in At(Owed) : Size <= slot[u]
  PROVE  BodyInv'
<1>1. Before' = Before
  BY DEF Before, Moves, Owed
<1>2. Carriers' = Carriers
  <2>1. At(Owed)' = At(Owed)
    BY AtSame
  <2> QED
    BY <1>1, <2>1 DEF Carriers
<1>3. ItemInv'
  BY <1>2, ItemKeep, SameHeap DEF BodyInv, ItemInv
<1>4. CallsInv'
  BY <1>1 DEF BodyInv, CallsInv
<1>5. LenInv'
  BY LenKeep DEF BodyInv, Owed
<1>6. SlotInv'
  BY SlotKeep DEF BodyInv, Owed
<1> QED
  BY <1>3, <1>4, <1>5, <1>6 DEF BodyInv

LEMMA ClaimData ==
  ASSUME WordInv, ShapeInv, FarInv, BodyInv, NEW t \in Threads, ClaimSlot(t)
  PROVE  BodyInv'
<1>1. /\ Moves(t, "room") /\ popFar <= pushFar /\ pc[t] = "claim"
      /\ slot'[t] = N /\ N \in Nat /\ N' = N + 1 /\ pushFar' = pushFar + 1
      /\ \A u \in Threads \ {t} : slot'[u] = slot[u]
  <2>1. popFar' = popFar /\ pc[t] = "claim"
    BY DEF ClaimSlot
  <2>2. pushFar \in Nat /\ popFar \in Nat
    BY DEF ShapeInv
  <2> QED
    BY <2>1, <2>2, ClaimTypes DEF N
<1>2. UNCHANGED <<len, heap, used, taken, calls, at, val, op>>
  BY DEF ClaimSlot, history
<1>3. /\ At({"read"}) = {} /\ At({"read", "uncount", "undo"}) = {}
      /\ Cardinality(At({"read", "uncount", "undo"})) = 0
      /\ op[t] = "push"
  <2>1. Pushing(t)
    BY <1>1 DEF Pushing
  <2> QED
    BY <2>1, NoTakers
<1>4. At({"read"})' = {} /\ At({"read", "uncount", "undo"})' = At({"read", "uncount", "undo"})
  BY <1>1, <1>3, AtSame
<1>5. At(Owed)' = At(Owed) \cup {t} /\ t \notin At(Owed) /\ At(Owed) \subseteq Threads
  <2>1. pc[t] \notin Owed /\ "room" \in Owed
    BY <1>1 DEF Owed
  <2>2. At(Owed)' = At(Owed) \cup {t}
    BY <1>1, <2>1, AtMore
  <2> QED
    BY <2>1, <2>2 DEF At
<1>6. t \in Before /\ Before' = Before \ {t} /\ Before \subseteq Threads
  BY <1>1, <1>2, <1>3 DEF Before, Moves
<1>7. CallsInv'
  <2>1. Cardinality(Before') = Cardinality(Before) - 1 /\ Cardinality(Before) \in Nat
    BY <1>6, OneLess, ThreadSets
  <2> QED
    BY <1>1, <1>2, <2>1, WordNat DEF BodyInv, CallsInv, ShapeInv
<1>8. LenInv'
  <2>1. Cardinality(At(Owed \cup {"count"})') = Cardinality(At(Owed \cup {"count"})) + 1
        /\ Cardinality(At(Owed \cup {"count"})) \in Nat
    BY <1>1, AtMore, AtNat DEF Owed
  <2>2. Cardinality(At(Owed \cup {"count"}))' = Cardinality(At(Owed \cup {"count"})')
    BY DEF Owed
  <2> QED
    BY <1>1, <1>2, <1>3, <1>4, <2>1, <2>2 DEF BodyInv, LenInv
<1>9. \A u \in At(Owed) : slot[u] \in Nat /\ slot[u] < N /\ slot'[u] = slot[u]
  BY <1>1, <1>5 DEF BodyInv, SlotInv, PlacesInv, At, ShapeInv
<1>10. Size \in Nat
  BY SizeFacts DEF ShapeInv
<1>11. SlotInv'
  <2>1. PlacesInv'
    <3>1. ASSUME NEW u \in Threads
          PROVE  /\ pc'[u] \in Owed => slot'[u] < N + 1
                 /\ pc'[u] # "read"
                 /\ pc'[u] = "write" => slot'[u] < Size /\ at'[u] = Len(heap)
                 /\ pc'[u] = "first" => slot'[u] = 0 /\ heap = <<>>
                 /\ pc'[u] \in {"drain", "grow"} => slot'[u] = Size /\ heap # <<>>
                 /\ pc'[u] = "grow" => /\ at'[u] = Len(heap)
                                       /\ \A w \in At(Owed)' : Size <= slot'[w]
      <4>1. CASE u = t
        BY <1>1, <4>1 DEF Moves
      <4>2. CASE u # t
        <5>1. pc'[u] = pc[u] /\ slot'[u] = slot[u] /\ at'[u] = at[u]
          BY <1>1, <1>2, <4>2 DEF Moves
        <5>2. pc[u] # "read"
          BY <1>3 DEF At
        <5>3. pc[u] \in Owed => slot'[u] < N + 1
          BY <1>1, <1>9, <5>1 DEF At
        <5>4. ASSUME pc[u] = "grow" PROVE \A w \in At(Owed)' : Size <= slot'[w]
          <6>1. Size < N
            <7>1. slot[u] = Size /\ slot[u] < N
              BY <5>4 DEF BodyInv, SlotInv, PlacesInv, Owed
            <7> QED
              BY <7>1
          <6>2. \A w \in At(Owed) : Size <= slot[w]
            BY <5>4 DEF BodyInv, SlotInv, PlacesInv
          <6> QED
            BY <1>1, <1>5, <1>9, <1>10, <6>1, <6>2
        <5> QED
          BY <5>1, <5>2, <5>3, <5>4 DEF BodyInv, SlotInv, PlacesInv
      <4> QED
        BY <4>1, <4>2
    <3> QED
      BY <1>1, <1>2, <3>1, SameHeap DEF PlacesInv, Owed
  <2>2. ApartInv'
    <3>1. \A u, w \in At(Owed)' : slot'[u] = slot'[w] => u = w
      BY <1>1, <1>5, <1>9 DEF BodyInv, SlotInv, ApartInv
    <3> QED
      BY <1>4, <3>1 DEF ApartInv, Owed
  <2>3. CoveredInv'
    <3>1. \A s \in 0..N : s < Size \/ \E u \in At(Owed)' : slot'[u] = s
      <4> TAKE s \in 0..N
      <4>1. CASE s = N
        BY <1>1, <1>5, <4>1
      <4>2. CASE s # N
        <5>1. s \in 0..(N - 1)
          BY <1>1, <4>2
        <5> QED
          BY <1>5, <1>9, <5>1 DEF BodyInv, SlotInv, CoveredInv
      <4> QED
        BY <4>1, <4>2
    <3>2. 0..(N' - 1) = 0..N
      BY <1>1
    <3> QED
      BY <1>2, <3>1, <3>2, SameHeap DEF CoveredInv, Owed
  <2>4. FilledInv'
    <3>1. ASSUME NEW s \in Slots
          PROVE  Cur[s] # Empty <=> s < N + 1 /\ \A u \in At(Owed)' : slot'[u] # s
      <4>1. s \in Nat
        BY <1>10 DEF Slots
      <4>2. Cur[s] # Empty <=> s < N /\ \A u \in At(Owed) : slot[u] # s
        BY <1>3 DEF BodyInv, SlotInv, FilledInv
      <4>3. CASE s = N
        BY <1>1, <1>5, <4>2, <4>3
      <4>4. CASE s # N
        BY <1>1, <1>5, <1>9, <4>1, <4>2, <4>4
      <4> QED
        BY <4>3, <4>4
    <3> QED
      BY <1>1, <1>2, <1>4, <3>1, SameHeap DEF FilledInv, Owed
  <2> QED
    BY <2>1, <2>2, <2>3, <2>4 DEF SlotInv
<1>12. ItemInv'
  <2>1. Carriers' = Carriers
    BY <1>5, <1>6 DEF Carriers
  <2>2. \A u \in Threads : op'[u] # "push" => val'[u] = Empty
    BY <1>2 DEF BodyInv, ItemInv
  <2> QED
    BY <1>2, <2>1, <2>2, ItemKeep, SameHeap DEF BodyInv
<1> QED
  BY <1>7, <1>8, <1>11, <1>12 DEF BodyInv

LEMMA RoomData ==
  ASSUME WordInv, ShapeInv, FarInv, BodyInv, NEW t \in Threads, Room(t) \/ LoadAlloc(t)
  PROVE  BodyInv'
<1>1. UNCHANGED <<pushFar, popFar, len, heap, used, taken, calls, slot, val, op>>
  BY DEF Room, LoadAlloc, counts, locals, history
<1>2. /\ Size \in Nat /\ (heap = <<>> => Size = 0) /\ (heap # <<>> => Size >= 1)
  BY SizeFacts DEF ShapeInv
<1>3. CASE Room(t)
  <2>1. PICK b \in {"first", "drain", "load"} :
          /\ pc' = [pc EXCEPT ![t] = b]
          /\ b = "first" => slot[t] = Size /\ Size = 0
          /\ b = "drain" => slot[t] = Size /\ Size # 0
    BY <1>3 DEF Room, Goto
  <2>2. Moves(t, b) /\ at' = at /\ pc[t] \in Owed /\ b \in Owed
    BY <1>3, <2>1, MoveIs DEF Room, locals, Owed
  <2> QED
    BY <1>1, <1>2, <2>1, <2>2, OwedData
<1>4. CASE LoadAlloc(t)
  <2>1. Moves(t, "write") /\ pc[t] \in Owed /\ "write" \in Owed /\ slot[t] < Size
    BY <1>4, MoveIs DEF LoadAlloc, Goto, Owed
  <2>2. at'[t] = Len(heap) /\ \A u \in Threads \ {t} : at'[u] = at[u]
    BY <1>4 DEF LoadAlloc, ShapeInv
  <2> QED
    BY <1>1, <2>1, <2>2, OwedData
<1> QED
  BY <1>3, <1>4

-----------------------------------------------------------------------------
(* The copy.                                                                   *)

\* When as many elements are counted as there are slots, the owners of the slots
\* behind the vector are all there is under way: the slots in it are written.
LEMMA AllWritten ==
  ASSUME WordInv, ShapeInv, BodyInv, NEW t \in Threads, Pushing(t), len = Size, Size < N
  PROVE  \A u \in At(Owed) : Size <= slot[u]
<1> DEFINE P == Owed \cup {"count"}
           S == Size..(N - 1)
           T == At(P)
           f == [s \in S |-> CHOOSE u \in At(Owed) : slot[u] = s]
<1>1. Size \in Nat /\ N \in Int
  BY SizeFacts DEF ShapeInv, N
<1>2. /\ IsFiniteSet(T) /\ Cardinality(T) \in Nat /\ At(Owed) \subseteq T
  <2>1. T \subseteq Threads /\ At(Owed) \subseteq T
    BY DEF At
  <2> QED
    BY <2>1, ThreadSets
<1>3. Cardinality(T) = N - Size
  <2>1. Cardinality(At({"read", "uncount", "undo"})) = 0
    BY NoTakers
  <2> QED
    BY <1>1, <1>2, <2>1 DEF BodyInv, LenInv
<1>4. Cardinality(S) = N - Size
  BY <1>1, FS_Interval
<1>5. \A s \in S : f[s] \in At(Owed) /\ slot[f[s]] = s
  <2> TAKE s \in S
  <2>1. s \in 0..(N - 1) /\ ~(s < Size)
    BY <1>1
  <2>2. \E u \in At(Owed) : slot[u] = s
    BY <2>1 DEF BodyInv, SlotInv, CoveredInv
  <2> QED
    BY <2>2
<1>6. f \in Injection(S, T)
  <2>1. f \in [S -> T]
    BY <1>2, <1>5
  <2>2. \A s, r \in S : f[s] = f[r] => s = r
    <3> HIDE DEF f
    <3> QED
      BY <1>5
  <2> HIDE DEF f, S, T
  <2> QED
    BY <2>1, <2>2 DEF Injection, IsInjective
<1>7. f \in Surjection(S, T)
  BY <1>2, <1>3, <1>4, <1>6, FS_Injection
<1>8. \A u \in T : \E s \in S : f[s] = u
  BY <1>7 DEF Surjection
<1> QED
  <2> SUFFICES ASSUME NEW u \in At(Owed) PROVE Size <= slot[u]
    OBVIOUS
  <2>1. PICK s \in S : f[s] = u
    BY <1>2, <1>8
  <2>2. slot[u] = s
    BY <1>5, <2>1
  <2> QED
    BY <1>1, <2>2

LEMMA DrainData ==
  ASSUME WordInv, ShapeInv, BodyInv, NEW t \in Threads, Drain(t)
  PROVE  BodyInv'
<1>1. UNCHANGED <<pushFar, popFar, len, heap, used, taken, calls, slot, val, op>>
  BY DEF Drain, counts, history
<1>2. pc[t] = "drain" /\ len = slot[t] /\ slot[t] = Size /\ heap # <<>> /\ slot[t] < N
  BY DEF Drain, BodyInv, SlotInv, PlacesInv, Owed
<1>3. Pushing(t)
  BY <1>2 DEF Pushing
<1>4. \A u \in At(Owed) : Size <= slot[u]
  BY <1>2, <1>3, AllWritten
<1>5. Moves(t, "grow") /\ pc[t] \in Owed /\ "grow" \in Owed
  BY <1>2, MoveIs DEF Drain, Goto, Owed
<1>6. at'[t] = Len(heap) /\ \A u \in Threads \ {t} : at'[u] = at[u]
  BY DEF Drain, ShapeInv
<1> QED
  BY <1>1, <1>2, <1>4, <1>5, <1>6, OwedData

\* A new allocation behind the others, with the same elements in front.
LEMMA MoreData ==
  ASSUME WordInv, ShapeInv, BodyInv, NEW t \in Threads, Moves(t, "load"), Pushing(t),
         pc[t] \in Owed, slot[t] = Size,
         UNCHANGED <<pushFar, popFar, len, used, taken, calls, slot, val, op, at>>,
         \A u \in At(Owed) : Size <= slot[u],
         \A u \in Threads : pc[u] \in {"first", "drain", "grow"} => u = t,
         NEW a \in Allocs, heap' = Append(heap, a), Size < SizeOf(a),
         \A s \in 0..(Size - 1) : a[s] = Cur[s],
         \A s \in 0..(SizeOf(a) - 1) : Size <= s => a[s] = Empty
  PROVE  BodyInv'
<1>1. Size \in Nat /\ SizeOf(a) \in Nat
  BY SizeFacts, AllocFacts DEF ShapeInv
<1>2. Cur' = a /\ Size' = SizeOf(a)
  BY HeapMore DEF ShapeInv
<1>3. /\ At({"read"}) = {} /\ op[t] = "push"
  BY NoTakers
<1>4. At(Owed)' = At(Owed) /\ At({"read"})' = {} /\ At(Owed) \subseteq Threads
  <2>1. "load" \in Owed /\ (pc[t] \in {"read"} <=> "load" \in {"read"})
    BY DEF Owed
  <2>2. At(Owed)' = At(Owed) /\ At({"read"})' = At({"read"})
    BY <2>1, AtSame
  <2> QED
    BY <1>3, <2>2 DEF At
<1>5. Before' = Before /\ Carriers' = Carriers
  <2>1. Before' = Before
    BY DEF Before, Moves, Owed
  <2> QED
    BY <1>4, <2>1 DEF Carriers
<1>6. CallsInv'
  BY <1>5 DEF BodyInv, CallsInv
<1>7. LenInv'
  BY LenKeep DEF BodyInv, Owed
<1>8. N' = N /\ N \in Int
  BY DEF N, ShapeInv
<1>9. SlotInv'
  <2>1. PlacesInv'
    <3>1. ASSUME NEW u \in Threads
          PROVE  /\ pc'[u] \in Owed => slot'[u] < N
                 /\ pc'[u] \notin {"read", "write", "first", "drain", "grow"}
      <4>1. CASE u = t
        BY <4>1 DEF Moves, BodyInv, SlotInv, PlacesInv
      <4>2. CASE u # t
        <5>1. pc'[u] = pc[u] /\ slot'[u] = slot[u] /\ slot[u] \in Nat
          BY <4>2 DEF Moves, ShapeInv
        <5>2. pc[u] \notin {"first", "drain", "grow"} /\ pc[u] # "read"
          BY <1>3, <4>2 DEF At
        <5>3. pc[u] # "write"
          <6>1. SUFFICES ASSUME pc[u] = "write" PROVE FALSE
            OBVIOUS
          <6>2. slot[u] < Size /\ Size <= slot[u]
            BY <6>1 DEF BodyInv, SlotInv, PlacesInv, Owed, At
          <6> QED
            BY <1>1, <5>1, <6>2
        <5> QED
          BY <5>1, <5>2, <5>3 DEF BodyInv, SlotInv, PlacesInv
      <4> QED
        BY <4>1, <4>2
    <3> QED
      BY <1>8, <3>1 DEF PlacesInv, Owed
  <2>2. ApartInv'
    BY <1>4 DEF BodyInv, SlotInv, ApartInv
  <2>3. CoveredInv'
    BY <1>1, <1>2, <1>4, <1>8 DEF BodyInv, SlotInv, CoveredInv
  <2>4. FilledInv'
    <3>1. ASSUME NEW s \in 0..(SizeOf(a) - 1)
          PROVE  a[s] # Empty <=> s < N /\ \A u \in At(Owed) : slot[u] # s
      <4>1. CASE s < Size
        <5>1. s \in Slots
          BY <1>1, <4>1 DEF Slots
        <5> QED
          BY <1>3, <4>1, <5>1 DEF BodyInv, SlotInv, FilledInv, Slots
      <4>2. CASE Size <= s
        <5>1. a[s] = Empty
          BY <4>2
        <5>2. s < N => \E u \in At(Owed) : slot[u] = s
          <6>1. s < N => s \in 0..(N - 1) /\ ~(s < Size)
            BY <1>1, <1>8, <4>2
          <6> QED
            BY <6>1 DEF BodyInv, SlotInv, CoveredInv
        <5> QED
          BY <5>1, <5>2
      <4> QED
        BY <1>1, <4>1, <4>2
    <3> QED
      BY <1>2, <1>4, <1>8, <3>1 DEF FilledInv, Slots
  <2> QED
    BY <2>1, <2>2, <2>3, <2>4 DEF SlotInv
<1>10. ItemInv'
  <2>1. \A s \in Slots : s \in Slots' /\ a[s] = Cur[s]
    BY <1>1, <1>2 DEF Slots
  <2>2. \A s \in Slots' : a[s] # Empty => s \in Slots
    BY <1>1, <1>2 DEF Slots
  <2>3. Stored' = Stored
    BY <1>2, <2>1, <2>2 DEF Stored
  <2>4. \A s, r \in Slots' : Cur'[s] # Empty /\ Cur'[s] = Cur'[r] => s = r
    BY <1>2, <2>1, <2>2 DEF BodyInv, ItemInv
  <2>5. Gone' = Gone
    BY DEF Gone
  <2> QED
    BY <1>5, <2>3, <2>4, <2>5 DEF BodyInv, ItemInv
<1> QED
  BY <1>6, <1>7, <1>9, <1>10 DEF BodyInv

LEMMA FirstAllocData ==
  ASSUME WordInv, ShapeInv, BodyInv, NEW t \in Threads, FirstAlloc(t)
  PROVE  BodyInv'
<1>1. pc[t] = "first" /\ slot[t] = 0 /\ heap = <<>> /\ Size = 0
  BY SizeFacts DEF FirstAlloc, BodyInv, SlotInv, PlacesInv, ShapeInv
<1>2. /\ UNCHANGED <<pushFar, popFar, len, used, taken, calls, slot, val, op, at>>
      /\ Moves(t, "load") /\ Pushing(t) /\ pc[t] \in Owed
  BY <1>1, MoveIs DEF FirstAlloc, Goto, Owed, Pushing, counts, locals, history
<1>3. \A u \in At(Owed) : Size <= slot[u]
  BY <1>1 DEF At, ShapeInv
<1>4. \A u \in Threads : pc[u] \in {"first", "drain", "grow"} => u = t
  <2> TAKE u \in Threads
  <2> HAVE pc[u] \in {"first", "drain", "grow"}
  <2>1. pc[u] = "first" /\ slot[u] = 0
    BY <1>1 DEF BodyInv, SlotInv, PlacesInv
  <2> QED
    BY <1>1, <2>1 DEF BodyInv, SlotInv, ApartInv, At, Owed
<1>5. /\ Blank \in Allocs /\ heap' = Append(heap, Blank) /\ Size < SizeOf(Blank)
      /\ \A s \in 0..(SizeOf(Blank) - 1) : Blank[s] = Empty
  BY <1>1, BlankAlloc DEF FirstAlloc
<1>6. \A s \in 0..(Size - 1) : Blank[s] = Cur[s]
  BY <1>1
<1> QED
  BY <1>1, <1>2, <1>3, <1>4, <1>5, <1>6, MoreData

LEMMA GrowData ==
  ASSUME WordInv, ShapeInv, BodyInv, NEW t \in Threads, Grow(t)
  PROVE  BodyInv'
<1>1. /\ pc[t] = "grow" /\ slot[t] = Size /\ heap # <<>> /\ at[t] = Len(heap)
      /\ \A u \in At(Owed) : Size <= slot[u]
  BY DEF Grow, BodyInv, SlotInv, PlacesInv
<1>2. /\ UNCHANGED <<pushFar, popFar, len, used, taken, calls, slot, val, op, at>>
      /\ Moves(t, "load") /\ Pushing(t) /\ pc[t] \in Owed
  BY <1>1, MoveIs DEF Grow, Goto, Owed, Pushing, counts, locals, history
<1>3. \A u \in Threads : pc[u] \in {"first", "drain", "grow"} => u = t
  <2> TAKE u \in Threads
  <2> HAVE pc[u] \in {"first", "drain", "grow"}
  <2>1. pc[u] \in {"drain", "grow"} /\ slot[u] = Size
    BY <1>1 DEF BodyInv, SlotInv, PlacesInv
  <2> QED
    BY <1>1, <2>1 DEF BodyInv, SlotInv, ApartInv, At, Owed
<1>4. Cur \in Allocs /\ SizeOf(Cur) = Size
  BY <1>1, SizeFacts DEF ShapeInv
<1>5. /\ Grown(Cur) \in Allocs /\ Size < SizeOf(Grown(Cur))
      /\ \A s \in 0..(Size - 1) : Grown(Cur)[s] = Cur[s]
      /\ \A s \in 0..(SizeOf(Grown(Cur)) - 1) : Size <= s => Grown(Cur)[s] = Empty
  BY <1>4, GrownAlloc
<1>6. heap' = Append(heap, Grown(Cur))
  BY <1>1 DEF Grow, Cur
<1> QED
  BY <1>1, <1>2, <1>3, <1>5, <1>6, MoreData

-----------------------------------------------------------------------------
(* An element goes into its slot.                                              *)

LEMMA WriteHeap ==
  ASSUME WordInv, ShapeInv, BodyInv, NEW t \in Threads, WriteSlot(t)
  PROVE  /\ slot[t] \in Slots /\ slot[t] < N /\ val[t] \in Items /\ val[t] # Empty
         /\ Cur[slot[t]] = Empty
         /\ Size' = Size /\ Slots' = Slots /\ Len(heap') = Len(heap) /\ heap # <<>>
         /\ Cur'[slot[t]] = val[t] /\ \A s \in Slots : s # slot[t] => Cur'[s] = Cur[s]
         /\ Stored' = Stored \cup {val[t]}
<1>1. pc[t] = "write" /\ slot[t] < Size /\ at[t] = Len(heap) /\ slot[t] < N /\ Size \in Nat
      /\ slot[t] \in Nat /\ at[t] \in 1..Len(heap)
  BY SizeFacts DEF WriteSlot, BodyInv, SlotInv, PlacesInv, Owed, ShapeInv
<1>2. heap # <<>> /\ slot[t] \in Slots
  BY <1>1 DEF ShapeInv, Slots
<1>3. t \in At(Owed) /\ t \in Carriers
  BY <1>1 DEF At, Owed, Carriers
<1>4. val[t] \in Items /\ val[t] # Empty
  BY <1>3, VecAssumption DEF BodyInv, ItemInv, ShapeInv
<1>5. Cur[slot[t]] = Empty
  <2>1. At({"read"}) = {}
    BY <1>1, NoTakers DEF Pushing
  <2> QED
    BY <1>2, <1>3, <2>1 DEF BodyInv, SlotInv, FilledInv
<1>6. Cur \in Allocs /\ DOMAIN Cur = Slots /\ SizeOf(Cur) = Size
  BY <1>2, SizeFacts DEF ShapeInv, Slots
<1> DEFINE a == [Cur EXCEPT ![slot[t]] = val[t]]
<1>7. /\ a \in Allocs /\ SizeOf(a) = Size /\ a[slot[t]] = val[t]
      /\ \A s \in Slots : s # slot[t] => a[s] = Cur[s]
  <2>1. val[t] \in Cells /\ slot[t] \in DOMAIN Cur
    BY <1>2, <1>4, <1>6 DEF Cells
  <2>2. a \in Allocs /\ SizeOf(a) = SizeOf(Cur)
    BY <1>6, <2>1, WrittenAlloc
  <2>3. a[slot[t]] = val[t] /\ \A s \in DOMAIN Cur : s # slot[t] => a[s] = Cur[s]
    BY <1>6, <2>1, WrittenAlloc
  <2> HIDE DEF a
  <2> QED
    BY <1>6, <2>2, <2>3
<1>8. heap' = [heap EXCEPT ![Len(heap)] = a]
  BY <1>1 DEF WriteSlot, Cur
<1>9. Len(heap) \in 1..Len(heap)
  BY <1>1
<1> HIDE DEF a
<1>10. Cur' = a /\ Size' = Size /\ Len(heap') = Len(heap)
  BY <1>7, <1>8, <1>9, HeapAgain DEF ShapeInv
<1>11. Slots' = Slots
  BY <1>10 DEF Slots
<1>12. Stored' = Stored \cup {val[t]}
  BY <1>2, <1>4, <1>5, <1>7, <1>10, <1>11 DEF Stored
<1> QED
  BY <1>1, <1>2, <1>4, <1>5, <1>7, <1>10, <1>11, <1>12

LEMMA WriteData ==
  ASSUME WordInv, ShapeInv, BodyInv, NEW t \in Threads, WriteSlot(t)
  PROVE  BodyInv'
<1>1. /\ pc[t] = "write" /\ Moves(t, "count")
      /\ UNCHANGED <<pushFar, popFar, len, used, taken, calls, slot, val, op, at>>
  BY MoveIs DEF WriteSlot, Goto, counts, locals, history
<1>2. /\ slot[t] \in Slots /\ slot[t] < N /\ val[t] \in Items /\ val[t] # Empty
      /\ Cur[slot[t]] = Empty
      /\ Size' = Size /\ Slots' = Slots /\ Len(heap') = Len(heap) /\ heap # <<>>
      /\ Cur'[slot[t]] = val[t] /\ \A s \in Slots : s # slot[t] => Cur'[s] = Cur[s]
      /\ Stored' = Stored \cup {val[t]}
  BY WriteHeap
<1>3. At({"read"}) = {} /\ At({"read"})' = {} /\ op[t] = "push"
  <2>1. At({"read"}) = {} /\ op[t] = "push"
    BY <1>1, NoTakers DEF Pushing
  <2> QED
    BY <1>1, <2>1, AtSame
<1>4. At(Owed)' = At(Owed) \ {t} /\ t \in At(Owed) /\ At(Owed) \subseteq Threads
  <2>1. pc[t] \in Owed /\ "count" \notin Owed
    BY <1>1 DEF Owed
  <2>2. At(Owed)' = At(Owed) \ {t}
    BY <1>1, <2>1, AtLess
  <2> QED
    BY <2>1, <2>2 DEF At
<1>5. Before' = Before /\ t \notin Before /\ Carriers' = Carriers \ {t} /\ t \in Carriers
  <2>1. Before' = Before /\ t \notin Before
    BY <1>1 DEF Before, Moves
  <2> QED
    BY <1>4, <2>1 DEF Carriers
<1>6. CallsInv'
  BY <1>1, <1>5 DEF BodyInv, CallsInv
<1>7. LenInv'
  BY <1>1, LenKeep DEF BodyInv, Owed
<1>8. N' = N
  BY <1>1 DEF N
<1>9. SlotInv'
  <2>1. PlacesInv'
    <3>1. ASSUME NEW u \in Threads
          PROVE  /\ pc'[u] \in Owed => slot'[u] < N
                 /\ pc'[u] # "read"
                 /\ pc'[u] = "write" => slot'[u] < Size /\ at'[u] = Len(heap)
                 /\ pc'[u] = "first" => slot'[u] = 0 /\ heap = <<>>
                 /\ pc'[u] \in {"drain", "grow"} => slot'[u] = Size /\ heap # <<>>
                 /\ pc'[u] = "grow" => /\ at'[u] = Len(heap)
                                       /\ \A w \in At(Owed)' : Size <= slot'[w]
      <4>1. CASE u = t
        BY <1>1, <4>1 DEF Moves, Owed
      <4>2. CASE u # t
        <5>1. pc'[u] = pc[u] /\ pc[u] # "read"
          BY <1>1, <1>3, <4>2 DEF Moves, At
        <5> QED
          BY <1>1, <1>4, <5>1 DEF BodyInv, SlotInv, PlacesInv
      <4> QED
        BY <4>1, <4>2
    <3>2. heap' # <<>>
      BY <1>2 DEF ShapeInv
    <3> QED
      BY <1>2, <1>8, <3>1, <3>2 DEF PlacesInv, Owed
  <2>2. ApartInv'
    BY <1>1, <1>3, <1>4 DEF BodyInv, SlotInv, ApartInv
  <2>3. CoveredInv'
    <3>1. ASSUME NEW s \in 0..(N - 1) PROVE s < Size \/ \E u \in At(Owed)' : slot'[u] = s
      <4>1. s < Size \/ \E u \in At(Owed) : slot[u] = s
        BY DEF BodyInv, SlotInv, CoveredInv
      <4>2. slot[t] < Size
        BY <1>2, SizeFacts DEF Slots, ShapeInv
      <4> QED
        BY <1>1, <1>4, <4>1, <4>2
    <3> QED
      BY <1>2, <1>8, <3>1 DEF CoveredInv, Owed
  <2>4. FilledInv'
    <3>1. ASSUME NEW s \in Slots
          PROVE  Cur'[s] # Empty <=> s < N /\ \A u \in At(Owed)' : slot'[u] # s
      <4>1. CASE s = slot[t]
        BY <1>1, <1>2, <1>4, <4>1 DEF BodyInv, SlotInv, ApartInv
      <4>2. CASE s # slot[t]
        BY <1>1, <1>2, <1>3, <1>4, <4>2 DEF BodyInv, SlotInv, FilledInv
      <4> QED
        BY <4>1, <4>2
    <3> QED
      BY <1>2, <1>3, <1>8, <3>1 DEF FilledInv, Owed
  <2> QED
    BY <2>1, <2>2, <2>3, <2>4 DEF SlotInv
<1>10. ItemInv'
  <2>1. Gone' = Gone
    BY <1>1 DEF Gone
  <2>2. /\ \A u \in Carriers : val[u] \in used /\ val[u] \notin Stored /\ val[u] \notin Gone
        /\ \A u, w \in Carriers : val[u] = val[w] => u = w
    BY DEF BodyInv, ItemInv
  <2>3. {val'[u] : u \in Carriers'} = {val[u] : u \in Carriers} \ {val[t]}
    BY <1>1, <1>5, <2>2
  <2>4. used' = {val'[u] : u \in Carriers'} \cup Stored' \cup Gone'
    BY <1>1, <1>2, <1>5, <2>1, <2>3 DEF BodyInv, ItemInv
  <2>5. \A u \in Carriers' : val'[u] \in used' /\ val'[u] \notin Stored' /\ val'[u] \notin Gone'
    BY <1>1, <1>2, <1>5, <2>1, <2>2
  <2>6. \A u, w \in Carriers' : val'[u] = val'[w] => u = w
    BY <1>1, <1>5, <2>2
  <2>7. Stored' \cap Gone' = {}
    BY <1>2, <1>5, <2>1, <2>2 DEF BodyInv, ItemInv
  <2>8. \A s, r \in Slots : Cur'[s] # Empty /\ Cur'[s] = Cur'[r] => s = r
    <3>1. \A s \in Slots : Cur[s] # val[t]
      BY <1>2, <1>5, <2>2 DEF Stored
    <3> QED
      BY <1>2, <3>1 DEF BodyInv, ItemInv
  <2> QED
    BY <1>1, <1>2, <2>4, <2>5, <2>6, <2>7, <2>8 DEF BodyInv, ItemInv
<1> QED
  BY <1>6, <1>7, <1>9, <1>10 DEF BodyInv

\* The slots, seen from a call that is done with them.
LEMMA AwayData ==
  ASSUME BodyInv, NEW t \in Threads, NEW b, Moves(t, b),
         pc[t] \notin Owed \cup {"read"}, b \notin Owed \cup {"read"},
         pc[t] \notin {"look", "cas", "popFar", "claim"},
         b \notin {"look", "cas", "popFar", "claim"},
         UNCHANGED <<pushFar, popFar, heap, used, taken, calls, slot, val, op, at>>
  PROVE  CallsInv' /\ SlotInv' /\ ItemInv'
<1>1. Before' = Before
  BY DEF Before, Moves
<1>2. Carriers' = Carriers
  <2>1. At(Owed)' = At(Owed)
    BY AtSame
  <2> QED
    BY <1>1, <2>1 DEF Carriers
<1>3. ItemInv'
  BY <1>2, ItemKeep, SameHeap DEF BodyInv, ItemInv
<1>4. CallsInv'
  BY <1>1 DEF BodyInv, CallsInv
<1>5. SlotInv'
  <2>1. b \notin {"write", "first", "drain", "grow"}
    BY DEF Owed
  <2> QED
    BY <2>1, SlotKeep DEF BodyInv
<1> QED
  BY <1>3, <1>4, <1>5

LEMMA SmallWord ==
  ASSUME NEW n \in 0..(Word - 1)
  PROVE  n % Word = n
BY WordNat

LEMMA CountUpData ==
  ASSUME WordInv, ShapeInv, BodyInv, NEW t \in Threads, CountUp(t)
  PROVE  BodyInv'
<1>1. /\ pc[t] = "count" /\ Moves(t, "leave") /\ len' = (len + 1) % Word
      /\ UNCHANGED <<pushFar, popFar, heap, used, taken, calls, slot, val, op, at>>
  BY MoveIs DEF CountUp, Goto, locals, history
<1>2. CallsInv' /\ SlotInv' /\ ItemInv'
  BY <1>1, AwayData DEF Owed
<1>3. /\ At({"read", "uncount", "undo"}) = {}
      /\ Cardinality(At({"read", "uncount", "undo"})) = 0
  BY <1>1, NoTakers DEF Pushing
<1>4. At({"read", "uncount", "undo"})' = At({"read", "uncount", "undo"})
  BY <1>1, AtSame
<1>5. /\ Cardinality(At(Owed \cup {"count"})') = Cardinality(At(Owed \cup {"count"})) - 1
      /\ Cardinality(At(Owed \cup {"count"})) \in Nat
      /\ Cardinality(At(Owed \cup {"count"})) >= 1
  <2>1. pc[t] \in Owed \cup {"count"} /\ "leave" \notin Owed \cup {"count"}
    BY <1>1 DEF Owed
  <2> QED
    BY <1>1, <2>1, AtLess, AtNat
<1>6. Cardinality(Before) \in Nat
  <2>1. Before \subseteq Threads
    BY DEF Before
  <2> QED
    BY <2>1, ThreadSets
<1>7. len + 1 \in 0..(Word - 1)
  BY <1>3, <1>5, <1>6, WordNat, SMTT(20) DEF BodyInv, LenInv, CallsInv, ShapeInv, N
<1>8. len' = len + 1
  BY <1>1, <1>7, SmallWord
<1>9. LenInv'
  <2>1. Cardinality(At(Owed \cup {"count"}))' = Cardinality(At(Owed \cup {"count"})')
    BY DEF Owed
  <2>2. N' = N /\ N \in Int
    BY <1>1 DEF N, ShapeInv
  <2> QED
    BY <1>3, <1>4, <1>5, <1>8, <2>1, <2>2 DEF BodyInv, LenInv, ShapeInv
<1> QED
  BY <1>2, <1>9 DEF BodyInv

LEMMA CountDownData ==
  ASSUME WordInv, ShapeInv, FarInv, BodyInv, NEW t \in Threads, CountDown(t)
  PROVE  BodyInv'
<1> DEFINE T == {"read", "uncount", "undo"}
<1>1. /\ pc[t] = "uncount" /\ Moves(t, "leave") /\ len' = (len - 1) % Word
      /\ UNCHANGED <<pushFar, popFar, heap, used, taken, calls, slot, val, op, at>>
  BY MoveIs DEF CountDown, Goto, locals, history
<1>2. CallsInv' /\ SlotInv' /\ ItemInv'
  BY <1>1, AwayData DEF Owed
<1>3. /\ At(Owed \cup {"count"}) = {} /\ Cardinality(At(Owed \cup {"count"})) = 0
      /\ At(Owed \cup {"count"})' = At(Owed \cup {"count"})
  <2>1. \A u \in Threads : pc[u] \notin Owed \cup {"count"}
    BY <1>1, Phases DEF Popping, Pushing, Owed
  <2>2. pc[t] \in Owed \cup {"count"} <=> "leave" \in Owed \cup {"count"}
    BY <1>1 DEF Owed
  <2> QED
    BY <1>1, <2>1, <2>2, AtNat, AtSame
<1>4. Cardinality(At(T)') = Cardinality(At(T)) - 1 /\ Cardinality(At(T)) \in Nat
  BY <1>1, AtLess, AtNat
<1>5. Cardinality(At(T)) >= Cardinality(At({"undo"})) + 1 /\ Cardinality(At({"undo"})) \in Nat
  <2>1. At({"undo"}) \cup {t} \subseteq At(T) /\ t \notin At({"undo"}) /\ At({"undo"}) \subseteq Threads
        /\ At(T) \subseteq Threads
    BY <1>1 DEF At
  <2>2. Cardinality(At({"undo"}) \cup {t}) = Cardinality(At({"undo"})) + 1
    BY <2>1, OneMore
  <2>3. Cardinality(At({"undo"}) \cup {t}) <= Cardinality(At(T))
    BY <2>1, ThreadSets, FS_Subset
  <2> QED
    BY <2>1, <2>2, <2>3, ThreadSets
<1>6. N + Cardinality(At({"undo"})) >= 0 /\ N \in Int /\ N' = N
  <2>1. CASE At({"undo"}) = {}
    BY <1>1, <1>5, <2>1 DEF FarInv, N, ShapeInv
  <2>2. CASE At({"undo"}) # {}
    BY <1>1, <1>5, <2>2 DEF FarInv, N, ShapeInv
  <2> QED
    BY <2>1, <2>2
<1>7. len - 1 \in 0..(Word - 1)
  BY <1>3, <1>4, <1>5, <1>6, WordNat DEF BodyInv, LenInv, ShapeInv
<1>8. len' = len - 1
  BY <1>1, <1>7, SmallWord
<1>9. LenInv'
  <2>1. Cardinality(At(Owed \cup {"count"}))' = Cardinality(At(Owed \cup {"count"})')
    BY DEF Owed
  <2> QED
    BY <1>3, <1>4, <1>6, <1>8, <2>1 DEF BodyInv, LenInv, ShapeInv
<1> QED
  BY <1>2, <1>9 DEF BodyInv

-----------------------------------------------------------------------------
(* An element comes out of its slot.                                           *)

LEMMA NoPushers ==
  ASSUME WordInv, NEW t \in Threads, Popping(t)
  PROVE  /\ At(Owed) = {} /\ At(Owed \cup {"count"}) = {}
         /\ Cardinality(At(Owed \cup {"count"})) = 0
         /\ op[t] = "pop"
<1>1. \A u \in Threads : pc[u] \notin Owed \cup {"count"}
  BY Phases DEF Pushing, Owed
<1>2. At(Owed) = {} /\ At(Owed \cup {"count"}) = {}
  BY <1>1 DEF At
<1> QED
  BY <1>2, FS_EmptySet DEF WordInv, PlaceInv

\* A step of pop that leaves the elements where they are.
LEMMA PopItems ==
  ASSUME BodyInv, WordInv, NEW t \in Threads, NEW b, Moves(t, b), Popping(t), b \notin Owed,
         heap' = heap, used' = used, taken' = taken, calls' = calls, pushFar' = pushFar,
         \A u \in Threads \ {t} : op'[u] = op[u] /\ val'[u] = val[u],
         op'[t] # "push", val'[t] = Empty
  PROVE  CallsInv' /\ ItemInv' /\ At(Owed)' = {}
<1>1. op[t] = "pop" /\ At(Owed) = {} /\ pc[t] \notin Owed
  BY NoPushers DEF Popping, Owed
<1>2. Before' = Before /\ t \notin Before
  BY <1>1 DEF Before, Moves
<1>3. At(Owed)' = {}
  BY <1>1, AtSame
<1>4. Carriers' = Carriers /\ t \notin Carriers
  BY <1>1, <1>2, <1>3 DEF Carriers
<1>5. ItemInv'
  <2>1. \A u \in Carriers : val'[u] = val[u]
    BY <1>4 DEF Carriers, Before, At
  <2>2. \A u \in Threads : op'[u] # "push" => val'[u] = Empty
    BY DEF BodyInv, ItemInv
  <2> QED
    BY <1>4, <2>1, <2>2, ItemKeep, SameHeap DEF BodyInv
<1>6. CallsInv'
  BY <1>2 DEF BodyInv, CallsInv
<1> QED
  BY <1>3, <1>5, <1>6

LEMMA TakeData ==
  ASSUME WordInv, ShapeInv, FarInv, BodyInv, NEW t \in Threads, TakeSlot(t)
  PROVE  BodyInv'
<1> DEFINE T == {"read", "uncount", "undo"}
<1>1. /\ pc[t] = "take" /\ Popping(t) /\ popFar' = popFar + 1
      /\ UNCHANGED <<pushFar, len, heap, used, taken, calls, val, op>>
  BY DEF TakeSlot, Popping, history
<1>2. /\ At(Owed) = {} /\ At(Owed \cup {"count"}) = {}
      /\ Cardinality(At(Owed \cup {"count"})) = 0
      /\ op[t] = "pop"
  BY <1>1, NoPushers
<1>3. N' = N - 1 /\ N \in Int
  BY <1>1 DEF N, ShapeInv
<1>4. \A u \in Threads \ {t} : slot'[u] = slot[u]
  BY TakeTypes
<1>5. PICK b \in {"undo", "read"} :
        /\ Moves(t, b)
        /\ b = "undo" => N <= 0
        /\ b = "read" => N >= 1 /\ slot'[t] = N - 1
  <2>1. CASE Moves(t, "undo") /\ pushFar <= popFar
    BY <2>1 DEF N, ShapeInv
  <2>2. CASE Moves(t, "read") /\ popFar < pushFar /\ slot'[t] = pushFar - popFar - 1
    BY <2>2 DEF N, ShapeInv
  <2> QED
    BY <2>1, <2>2, TakeTypes
<1>6. CallsInv' /\ ItemInv' /\ At(Owed)' = {}
  <2>1. val[t] = Empty /\ b \notin Owed
    BY <1>2, <1>5 DEF BodyInv, ItemInv, Owed
  <2> QED
    BY <1>1, <1>2, <1>5, <2>1, PopItems
<1>7. LenInv'
  <2>1. At(Owed \cup {"count"})' = At(Owed \cup {"count"})
    <3>1. pc[t] \in Owed \cup {"count"} <=> b \in Owed \cup {"count"}
      BY <1>1, <1>5 DEF Owed
    <3> QED
      BY <1>5, <3>1, AtSame
  <2>2. Cardinality(At(T)') = Cardinality(At(T)) + 1 /\ Cardinality(At(T)) \in Nat
    BY <1>1, <1>5, AtMore, AtNat
  <2>3. Cardinality(At(Owed \cup {"count"}))' = 0
    BY <1>2, <2>1 DEF Owed
  <2> QED
    BY <1>1, <1>2, <1>3, <2>2, <2>3 DEF BodyInv, LenInv
<1>8. Size \in Nat /\ \A u \in Threads : slot[u] \in Nat
  BY SizeFacts DEF ShapeInv
<1>9. b = "read" => N - 1 < Size
  <2>1. b = "read" => N - 1 \in 0..(N - 1)
    BY <1>3, <1>5
  <2> QED
    BY <1>2, <2>1 DEF BodyInv, SlotInv, CoveredInv
<1>10. SlotInv'
  <2>1. \A u \in Threads : /\ pc'[u] \notin Owed
                           /\ pc'[u] = "read" => N - 1 <= slot'[u] /\ slot'[u] < Size
    <3> TAKE u \in Threads
    <3>1. CASE u = t
      BY <1>3, <1>5, <1>9, <3>1 DEF Moves, Owed
    <3>2. CASE u # t
      <4>1. pc'[u] = pc[u] /\ slot'[u] = slot[u] /\ pc[u] \notin Owed
        BY <1>2, <1>4, <1>5, <3>2 DEF Moves, At
      <4>2. pc[u] = "read" => N <= slot[u] /\ slot[u] < Size
        BY DEF BodyInv, SlotInv, PlacesInv
      <4> QED
        BY <1>3, <1>8, <4>1, <4>2
    <3> QED
      BY <3>1, <3>2
  <2>2. PlacesInv'
    BY <1>1, <1>3, <2>1, SameHeap DEF PlacesInv, Owed
  <2>3. At({"read"})' = IF b = "read" THEN At({"read"}) \cup {t} ELSE At({"read"})
    BY <1>1, <1>5 DEF At, Moves
  <2>4. \A u \in At({"read"}) : /\ N <= slot[u] /\ slot[u] \in Nat /\ slot'[u] = slot[u]
                                /\ u # t
    BY <1>1, <1>4, <1>8 DEF BodyInv, SlotInv, PlacesInv, At
  <2>5. ApartInv'
    <3>1. ASSUME NEW u \in At({"read"})', NEW w \in At({"read"})', slot'[u] = slot'[w]
          PROVE  u = w
      <4>1. CASE b = "undo"
        BY <2>3, <2>4, <3>1, <4>1 DEF BodyInv, SlotInv, ApartInv
      <4>2. CASE b = "read"
        BY <1>3, <1>5, <2>3, <2>4, <3>1, <4>2 DEF BodyInv, SlotInv, ApartInv
      <4> QED
        BY <4>1, <4>2
    <3> QED
      BY <1>6, <3>1 DEF ApartInv, Owed
  <2>6. CoveredInv'
    <3>1. ASSUME NEW s \in 0..(N - 2) PROVE s < Size
      <4>1. s \in 0..(N - 1)
        BY <1>3
      <4> QED
        BY <1>2, <4>1 DEF BodyInv, SlotInv, CoveredInv
    <3>2. 0..(N' - 1) = 0..(N - 2)
      BY <1>3
    <3> QED
      BY <1>1, <3>1, <3>2, SameHeap DEF CoveredInv
  <2>7. FilledInv'
    <3>1. ASSUME NEW s \in Slots
          PROVE  Cur[s] # Empty <=> s < N - 1 \/ \E u \in At({"read"})' : slot'[u] = s
      <4>1. s \in Nat
        BY <1>8 DEF Slots
      <4>2. Cur[s] # Empty <=> s < N \/ \E u \in At({"read"}) : slot[u] = s
        BY <1>2 DEF BodyInv, SlotInv, FilledInv
      <4>3. CASE b = "undo"
        BY <1>3, <1>5, <2>3, <2>4, <4>1, <4>2, <4>3
      <4>4. CASE b = "read"
        <5>1. (\E u \in At({"read"})' : slot'[u] = s)
                <=> s = N - 1 \/ \E u \in At({"read"}) : slot[u] = s
          BY <1>5, <2>3, <2>4, <4>4
        <5> QED
          BY <1>3, <4>1, <4>2, <5>1
      <4> QED
        BY <4>3, <4>4
    <3> QED
      BY <1>1, <1>3, <1>6, <3>1, SameHeap DEF FilledInv, Owed
  <2> QED
    BY <2>2, <2>5, <2>6, <2>7 DEF SlotInv
<1> QED
  BY <1>6, <1>7, <1>10 DEF BodyInv

LEMMA UndoData ==
  ASSUME WordInv, ShapeInv, FarInv, BodyInv, NEW t \in Threads, Undo(t)
  PROVE  BodyInv'
<1> DEFINE T == {"read", "uncount", "undo"}
<1>1. /\ pc[t] = "undo" /\ Popping(t) /\ popFar' = popFar - 1 /\ pushFar < popFar /\ Finish(t)
      /\ UNCHANGED <<pushFar, len, heap, used, taken, calls>>
  BY UndoTypes DEF Undo, Popping
<1>2. /\ At(Owed) = {} /\ At(Owed \cup {"count"}) = {}
      /\ Cardinality(At(Owed \cup {"count"})) = 0
      /\ op[t] = "pop"
  BY <1>1, NoPushers
<1>3. /\ Moves(t, "idle") /\ op'[t] = "none" /\ val'[t] = Empty
      /\ \A u \in Threads \ {t} : /\ slot'[u] = slot[u] /\ val'[u] = val[u] /\ op'[u] = op[u]
                                  /\ at'[u] = at[u]
  BY <1>1, FinishTypes
<1>4. N' = N + 1 /\ N \in Int /\ N < 0
  BY <1>1 DEF N, ShapeInv
<1>5. CallsInv' /\ ItemInv' /\ At(Owed)' = {}
  BY <1>1, <1>3, PopItems DEF Owed
<1>6. LenInv'
  <2>1. At(Owed \cup {"count"})' = At(Owed \cup {"count"})
    <3>1. pc[t] \in Owed \cup {"count"} <=> "idle" \in Owed \cup {"count"}
      BY <1>1 DEF Owed
    <3> QED
      BY <1>3, <3>1, AtSame
  <2>2. Cardinality(At(T)') = Cardinality(At(T)) - 1 /\ Cardinality(At(T)) \in Nat
    BY <1>1, <1>3, AtLess, AtNat
  <2>3. Cardinality(At(Owed \cup {"count"}))' = 0
    BY <1>2, <2>1 DEF Owed
  <2> QED
    BY <1>1, <1>2, <1>4, <2>2, <2>3 DEF BodyInv, LenInv
<1>7. Size \in Nat /\ \A u \in Threads : slot[u] \in Nat
  BY SizeFacts DEF ShapeInv
<1>8. At({"read"})' = At({"read"}) /\ t \notin At({"read"}) /\ At({"read"}) \subseteq Threads
  <2>1. At({"read"})' = At({"read"})
    BY <1>1, <1>3, AtSame
  <2> QED
    BY <1>1, <2>1 DEF At
<1>9. SlotInv'
  <2>1. \A u \in Threads : /\ pc'[u] \notin Owed
                           /\ pc'[u] = "read" => N + 1 <= slot'[u] /\ slot'[u] < Size
    <3> TAKE u \in Threads
    <3>1. CASE u = t
      BY <1>3, <3>1 DEF Moves, Owed
    <3>2. CASE u # t
      <4>1. pc'[u] = pc[u] /\ slot'[u] = slot[u] /\ pc[u] \notin Owed
        BY <1>2, <1>3, <3>2 DEF Moves, At
      <4>2. pc[u] = "read" => N <= slot[u] /\ slot[u] < Size
        BY DEF BodyInv, SlotInv, PlacesInv
      <4> QED
        BY <1>4, <1>7, <4>1, <4>2
    <3> QED
      BY <3>1, <3>2
  <2>2. PlacesInv'
    BY <1>1, <1>4, <2>1, SameHeap DEF PlacesInv, Owed
  <2>3. \A u \in At({"read"}) : slot'[u] = slot[u]
    BY <1>3, <1>8
  <2>4. ApartInv'
    BY <1>5, <1>8, <2>3 DEF BodyInv, SlotInv, ApartInv, Owed
  <2>5. CoveredInv'
    <3>1. 0..(N' - 1) = {}
      BY <1>4
    <3> QED
      BY <3>1 DEF CoveredInv
  <2>6. FilledInv'
    <3>1. ASSUME NEW s \in Slots
          PROVE  Cur[s] # Empty <=> s < N + 1 \/ \E u \in At({"read"})' : slot'[u] = s
      <4>1. s \in Nat
        BY <1>7 DEF Slots
      <4>2. Cur[s] # Empty <=> s < N \/ \E u \in At({"read"}) : slot[u] = s
        BY <1>2 DEF BodyInv, SlotInv, FilledInv
      <4> QED
        BY <1>4, <1>8, <2>3, <4>1, <4>2
    <3> QED
      BY <1>1, <1>4, <1>5, <3>1, SameHeap DEF FilledInv, Owed
  <2> QED
    BY <2>2, <2>4, <2>5, <2>6 DEF SlotInv
<1> QED
  BY <1>5, <1>6, <1>9 DEF BodyInv

LEMMA ReadHeap ==
  ASSUME WordInv, ShapeInv, BodyInv, NEW t \in Threads, ReadSlot(t)
  PROVE  /\ heap # <<>> /\ slot[t] \in Slots /\ N <= slot[t] /\ Cur[slot[t]] # Empty
         /\ taken' = Append(taken, Cur[slot[t]]) /\ Cur[slot[t]] \in Cells
         /\ Size' = Size /\ Slots' = Slots /\ Len(heap') = Len(heap) /\ heap' # <<>>
         /\ Moves(t, "uncount")
         /\ Cur'[slot[t]] = Empty /\ \A s \in Slots : s # slot[t] => Cur'[s] = Cur[s]
         /\ Stored' = Stored \ {Cur[slot[t]]}
<1>1. pc[t] = "read" /\ slot[t] < Size /\ N <= slot[t] /\ Size \in Nat /\ slot[t] \in Nat
  BY SizeFacts DEF ReadSlot, BodyInv, SlotInv, PlacesInv, ShapeInv
<1>2. heap # <<>> /\ slot[t] \in Slots
  BY <1>1, SizeFacts DEF ShapeInv, Slots
<1>3. Cur[slot[t]] # Empty
  <2>1. t \in At({"read"})
    BY <1>1 DEF At
  <2> QED
    BY <1>2, <2>1 DEF BodyInv, SlotInv, FilledInv
<1>4. Cur \in Allocs /\ DOMAIN Cur = Slots /\ SizeOf(Cur) = Size /\ Cur[slot[t]] \in Cells
  BY <1>2, SizeFacts DEF ShapeInv, Slots
<1>5. /\ heap' = [heap EXCEPT ![Len(heap)] = [Cur EXCEPT ![slot[t]] = Empty]]
      /\ taken' = Append(taken, Cur[slot[t]]) /\ Moves(t, "uncount")
  BY <1>2, MoveIs DEF ReadSlot, Cur, Goto
<1> DEFINE a == [Cur EXCEPT ![slot[t]] = Empty]
<1>6. /\ a \in Allocs /\ SizeOf(a) = Size /\ a[slot[t]] = Empty
      /\ \A s \in Slots : s # slot[t] => a[s] = Cur[s]
  <2>1. Empty \in Cells /\ slot[t] \in DOMAIN Cur
    BY <1>2, <1>4 DEF Cells
  <2>2. a \in Allocs /\ SizeOf(a) = SizeOf(Cur)
    BY <1>4, <2>1, WrittenAlloc
  <2>3. a[slot[t]] = Empty /\ \A s \in DOMAIN Cur : s # slot[t] => a[s] = Cur[s]
    BY <1>4, <2>1, WrittenAlloc
  <2> HIDE DEF a
  <2> QED
    BY <1>4, <2>2, <2>3
<1>7. Len(heap) \in 1..Len(heap)
  BY <1>2 DEF ShapeInv
<1>8. heap' = [heap EXCEPT ![Len(heap)] = a]
  BY <1>5
<1> HIDE DEF a
<1>9. Cur' = a /\ Size' = Size /\ Len(heap') = Len(heap) /\ heap' # <<>>
  BY <1>6, <1>7, <1>8, HeapAgain DEF ShapeInv
<1>10. Slots' = Slots
  BY <1>9 DEF Slots
<1>11. Stored' = Stored \ {Cur[slot[t]]}
  <2>1. \A s \in Slots : s # slot[t] => Cur[s] # Cur[slot[t]]
    BY <1>2, <1>3 DEF BodyInv, ItemInv
  <2> QED
    BY <1>2, <1>3, <1>6, <1>9, <1>10, <2>1 DEF Stored
<1> QED
  BY <1>1, <1>2, <1>3, <1>4, <1>5, <1>6, <1>9, <1>10, <1>11

LEMMA ReadData ==
  ASSUME WordInv, ShapeInv, BodyInv, NEW t \in Threads, ReadSlot(t)
  PROVE  BodyInv'
<1> DEFINE v == Cur[slot[t]]
<1>1. /\ pc[t] = "read" /\ Popping(t)
      /\ UNCHANGED <<pushFar, popFar, len, used, calls, slot, val, op, at>>
  BY DEF ReadSlot, Popping, counts, locals
<1>2. /\ heap # <<>> /\ slot[t] \in Slots /\ N <= slot[t] /\ v # Empty
      /\ taken' = Append(taken, v) /\ v \in Cells
      /\ Size' = Size /\ Slots' = Slots /\ Len(heap') = Len(heap) /\ heap' # <<>>
      /\ Moves(t, "uncount")
      /\ Cur'[slot[t]] = Empty /\ \A s \in Slots : s # slot[t] => Cur'[s] = Cur[s]
      /\ Stored' = Stored \ {v} /\ v \in Stored
  BY ReadHeap DEF Stored
<1> HIDE DEF v
<1>3. /\ At(Owed) = {} /\ op[t] = "pop"
  BY <1>1, NoPushers
<1>4. At(Owed)' = {} /\ At({"read"})' = At({"read"}) \ {t} /\ t \in At({"read"})
  <2>1. pc[t] \notin Owed /\ "uncount" \notin Owed
    BY <1>1 DEF Owed
  <2>2. At(Owed)' = {} /\ At({"read"})' = At({"read"}) \ {t}
    BY <1>1, <1>2, <1>3, <2>1, AtSame, AtLess
  <2> QED
    BY <1>1, <2>2 DEF At
<1>5. Before' = Before /\ Carriers' = Carriers /\ t \notin Carriers
  <2>1. Before' = Before /\ t \notin Before
    BY <1>1, <1>2, <1>3 DEF Before, Moves
  <2> QED
    BY <1>3, <1>4, <2>1 DEF Carriers
<1>6. CallsInv'
  BY <1>1, <1>5 DEF BodyInv, CallsInv
<1>7. LenInv'
  BY <1>1, <1>2, LenKeep DEF BodyInv, Owed
<1>8. N' = N
  BY <1>1 DEF N
<1>9. SlotInv'
  <2>1. \A u \in Threads : /\ pc'[u] \notin Owed
                           /\ pc'[u] = "read" => N <= slot'[u] /\ slot'[u] < Size
    <3> TAKE u \in Threads
    <3>1. CASE u = t
      BY <1>2, <3>1 DEF Moves, Owed
    <3>2. CASE u # t
      BY <1>1, <1>2, <1>3, <3>2 DEF Moves, At, BodyInv, SlotInv, PlacesInv
    <3> QED
      BY <3>1, <3>2
  <2>2. PlacesInv'
    BY <1>2, <1>8, <2>1 DEF PlacesInv, Owed
  <2>3. ApartInv'
    BY <1>1, <1>4 DEF BodyInv, SlotInv, ApartInv, Owed
  <2>4. CoveredInv'
    <3>1. \A s \in 0..(N - 1) : s < Size
      BY <1>3 DEF BodyInv, SlotInv, CoveredInv
    <3> QED
      BY <1>2, <1>8, <3>1 DEF CoveredInv
  <2>5. FilledInv'
    <3>1. ASSUME NEW s \in Slots
          PROVE  Cur'[s] # Empty <=> s < N \/ \E u \in At({"read"})' : slot'[u] = s
      <4>1. Cur[s] # Empty <=> s < N \/ \E u \in At({"read"}) : slot[u] = s
        BY <1>3 DEF BodyInv, SlotInv, FilledInv
      <4>2. CASE s = slot[t]
        <5>1. ~(s < N)
          BY <1>2, <4>2, SizeFacts DEF Slots, N, ShapeInv
        <5>2. \A u \in At({"read"})' : slot'[u] # s
          BY <1>1, <1>4, <4>2 DEF BodyInv, SlotInv, ApartInv
        <5> QED
          BY <1>2, <4>2, <5>1, <5>2
      <4>3. CASE s # slot[t]
        BY <1>1, <1>2, <1>4, <4>1, <4>3
      <4> QED
        BY <4>2, <4>3
    <3> QED
      BY <1>2, <1>4, <1>8, <3>1 DEF FilledInv, Owed
  <2> QED
    BY <2>2, <2>3, <2>4, <2>5 DEF SlotInv
<1>10. ItemInv'
  <2>1. taken \in Seq(Cells) /\ taken' \in Seq(Cells) /\ Gone' = Gone \cup {v}
    <3>1. taken \in Seq(Cells)
      BY DEF BodyInv, ItemInv
    <3>2. /\ taken' \in Seq(Cells) /\ DOMAIN taken = 1..Len(taken) /\ Len(taken) \in Nat
          /\ DOMAIN taken' = 1..(Len(taken) + 1)
          /\ \A k \in 1..Len(taken) : taken'[k] = taken[k]
          /\ taken'[Len(taken) + 1] = v
      BY <1>2, <3>1
    <3>3. 1..(Len(taken) + 1) = 1..Len(taken) \cup {Len(taken) + 1}
      BY <3>2
    <3> QED
      BY <3>1, <3>2, <3>3 DEF Gone
  <2>2. {val'[u] : u \in Carriers'} = {val[u] : u \in Carriers}
    BY <1>1, <1>5
  <2>3. \A s, r \in Slots : Cur'[s] # Empty /\ Cur'[s] = Cur'[r] => s = r
    BY <1>2 DEF BodyInv, ItemInv
  <2>4. \A u \in Carriers : val[u] # v
    BY <1>2 DEF BodyInv, ItemInv
  <2>5. \A u \in Carriers' : val'[u] \in used' /\ val'[u] \notin Stored' /\ val'[u] \notin Gone'
    BY <1>1, <1>2, <1>5, <2>1, <2>4 DEF BodyInv, ItemInv
  <2>6. used' = {val'[u] : u \in Carriers'} \cup Stored' \cup Gone'
    BY <1>1, <1>2, <2>1, <2>2 DEF BodyInv, ItemInv
  <2>7. Stored' \cap Gone' = {}
    BY <1>2, <2>1 DEF BodyInv, ItemInv
  <2> QED
    BY <1>1, <1>2, <1>5, <2>1, <2>3, <2>5, <2>6, <2>7 DEF BodyInv, ItemInv
<1> QED
  BY <1>6, <1>7, <1>9, <1>10 DEF BodyInv

-----------------------------------------------------------------------------
(* Every step keeps the slots in order, until the first edit.                  *)

LEMMA OpAfter ==
  ASSUME WordInv, NEW t \in Threads, Call(t) \/ Step(t) \/ IterNext(t),
         ~edited', \A u \in Threads : op[u] \notin {"remove", "insert"}
  PROVE  /\ ~edited /\ ~EditStep(t) /\ (Call(t) => Push(t) \/ Pop(t) \/ Iter(t))
         /\ \A u \in Threads : op'[u] \notin {"remove", "insert"}
<1>1. ~EditStep(t)
  <2>1. ~Editing(t)
    BY DEF WordInv, PlaceInv
  <2> QED
    BY <2>1 DEF EditStep, Enlarge, Shift, Resize, Unlock, Editing
<1>2. Call(t) => Push(t) \/ Pop(t) \/ Iter(t)
  BY DEF Call, Remove, Insert, Lock
<1>3. ~edited
  BY <1>1, <1>2 DEF Push, Pop, Iter, Enter, Step, Look, Cas, Leave, Clear, PushStep, PopStep,
     LoadPopFar, ClaimSlot, Room, FirstAlloc, Drain, Grow, LoadAlloc, WriteSlot, CountUp,
     LoadPushFar, TakeSlot, Undo, ReadSlot, CountDown, IterDrop, IterNext, history
<1>4. op \in [Threads -> Ops \cup {"none"}]
  BY DEF WordInv, PlaceInv
<1>5. op' = op \/ \E o \in {"push", "pop", "iter", "none"} : op' = [op EXCEPT ![t] = o]
  <2>1. CASE Push(t) \/ Pop(t) \/ Iter(t)
    BY <2>1 DEF Push, Pop, Iter, Enter, Begin
  <2>2. CASE Look(t) \/ Cas(t) \/ PushStep(t) \/ IterNext(t)
    BY <2>2 DEF Look, Cas, PushStep, LoadPopFar, ClaimSlot, Room, FirstAlloc, Drain, Grow,
                LoadAlloc, WriteSlot, CountUp, IterNext, locals
  <2>3. CASE Leave(t) \/ Clear(t) \/ IterDrop(t) \/ PopStep(t)
    BY <2>3 DEF Leave, Clear, IterDrop, Ending, Finish, PopStep, LoadPushFar, TakeSlot, Undo,
                ReadSlot, CountDown, locals
  <2> QED
    BY <1>1, <1>2, <2>1, <2>2, <2>3 DEF Step
<1> QED
  BY <1>1, <1>2, <1>3, <1>4, <1>5

LEMMA DataInit ==
  ASSUME Init
  PROVE  DataInv
<1>1. /\ heap = <<>> /\ pushFar = 0 /\ popFar = 0 /\ len = 0 /\ calls = 0
      /\ used = {} /\ taken = <<>>
      /\ \A t \in Threads : op[t] = "none" /\ pc[t] = "idle" /\ val[t] = Empty
  BY DEF Init
<1>2. At(Owed) = {} /\ At({"read"}) = {} /\ Before = {} /\ Carriers = {}
      /\ At(Owed \cup {"count"}) = {} /\ At({"read", "uncount", "undo"}) = {}
  BY <1>1 DEF At, Before, Owed, Carriers
<1>3. Size = 0 /\ Slots = {} /\ N = 0 /\ Stored = {} /\ Gone = {}
  <2>1. Size = 0 /\ N = 0 /\ Gone = {}
    BY <1>1 DEF Size, N, Gone
  <2>2. Slots = {}
    BY <2>1 DEF Slots
  <2> QED
    BY <2>1, <2>2 DEF Stored
<1>4. Cardinality({}) = 0
  BY FS_EmptySet
<1>5. CallsInv
  BY <1>1, <1>2, <1>4 DEF CallsInv
<1>6. LenInv
  <2>1. Cardinality(At(Owed \cup {"count"})) = 0 /\ Cardinality(At({"read", "uncount", "undo"})) = 0
    BY <1>2, <1>4
  <2> QED
    BY <1>1, <1>3, <2>1 DEF LenInv
<1>7. SlotInv
  <2>1. PlacesInv
    BY <1>1 DEF PlacesInv, Owed
  <2>2. ApartInv
    BY <1>2 DEF ApartInv
  <2>3. CoveredInv
    <3>1. 0..(N - 1) = {}
      BY <1>3
    <3> QED
      BY <3>1 DEF CoveredInv
  <2>4. FilledInv
    BY <1>3 DEF FilledInv
  <2> QED
    BY <2>1, <2>2, <2>3, <2>4 DEF SlotInv
<1>8. ItemInv
  BY <1>1, <1>2, <1>3 DEF ItemInv
<1> QED
  BY <1>1, <1>5, <1>6, <1>7, <1>8 DEF DataInv, BodyInv

LEMMA SameData ==
  ASSUME UNCHANGED vars
  PROVE  /\ BodyInv => BodyInv'
         /\ DataInv => DataInv'
<1>1. UNCHANGED <<pushFar, popFar, len, heap, op, pc, slot, val, at, calls, used, taken, edited>>
  BY DEF vars
<1>2. \A P : At(P)' = At(P)
  BY <1>1 DEF At
<1>3. Before' = Before /\ Carriers' = Carriers
  BY <1>1, <1>2 DEF Before, Carriers
<1>4. N' = N /\ Gone' = Gone
  BY <1>1 DEF N, Gone
<1>5. CallsInv' <=> CallsInv
  BY <1>1, <1>3 DEF CallsInv
<1>6. LenInv' <=> LenInv
  BY <1>1, <1>2, <1>4 DEF LenInv, Owed
<1>7. SlotInv => SlotInv'
  BY <1>1, <1>2, <1>4, SameHeap DEF SlotInv, PlacesInv, ApartInv, CoveredInv, FilledInv, Owed
<1>8. ItemInv => ItemInv'
  BY <1>1, <1>3, <1>4, SameHeap DEF ItemInv
<1> QED
  BY <1>1, <1>5, <1>6, <1>7, <1>8 DEF BodyInv, DataInv

LEMMA DataStep ==
  ASSUME WordInv, ShapeInv, FarInv, DataInv, [Next]_vars
  PROVE  DataInv'
<1>1. CASE UNCHANGED vars
  BY <1>1, SameData
<1>2. ASSUME NEW t \in Threads, Call(t) \/ Step(t) \/ IterNext(t), ~edited'
      PROVE  BodyInv' /\ \A u \in Threads : op'[u] \notin {"remove", "insert"}
  <2>1. ~edited
    BY <1>2 DEF Call, Push, Pop, Iter, Enter, Remove, Insert, Lock, Step, Look, Cas, Leave, Clear,
       PushStep, PopStep, EditStep, Enlarge, Shift, Resize, Unlock,
       LoadPopFar, ClaimSlot, Room, FirstAlloc, Drain, Grow, LoadAlloc, WriteSlot, CountUp,
       LoadPushFar, TakeSlot, Undo, ReadSlot, CountDown, IterDrop, IterNext, history
  <2>2. BodyInv /\ \A u \in Threads : op[u] \notin {"remove", "insert"}
    BY <2>1 DEF DataInv
  <2>3. /\ ~EditStep(t) /\ (Call(t) => Push(t) \/ Pop(t) \/ Iter(t))
        /\ \A u \in Threads : op'[u] \notin {"remove", "insert"}
    BY <1>2, <2>2, OpAfter
  <2>4. CASE Call(t)
    BY <2>2, <2>3, <2>4, PushData, EnterData
  <2>5. CASE PushStep(t)
    BY <2>2, <2>3, <2>5, LoadData, ClaimData, RoomData, FirstAllocData, DrainData, GrowData,
       WriteData, CountUpData DEF PushStep
  <2>6. CASE PopStep(t)
    BY <2>2, <2>3, <2>6, LoadData, TakeData, UndoData, ReadData, CountDownData DEF PopStep
  <2>7. CASE Look(t) \/ Cas(t) \/ Leave(t) \/ Clear(t) \/ IterDrop(t) \/ IterNext(t)
    BY <2>2, <2>3, <2>7, WayData, LoadData
  <2> QED
    BY <1>2, <2>3, <2>4, <2>5, <2>6, <2>7 DEF Step
<1> QED
  BY <1>1, <1>2 DEF Next, DataInv

VecInv == WordInv /\ ShapeInv /\ FarInv /\ DataInv

THEOREM VectorCorrect == Spec => []VecInv
<1>1. Init => VecInv
  BY WordInit, TypesInit, DataInit DEF VecInv
<1>2. VecInv /\ [Next]_vars => VecInv'
  BY WordStep, TypesStep, DataStep DEF VecInv
<1> QED
  BY <1>1, <1>2, PTL DEF Spec

-----------------------------------------------------------------------------
(* Nothing is lost.                                                            *)

LEMMA AtRest ==
  ASSUME WordInv, ShapeInv, FarInv, BodyInv, \A t \in Threads : ~Pushing(t) /\ ~Popping(t)
  PROVE  /\ len = N /\ N \in Nat /\ N <= Size /\ Size \in Nat
         /\ Claimed = {Cur[s] : s \in 0..(N - 1)} /\ Claimed = Stored
         /\ \A s \in 0..(N - 1) : s \in Slots /\ Cur[s] # Empty
         /\ Carriers = Before
<1>1. At(Owed) = {} /\ At(Owed \cup {"count"}) = {} /\ At({"read", "uncount", "undo"}) = {}
      /\ At({"read"}) = {} /\ At({"undo"}) = {}
  BY DEF At, Owed, Pushing, Popping
<1>2. N \in Nat
  BY <1>1 DEF FarInv, N, ShapeInv
<1>3. len = N
  <2>1. Cardinality({}) = 0
    BY FS_EmptySet
  <2>2. Cardinality(At(Owed \cup {"count"})) = 0 /\ Cardinality(At({"read", "uncount", "undo"})) = 0
    BY <1>1, <2>1
  <2> QED
    BY <1>2, <2>2 DEF BodyInv, LenInv
<1>4. Size \in Nat
  BY SizeFacts DEF ShapeInv
<1>5. \A s \in 0..(N - 1) : s < Size
  BY <1>1 DEF BodyInv, SlotInv, CoveredInv
<1>6. N <= Size
  <2>1. CASE N = 0
    BY <1>4, <2>1
  <2>2. CASE N # 0
    <3>1. N - 1 \in 0..(N - 1)
      BY <1>2, <2>2
    <3> QED
      BY <1>2, <1>4, <1>5, <3>1
  <2> QED
    BY <2>1, <2>2
<1>7. \A s \in 0..(N - 1) : s \in Slots /\ Cur[s] # Empty
  BY <1>1, <1>2, <1>4, <1>5 DEF BodyInv, SlotInv, FilledInv, Slots
<1>8. \A s \in Slots : Cur[s] # Empty => s \in 0..(N - 1)
  BY <1>1, <1>2, <1>4 DEF BodyInv, SlotInv, FilledInv, Slots
<1>9. 0..(pushFar - popFar - 1) \cap 0..(Size - 1) = 0..(N - 1)
  BY <1>2, <1>4, <1>6 DEF N
<1>10. Claimed = {Cur[s] : s \in 0..(N - 1)}
  BY <1>9 DEF Claimed, Cur
<1>11. Claimed = Stored
  BY <1>7, <1>8, <1>10 DEF Stored
<1> QED
  BY <1>1, <1>2, <1>3, <1>4, <1>6, <1>7, <1>10, <1>11 DEF Carriers

\* conc_vec.rs:60: when no push and no pop is inside, the elements that were pushed and
\* not popped are in the first slots, one in each, and the length says how many they are.
THEOREM NothingIsLost == Spec => []NothingLost
<1>1. VecInv => NothingLost
  <2> SUFFICES ASSUME VecInv, ~edited, \A t \in Threads : ~Pushing(t) /\ ~Popping(t)
               PROVE  /\ len = pushFar - popFar
                      /\ Cardinality(Claimed) = len
                      /\ Claimed = {v \in used : \A t \in Threads :
                                                   val[t] = v => pc[t] \in {"leave", "clear"}}
                                   \ {taken[k] : k \in DOMAIN taken}
    BY DEF NothingLost
  <2>1. WordInv /\ ShapeInv /\ FarInv /\ BodyInv
    BY DEF VecInv, DataInv
  <2>2. /\ len = N /\ N \in Nat
        /\ Claimed = {Cur[s] : s \in 0..(N - 1)} /\ Claimed = Stored
        /\ \A s \in 0..(N - 1) : s \in Slots /\ Cur[s] # Empty
        /\ Carriers = Before
    BY <2>1, AtRest
  <2>3. Cardinality(Claimed) = N
    <3> DEFINE S == 0..(N - 1)
               f == [s \in S |-> Cur[s]]
    <3>1. f \in Surjection(S, Claimed)
      <4>1. f \in [S -> Claimed] /\ \A v \in Claimed : \E s \in S : f[s] = v
        BY <2>2
      <4> HIDE DEF f, S
      <4> QED
        BY <4>1 DEF Surjection
    <3>2. f \in Injection(S, Claimed)
      <4>1. f \in [S -> Claimed]
        BY <2>2
      <4>2. \A s, r \in S : f[s] = f[r] => s = r
        BY <2>1, <2>2 DEF BodyInv, ItemInv
      <4> HIDE DEF f, S
      <4> QED
        BY <4>1, <4>2 DEF Injection, IsInjective
    <3>3. IsFiniteSet(S) /\ Cardinality(S) = N
      BY <2>2, FS_Interval
    <3> HIDE DEF f, S
    <3> QED
      BY <3>1, <3>2, <3>3, FS_Surjection
  <2>4. \A v \in Claimed : \A t \in Threads : val[t] = v => pc[t] \in {"leave", "clear"}
    <3> SUFFICES ASSUME NEW t \in Threads, val[t] \in Claimed
                 PROVE  pc[t] \in {"leave", "clear"}
      OBVIOUS
    <3>1. t \notin Carriers /\ val[t] # Empty
      BY <2>1, <2>2 DEF BodyInv, ItemInv, Stored
    <3>2. op[t] = "push"
      BY <2>1, <3>1 DEF BodyInv, ItemInv
    <3>3. pc[t] \notin {"look", "cas", "popFar", "claim"}
      BY <2>2, <3>1, <3>2 DEF Before
    <3> QED
      BY <2>1, <3>2, <3>3 DEF WordInv, PlaceInv, Pushing, Popping, Iterating, Editing
  <2>5. \A t \in Carriers : pc[t] \notin {"leave", "clear"}
    BY <2>2 DEF Before
  <2>6. used = {val[t] : t \in Carriers} \cup Claimed \cup Gone /\ Claimed \cap Gone = {}
    BY <2>1, <2>2 DEF BodyInv, ItemInv
  <2>7. Carriers \subseteq Threads
    BY <2>2 DEF Before
  <2>8. Claimed = {v \in used : \A t \in Threads : val[t] = v => pc[t] \in {"leave", "clear"}} \ Gone
    BY <2>4, <2>5, <2>6, <2>7
  <2> QED
    BY <2>2, <2>3, <2>8 DEF N, Gone
<1> QED
  BY <1>1, VectorCorrect, PTL

-----------------------------------------------------------------------------
(* The vector is a pool.                                                       *)

In == {Cur[s] : s \in {r \in Slots : r < N}} \ {Empty}
Out == Gone \cup {Cur[slot[t]] : t \in At({"read"})}

Viewed ==
  /\ Claimed \ {Empty} = In
  /\ {taken[k] : k \in DOMAIN taken}
       \cup {heap[Len(heap)][slot[t]] : t \in {u \in Threads : pc[u] = "read"}} = Out

LEMMA Views == ShapeInv => Viewed
<1> SUFFICES ASSUME ShapeInv PROVE Viewed
  OBVIOUS
<1>1. N \in Int /\ Size \in Nat
  BY SizeFacts DEF N, ShapeInv
<1>2. 0..(pushFar - popFar - 1) \cap 0..(Size - 1) = {r \in Slots : r < N}
  BY <1>1 DEF Slots, N
<1>3. At({"read"}) = {u \in Threads : pc[u] = "read"}
  BY DEF At
<1> QED
  BY <1>2, <1>3 DEF Viewed, In, Out, Claimed, Cur, Gone

LEMMA OutStill ==
  ASSUME Cur' = Cur, taken' = taken, NEW t \in Threads, NEW b, Moves(t, b),
         pc[t] # "read", b # "read", \A u \in Threads \ {t} : slot'[u] = slot[u]
  PROVE  Out' = Out /\ At({"read"})' = At({"read"})
<1>1. At({"read"})' = At({"read"})
  BY AtSame
<1>2. \A u \in At({"read"}) : slot'[u] = slot[u]
  BY DEF At
<1>3. Gone' = Gone
  BY DEF Gone
<1> QED
  BY <1>1, <1>2, <1>3 DEF Out

LEMMA PoolStill ==
  ASSUME UNCHANGED <<heap, pushFar, popFar, taken>>, NEW t \in Threads, NEW b, Moves(t, b),
         pc[t] # "read", b # "read", \A u \in Threads \ {t} : slot'[u] = slot[u]
  PROVE  In' = In /\ Out' = Out
<1>1. In' = In
  BY SameHeap DEF In, N
<1>2. Out' = Out
  BY OutStill, SameHeap
<1> QED
  BY <1>1, <1>2

\* Most steps touch neither the slots nor the counters.
LEMMA CalmPool ==
  ASSUME WordInv, ShapeInv, NEW t \in Threads,
         \/ Push(t) \/ Pop(t) \/ Iter(t) \/ IterNext(t)
         \/ Look(t) \/ Cas(t) \/ Leave(t) \/ Clear(t) \/ IterDrop(t)
         \/ LoadPopFar(t) \/ Room(t) \/ Drain(t) \/ LoadAlloc(t) \/ CountUp(t)
         \/ LoadPushFar(t) \/ CountDown(t)
  PROVE  In' = In /\ Out' = Out
<1>1. CASE Push(t) \/ Pop(t) \/ Iter(t)
  <2>1. PICK o \in {"push", "pop", "iter"}, v \in Cells : Enter(t, o, v)
    <3>1. Push(t) => Fresh \in Cells
      BY FreshItem DEF Push, ShapeInv
    <3>2. Empty \in Cells
      BY DEF Cells
    <3> QED
      BY <1>1, <3>1, <3>2 DEF Push, Pop, Iter
  <2>2. PICK b \in EnterPlaces : Moves(t, b)
    BY <2>1, EnterMoves
  <2>3. b # "read"
    BY DEF EnterPlaces
  <2>4. UNCHANGED <<heap, pushFar, popFar, taken, slot>> /\ pc[t] = "idle"
    BY <2>1, EnterMoves
  <2> QED
    BY <2>2, <2>3, <2>4, PoolStill
<1>2. CASE IterNext(t)
  <2>1. /\ UNCHANGED <<heap, pushFar, popFar, taken>> /\ pc[t] = "next" /\ Moves(t, "next")
        /\ \A u \in Threads \ {t} : slot'[u] = slot[u]
    BY <1>2 DEF IterNext, counts, history, Moves, ShapeInv
  <2> QED
    BY <2>1, PoolStill
<1>3. CASE Look(t) \/ Cas(t)
  <2>1. UNCHANGED <<heap, pushFar, popFar, taken, slot>> /\ pc[t] # "read"
    BY <1>3 DEF Look, Cas, counts, locals, history
  <2>2. \E b \in {"look", "cas", "popFar", "pushFar", "next"} : Moves(t, b)
    BY <1>3, ConsiderMoves, MoveIs DEF Look
  <2> QED
    BY <2>1, <2>2, PoolStill
<1>4. CASE Leave(t) \/ Clear(t) \/ IterDrop(t)
  <2>1. UNCHANGED <<heap, pushFar, popFar, taken>> /\ pc[t] # "read"
    BY <1>4 DEF Leave, Clear, IterDrop, counts, history
  <2>2. (pc' = [pc EXCEPT ![t] = "clear"] /\ slot' = slot) \/ Finish(t)
    BY <1>4 DEF Leave, Clear, IterDrop, Ending, locals
  <2>3. CASE pc' = [pc EXCEPT ![t] = "clear"] /\ slot' = slot
    <3>1. Moves(t, "clear")
      BY <2>3, MoveIs
    <3> QED
      BY <2>1, <2>3, <3>1, PoolStill
  <2>4. CASE Finish(t)
    BY <2>1, <2>4, FinishTypes, PoolStill
  <2> QED
    BY <2>2, <2>3, <2>4
<1>5. CASE \/ LoadPopFar(t) \/ Room(t) \/ Drain(t) \/ LoadAlloc(t) \/ CountUp(t)
           \/ LoadPushFar(t) \/ CountDown(t)
  <2>1. UNCHANGED <<heap, pushFar, popFar, taken, slot>> /\ pc[t] # "read"
    BY <1>5 DEF LoadPopFar, Room, Drain, LoadAlloc, CountUp, LoadPushFar, CountDown,
                counts, locals, history
  <2>2. \E b \in {"claim", "first", "drain", "load", "grow", "write", "leave", "take"} :
          pc' = [pc EXCEPT ![t] = b]
    BY <1>5 DEF LoadPopFar, Room, Drain, LoadAlloc, CountUp, LoadPushFar, CountDown, Goto
  <2>3. \E b \in {"claim", "first", "drain", "load", "grow", "write", "leave", "take"} : Moves(t, b)
    BY <2>2, MoveIs
  <2> QED
    BY <2>1, <2>3, PoolStill
<1> QED
  BY <1>1, <1>2, <1>3, <1>4, <1>5

LEMMA ClaimPool ==
  ASSUME WordInv, ShapeInv, FarInv, BodyInv, NEW t \in Threads, ClaimSlot(t)
  PROVE  In' = In /\ Out' = Out
<1>1. /\ Moves(t, "room") /\ pc[t] = "claim" /\ popFar' = popFar /\ pushFar' = pushFar + 1
      /\ \A u \in Threads \ {t} : slot'[u] = slot[u]
      /\ UNCHANGED <<heap, taken>>
  BY ClaimTypes DEF ClaimSlot, history
<1>2. N' = N + 1 /\ N \in Int
  BY <1>1 DEF N, ShapeInv
<1>3. Cur' = Cur /\ Slots' = Slots
  BY <1>1, SameHeap
<1>4. ASSUME NEW s \in Slots, s = N PROVE Cur[s] = Empty
  <2>1. At({"read"}) = {}
    BY <1>1, NoTakers DEF Pushing
  <2>2. ~(s < N)
    BY <1>2, <1>4
  <2> QED
    BY <2>1, <2>2 DEF BodyInv, SlotInv, FilledInv
<1>5. In' = In
  <2>1. \A s \in Slots : s \in Nat
    BY SizeFacts DEF Slots, ShapeInv
  <2>2. \A s \in Slots : s < N + 1 <=> s < N \/ s = N
    BY <1>2, <2>1
  <2> QED
    BY <1>2, <1>3, <1>4, <2>2 DEF In
<1> QED
  BY <1>1, <1>3, <1>5, OutStill

LEMMA AllocPool ==
  ASSUME WordInv, ShapeInv, BodyInv, NEW t \in Threads, FirstAlloc(t) \/ Grow(t)
  PROVE  In' = In /\ Out' = Out
<1>1. /\ UNCHANGED <<pushFar, popFar, taken, slot>> /\ Pushing(t) /\ pc[t] # "read"
  BY DEF FirstAlloc, Grow, counts, locals, history, Pushing
<1>2. Moves(t, "load")
  BY MoveIs DEF FirstAlloc, Grow, Goto
<1>3. PICK a \in Allocs : /\ heap' = Append(heap, a) /\ Size <= SizeOf(a)
                          /\ \A s \in 0..(Size - 1) : a[s] = Cur[s]
                          /\ \A s \in 0..(SizeOf(a) - 1) : Size <= s => a[s] = Empty
  <2>1. CASE FirstAlloc(t)
    <3>1. heap = <<>> /\ Size = 0
      BY <2>1, SizeFacts DEF FirstAlloc, BodyInv, SlotInv, PlacesInv, ShapeInv
    <3>2. \A s \in 0..(Size - 1) : Blank[s] = Cur[s]
      BY <3>1
    <3> QED
      BY <2>1, <3>1, <3>2, BlankAlloc DEF FirstAlloc
  <2>2. CASE Grow(t)
    <3>1. heap # <<>> /\ at[t] = Len(heap)
      BY <2>2 DEF Grow, BodyInv, SlotInv, PlacesInv
    <3>2. Cur \in Allocs /\ SizeOf(Cur) = Size /\ Size \in Nat
      BY <3>1, SizeFacts DEF ShapeInv
    <3>3. /\ Grown(Cur) \in Allocs /\ Size < SizeOf(Grown(Cur))
          /\ \A s \in 0..(Size - 1) : Grown(Cur)[s] = Cur[s]
          /\ \A s \in 0..(SizeOf(Grown(Cur)) - 1) : Size <= s => Grown(Cur)[s] = Empty
      BY <3>2, GrownAlloc
    <3>4. heap' = Append(heap, Grown(Cur)) /\ Size <= SizeOf(Grown(Cur))
      BY <2>2, <3>1, <3>2, <3>3, AllocFacts DEF Grow, Cur
    <3> QED
      BY <3>3, <3>4
  <2> QED
    BY <2>1, <2>2
<1>4. Cur' = a /\ Size' = SizeOf(a) /\ Slots' = 0..(SizeOf(a) - 1)
  BY <1>3, HeapMore DEF ShapeInv, Slots
<1>5. Size \in Nat /\ SizeOf(a) \in Nat
  BY SizeFacts, AllocFacts DEF ShapeInv
<1>6. In' = In
  <2>1. N' = N
    BY <1>1 DEF N
  <2>2. \A s \in Slots : s \in Slots' /\ a[s] = Cur[s]
    BY <1>3, <1>4, <1>5 DEF Slots
  <2>3. \A s \in Slots' : s \in Slots \/ a[s] = Empty
    BY <1>3, <1>4, <1>5 DEF Slots
  <2> QED
    BY <1>4, <2>1, <2>2, <2>3 DEF In
<1>7. Out' = Out
  <2>1. At({"read"}) = {}
    BY <1>1, NoTakers
  <2>2. At({"read"})' = {}
    BY <1>1, <1>2, <2>1, AtSame
  <2> QED
    BY <1>1, <2>1, <2>2 DEF Out, Gone
<1> QED
  BY <1>6, <1>7

LEMMA UndoPool ==
  ASSUME WordInv, ShapeInv, FarInv, BodyInv, NEW t \in Threads, Undo(t)
  PROVE  In' = In /\ Out' = Out
<1>1. /\ pc[t] = "undo" /\ popFar' = popFar - 1 /\ pushFar < popFar /\ Finish(t)
      /\ UNCHANGED <<pushFar, heap, taken>>
  BY UndoTypes DEF Undo
<1>2. N' = N + 1 /\ N \in Int /\ N < 0
  BY <1>1 DEF N, ShapeInv
<1>3. In' = In
  <2>1. \A s \in Slots : s \in Nat
    BY SizeFacts DEF Slots, ShapeInv
  <2>2. \A s \in Slots : ~(s < N) /\ ~(s < N')
    BY <1>2, <2>1
  <2> QED
    BY <1>1, <2>2, SameHeap DEF In
<1>4. Out' = Out
  BY <1>1, FinishTypes, OutStill, SameHeap
<1> QED
  BY <1>3, <1>4

\* The element leaves its slot after it has gone out.
LEMMA ReadPool ==
  ASSUME WordInv, ShapeInv, BodyInv, NEW t \in Threads, ReadSlot(t)
  PROVE  In' = In /\ Out' = Out
<1> DEFINE v == Cur[slot[t]]
<1>1. /\ pc[t] = "read" /\ UNCHANGED <<pushFar, popFar, slot>>
  BY DEF ReadSlot, counts, locals
<1>2. /\ slot[t] \in Slots /\ N <= slot[t]
      /\ taken' = Append(taken, v) /\ v \in Cells
      /\ Slots' = Slots /\ Moves(t, "uncount")
      /\ \A s \in Slots : s # slot[t] => Cur'[s] = Cur[s]
  BY ReadHeap
<1> HIDE DEF v
<1>3. In' = In
  <2>1. ~(slot[t] < N) /\ N' = N
    BY <1>1, <1>2, SizeFacts DEF Slots, N, ShapeInv
  <2>2. \A s \in Slots : s < N => Cur'[s] = Cur[s]
    BY <1>2, <2>1
  <2> QED
    BY <1>2, <2>1, <2>2 DEF In
<1>4. Gone' = Gone \cup {v}
  <2>1. taken \in Seq(Cells)
    BY DEF BodyInv, ItemInv
  <2>2. /\ DOMAIN taken = 1..Len(taken) /\ Len(taken) \in Nat
        /\ DOMAIN taken' = 1..(Len(taken) + 1)
        /\ \A k \in 1..Len(taken) : taken'[k] = taken[k]
        /\ taken'[Len(taken) + 1] = v
    BY <1>2, <2>1
  <2>3. 1..(Len(taken) + 1) = 1..Len(taken) \cup {Len(taken) + 1}
    BY <2>2
  <2> QED
    BY <2>2, <2>3 DEF Gone
<1>5. At({"read"})' = At({"read"}) \ {t} /\ t \in At({"read"})
  <2>1. At({"read"})' = At({"read"}) \ {t}
    BY <1>1, <1>2, AtLess
  <2> QED
    BY <1>1, <2>1 DEF At
<1>6. \A u \in At({"read"})' : Cur'[slot'[u]] = Cur[slot[u]]
  <2> TAKE u \in At({"read"})'
  <2>1. u \in At({"read"}) /\ u # t /\ slot[u] # slot[t]
    BY <1>5 DEF BodyInv, SlotInv, ApartInv
  <2>2. slot[u] \in Slots
    BY <2>1, SizeFacts DEF BodyInv, SlotInv, PlacesInv, At, Slots, ShapeInv
  <2> QED
    BY <1>1, <1>2, <2>1, <2>2
<1>7. Out' = Out
  <2>1. Cur[slot[t]] = v
    BY DEF v
  <2> QED
    BY <1>4, <1>5, <1>6, <2>1 DEF Out
<1> QED
  BY <1>3, <1>7

-----------------------------------------------------------------------------
(* The two steps of the pool.                                                  *)

LEMMA WritePool ==
  ASSUME WordInv, ShapeInv, BodyInv, NEW t \in Threads, WriteSlot(t)
  PROVE  \E e \in Items : e \notin In \cup Out /\ In' = In \cup {e} /\ Out' = Out
<1> DEFINE e == val[t]
<1>1. /\ pc[t] = "write" /\ UNCHANGED <<pushFar, popFar, taken, slot>> /\ Moves(t, "count")
  BY MoveIs DEF WriteSlot, Goto, counts, locals, history
<1>2. /\ slot[t] \in Slots /\ slot[t] < N /\ e \in Items /\ e # Empty
      /\ Cur[slot[t]] = Empty /\ Slots' = Slots
      /\ Cur'[slot[t]] = e /\ \A s \in Slots : s # slot[t] => Cur'[s] = Cur[s]
  BY WriteHeap
<1>3. t \in Carriers
  BY <1>1 DEF Carriers, At, Owed
<1>4. e \notin Stored /\ e \notin Gone
  BY <1>3 DEF BodyInv, ItemInv
<1> HIDE DEF e
<1>5. At({"read"}) = {} /\ At({"read"})' = {}
  <2>1. At({"read"}) = {}
    BY <1>1, NoTakers DEF Pushing
  <2> QED
    BY <1>1, <2>1, AtSame
<1>6. Out' = Out /\ Out = Gone
  BY <1>1, <1>5 DEF Out, Gone
<1>7. In' = In \cup {e}
  <2>1. N' = N
    BY <1>1 DEF N
  <2> QED
    BY <1>2, <2>1 DEF In
<1>8. In \subseteq Stored
  BY DEF In, Stored
<1> QED
  BY <1>2, <1>4, <1>6, <1>7, <1>8

LEMMA TakePool ==
  ASSUME WordInv, ShapeInv, FarInv, BodyInv, NEW t \in Threads, TakeSlot(t)
  PROVE  \/ In' = In /\ Out' = Out
         \/ \E e \in Items : e \in In /\ In' = In \ {e} /\ Out' = Out \cup {e}
<1>1. /\ pc[t] = "take" /\ Popping(t) /\ popFar' = popFar + 1 /\ UNCHANGED <<pushFar, heap, taken>>
      /\ \A u \in Threads \ {t} : slot'[u] = slot[u]
  BY TakeTypes DEF TakeSlot, Popping, history
<1>2. N' = N - 1 /\ N \in Int
  BY <1>1 DEF N, ShapeInv
<1>3. Cur' = Cur /\ Slots' = Slots /\ Size' = Size
  BY <1>1, SameHeap
<1>4. \A s \in Slots : s \in Nat
  BY SizeFacts DEF Slots, ShapeInv
<1>5. CASE Moves(t, "undo") /\ pushFar <= popFar
  <2>1. N <= 0
    BY <1>5 DEF N, ShapeInv
  <2>2. \A s \in Slots : ~(s < N) /\ ~(s < N')
    BY <1>2, <1>4, <2>1
  <2>3. In' = In
    BY <1>3, <2>2 DEF In
  <2>4. Out' = Out
    BY <1>1, <1>3, <1>5, OutStill
  <2> QED
    BY <2>3, <2>4
<1>6. CASE Moves(t, "read") /\ popFar < pushFar /\ slot'[t] = pushFar - popFar - 1
  <2>1. slot'[t] = N - 1 /\ N >= 1
    BY <1>6 DEF N, ShapeInv
  <2>2. N - 1 \in Slots
    <3>1. N - 1 \in 0..(N - 1)
      BY <1>2, <2>1
    <3>2. At(Owed) = {} /\ Size \in Nat
      BY <1>1, NoPushers, SizeFacts DEF ShapeInv
    <3>3. N - 1 < Size
      BY <3>1, <3>2 DEF BodyInv, SlotInv, CoveredInv
    <3> QED
      BY <1>2, <3>1, <3>2, <3>3 DEF Slots
  <2> DEFINE e == Cur[N - 1]
  <2>3. e # Empty
    <3>1. At(Owed) = {}
      BY <1>1, NoPushers
    <3> QED
      BY <1>2, <2>2, <3>1 DEF BodyInv, SlotInv, FilledInv
  <2>4. e \in Items
    <3>1. heap # <<>>
      BY <2>2, SizeFacts DEF Slots, ShapeInv
    <3>2. e \in Cells
      BY <2>2, <3>1, SizeFacts DEF Slots, ShapeInv
    <3> QED
      BY <2>3, <3>2 DEF Cells
  <2>5. \A s \in Slots : s < N <=> s < N - 1 \/ s = N - 1
    BY <1>2, <1>4
  <2>6. \A s \in Slots : s < N - 1 => Cur[s] # e
    <3> TAKE s \in Slots
    <3> HAVE s < N - 1
    <3>1. s # N - 1
      BY <1>2, <1>4
    <3> QED
      BY <2>2, <2>3, <3>1 DEF BodyInv, ItemInv
  <2> DEFINE Rest == {Cur[s] : s \in {r \in Slots : r < N - 1}} \ {Empty}
  <2>7. \A v : v \in In <=> v \in Rest \/ v = e
    <3> TAKE v
    <3>1. v \in In <=> v # Empty /\ \E s \in Slots : s < N /\ Cur[s] = v
      BY DEF In
    <3>2. v \in Rest <=> v # Empty /\ \E s \in Slots : s < N - 1 /\ Cur[s] = v
      OBVIOUS
    <3>3. CASE v = e
      BY <2>2, <2>3, <2>5, <3>1, <3>3
    <3>4. CASE v # e
      BY <2>5, <3>1, <3>2, <3>4
    <3> QED
      BY <3>3, <3>4
  <2>8. In' = Rest
    BY <1>2, <1>3 DEF In
  <2>9. In' = In \ {e} /\ e \in In
    <3>1. e \notin Rest
      BY <2>6
    <3> HIDE DEF e, Rest
    <3> QED
      BY <2>7, <2>8, <3>1
  <2>10. Out' = Out \cup {e}
    <3>1. At({"read"})' = At({"read"}) \cup {t} /\ t \notin At({"read"})
          /\ At({"read"}) \subseteq Threads
      <4>1. At({"read"})' = At({"read"}) \cup {t}
        BY <1>1, <1>6, AtMore
      <4> QED
        BY <1>1, <4>1 DEF At
    <3>2. \A u \in At({"read"}) : slot'[u] = slot[u]
      BY <1>1, <3>1
    <3>3. Gone' = Gone
      BY <1>1 DEF Gone
    <3>4. Cur'[slot'[t]] = e
      BY <1>3, <2>1
    <3> HIDE DEF e
    <3> QED
      BY <1>3, <3>1, <3>2, <3>3, <3>4 DEF Out
  <2> QED
    BY <2>4, <2>9, <2>10
<1> QED
  BY <1>5, <1>6, TakeTypes

LEMMA PoolSteps ==
  ASSUME WordInv, ShapeInv, FarInv, DataInv, NEW t \in Threads, Call(t) \/ Step(t) \/ IterNext(t),
         ~edited'
  PROVE  \/ In' = In /\ Out' = Out
         \/ \E e \in Items : \/ e \notin In \cup Out /\ In' = In \cup {e} /\ Out' = Out
                             \/ e \in In /\ In' = In \ {e} /\ Out' = Out \cup {e}
<1>1. ~edited
  BY DEF Call, Push, Pop, Iter, Enter, Remove, Insert, Lock, Step, Look, Cas, Leave, Clear,
     PushStep, PopStep, EditStep, Enlarge, Shift, Resize, Unlock,
     LoadPopFar, ClaimSlot, Room, FirstAlloc, Drain, Grow, LoadAlloc, WriteSlot, CountUp,
     LoadPushFar, TakeSlot, Undo, ReadSlot, CountDown, IterDrop, IterNext, history
<1>2. BodyInv /\ \A u \in Threads : op[u] \notin {"remove", "insert"}
  BY <1>1 DEF DataInv
<1>3. /\ ~EditStep(t) /\ (Call(t) => Push(t) \/ Pop(t) \/ Iter(t))
  BY <1>2, OpAfter
<1>4. CASE Call(t) \/ IterNext(t)
  BY <1>3, <1>4, CalmPool
<1>5. CASE Look(t) \/ Cas(t) \/ Leave(t) \/ Clear(t) \/ IterDrop(t)
  BY <1>5, CalmPool
<1>6. CASE PushStep(t)
  <2>1. CASE LoadPopFar(t) \/ Room(t) \/ Drain(t) \/ LoadAlloc(t) \/ CountUp(t)
    BY <2>1, CalmPool
  <2>2. CASE ClaimSlot(t) \/ FirstAlloc(t) \/ Grow(t)
    BY <1>2, <2>2, ClaimPool, AllocPool
  <2>3. CASE WriteSlot(t)
    BY <1>2, <2>3, WritePool
  <2> QED
    BY <1>6, <2>1, <2>2, <2>3 DEF PushStep
<1>7. CASE PopStep(t)
  <2>1. CASE LoadPushFar(t) \/ CountDown(t)
    BY <2>1, CalmPool
  <2>2. CASE Undo(t) \/ ReadSlot(t)
    BY <1>2, <2>2, UndoPool, ReadPool
  <2>3. CASE TakeSlot(t)
    BY <1>2, <2>3, TakePool
  <2> QED
    BY <1>7, <2>1, <2>2, <2>3 DEF PopStep
<1> QED
  BY <1>3, <1>4, <1>5, <1>6, <1>7 DEF Step

\* conc_vec.rs:41 and 142: until remove or insert is called, what is popped was pushed, and
\* each element is popped at most once: the vector implements the pool.
THEOREM VectorIsPool == Spec => IsPool
<1>1. Init => Shared!Init
  <2> SUFFICES ASSUME Init PROVE Shared!Init
    OBVIOUS
  <2>1. ShapeInv
    BY TypesInit
  <2>2. At({"read"}) = {} /\ Gone = {} /\ heap = <<>>
    BY DEF Init, At, Gone
  <2>3. Slots = {}
    BY <2>2, SizeFacts DEF Slots, Size
  <2>4. In = {} /\ Out = {}
    BY <2>2, <2>3 DEF In, Out
  <2> QED
    BY <2>1, <2>4, Views DEF Viewed, Shared!Init
<1>2. (ShapeInv => Viewed)'
  BY Views, PTL
<1>3. VecInv /\ VecInv' /\ [Next]_vars => [~edited' => Shared!Next \/ UNCHANGED Shared!vars]_vars
  <2> SUFFICES ASSUME VecInv, VecInv', Next, ~edited'
               PROVE  Shared!Next \/ UNCHANGED Shared!vars
    OBVIOUS
  <2>1. ShapeInv /\ ShapeInv'
    BY DEF VecInv
  <2>2. Viewed /\ Viewed'
    BY <1>2, <2>1, Views
  <2>3. \/ In' = In /\ Out' = Out
        \/ \E e \in Items : \/ e \notin In \cup Out /\ In' = In \cup {e} /\ Out' = Out
                            \/ e \in In /\ In' = In \ {e} /\ Out' = Out \cup {e}
    BY PoolSteps DEF Next, VecInv
  <2> QED
    BY <2>2, <2>3 DEF Viewed, Shared!Next, Shared!Put, Shared!Take, Shared!vars
<1> QED
  BY <1>1, <1>3, VectorCorrect, PTL DEF Spec, IsPool
=============================================================================
