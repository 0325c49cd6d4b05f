------------------------------ MODULE ConcVec ------------------------------
(***************************************************************************)
(* The lock-free vector of the server.  One word holds two counters, of    *)
(* the pushes and iterations and of the pops under way, and three flags:   *)
(* whoever wants in counts itself, then waits until its flag is set or can *)
(* be set.  remove and insert take the whole word.  Each action is one     *)
(* access to shared memory; a wait is a guard.                             *)
(*                                                                         *)
(* An allocation is a function on its slots; heap[g] is the g-th one, the  *)
(* last of them the current.  A counter of the word never carries into its *)
(* neighbour here: that takes 2^28 calls under way.                        *)
(***************************************************************************)
EXTENDS Integers, Sequences, FiniteSets

CONSTANTS
  Threads,
  Items,        \* the elements; each is put in once
  Empty,        \* what a slot holds that is not written, or moved out
  InitialCap,   \* INITIAL_CAP, 8 in the code
  Scale,        \* SCALE_FACTOR
  Word,         \* 2^64: len is a usize, and wraps
  MaxCalls      \* bound: the calls of one run

Ops == {"push", "pop", "iter", "remove", "insert"}

ASSUME VecAssumption ==
  /\ IsFiniteSet(Threads)
  /\ Empty \notin Items
  /\ InitialCap \in Nat \ {0} /\ Scale \in Nat \ {0, 1} /\ Word \in Nat \ {0}
  /\ MaxCalls \in 0..(Word - 1)   \* a usize counts more than any run calls

VARIABLES
  guard,     \* the packed word
  pushFar, popFar, len,
  heap,      \* every allocation so far
  op, pc,    \* the call of a thread, and where it stands
  seen,      \* the word it has read
  far,       \* the counter it has read
  slot,      \* the slot, or index, it is at
  val,       \* the element it brings or holds
  at,        \* the allocation it has loaded
  calls,     \* the calls that have begun
  used,      \* history: the elements given to push or insert
  taken,     \* history: what pop returned
  leaks,     \* history: the pops that returned nothing and stay counted
  kept,      \* history: an iterator, dropped last, has left its flag behind
  missed,    \* history: a push that had to grow the vector waits for another to do it
  edited     \* history: remove or insert was called

counts == <<pushFar, popFar, len>>
locals == <<op, far, slot, val, at>>
history == <<used, taken, leaks, kept, missed, edited>>
vars == <<guard, pushFar, popFar, len, heap, op, pc, seen, far, slot, val, at, calls,
          used, taken, leaks, kept, missed, edited>>

Free == [push |-> 0, pop |-> 0, PUSH |-> FALSE, POP |-> FALSE, LOCK |-> FALSE]

SizeOf(a) == Cardinality(DOMAIN a)
Size == IF heap = <<>> THEN 0 ELSE SizeOf(heap[Len(heap)])
Blank == [s \in 0..(InitialCap - 1) |-> Empty]
Capacity(g) == InitialCap * Scale ^ (g - 1)   \* of the g-th allocation

Init ==
  /\ guard = Free
  /\ pushFar = 0 /\ popFar = 0 /\ len = 0
  /\ heap = <<>>
  /\ op = [t \in Threads |-> "none"] /\ pc = [t \in Threads |-> "idle"]
  /\ seen = [t \in Threads |-> Free]
  /\ far = [t \in Threads |-> 0] /\ slot = [t \in Threads |-> 0]
  /\ val = [t \in Threads |-> Empty] /\ at = [t \in Threads |-> 0]
  /\ calls = 0
  /\ used = {} /\ taken = <<>> /\ leaks = 0
  /\ kept = FALSE /\ missed = FALSE /\ edited = FALSE

-----------------------------------------------------------------------------
(* The way in: count, then have the flag or set it.                        *)

Counter(o) == IF o = "pop" THEN "pop" ELSE "push"

Count(g, o, n) == [g EXCEPT ![Counter(o)] = @ + n]

Flagged(g, o) == CASE o = "push" -> g.PUSH /\ ~g.LOCK
                   [] o = "iter" -> g.PUSH
                   [] o = "pop" -> g.POP

\* Mutant: a push does not wait for remove and insert.
BlockedByPops(g, o) == CASE o = "push" -> g.POP
                         [] o = "iter" -> g.POP
                         [] o = "pop" -> g.PUSH \/ g.LOCK

Blocked(g, o) == CASE o = "push" -> g.POP \/ g.LOCK
                   [] o = "iter" -> g.POP
                   [] o = "pop" -> g.PUSH \/ g.LOCK

SetFlag(g, o) == IF o = "pop" THEN [g EXCEPT !.POP = TRUE]
                              ELSE [g EXCEPT !.PUSH = TRUE]

First(o) == CASE o = "push" -> "popFar" [] o = "pop" -> "pushFar" [] o = "iter" -> "next"

\* What a call does with a word it has got: go in, wait, or try to set the flag.
Consider(t, o, g) ==
  /\ pc' = [pc EXCEPT ![t] = IF Flagged(g, o) THEN First(o)
                             ELSE IF Blocked(g, o) THEN "look" ELSE "cas"]
  /\ seen' = [seen EXCEPT ![t] = IF Flagged(g, o) \/ Blocked(g, o) THEN Free ELSE g]

\* A vector that has counted itself longer than its room is not followed further.
Begin(t, o) ==
  /\ pc[t] = "idle"
  /\ len <= Size
  /\ calls < MaxCalls
  /\ calls' = calls + 1
  /\ op' = [op EXCEPT ![t] = o]

\* fetch_add returns the word without the call's own mark.
Enter(t, o, v) ==
  /\ Begin(t, o)
  /\ guard' = Count(guard, o, 1)
  /\ Consider(t, o, guard)
  /\ val' = [val EXCEPT ![t] = v]
  /\ used' = used \cup ({v} \ {Empty})
  /\ UNCHANGED <<counts, heap, far, slot, at, taken, leaks, kept, missed, edited>>

\* Which element is as good as any other.
Fresh == CHOOSE v \in Items : v \notin used

Push(t) == used # Items /\ Enter(t, "push", Fresh)
Pop(t) == Enter(t, "pop", Empty)
Iter(t) == Enter(t, "iter", Empty)

\* The word is loaded again until it lets the call through.
Look(t) ==
  /\ pc[t] = "look"
  /\ ~Blocked(guard, op[t])
  /\ seen' = [seen EXCEPT ![t] = guard]
  /\ pc' = [pc EXCEPT ![t] = "cas"]
  /\ UNCHANGED <<guard, counts, heap, locals, calls, history>>

Cas(t) ==
  /\ pc[t] = "cas"
  /\ IF guard = seen[t]
     THEN /\ guard' = SetFlag(guard, op[t])
          /\ pc' = [pc EXCEPT ![t] = First(op[t])]
          /\ seen' = [seen EXCEPT ![t] = Free]
     ELSE Consider(t, op[t], guard) /\ UNCHANGED guard
  /\ UNCHANGED <<counts, heap, locals, calls, history>>

-----------------------------------------------------------------------------
(* The way out: uncount, and clear the flag when nobody is counted.        *)

Finish(t) ==
  /\ pc' = [pc EXCEPT ![t] = "idle"] /\ op' = [op EXCEPT ![t] = "none"]
  /\ seen' = [seen EXCEPT ![t] = Free]
  /\ far' = [far EXCEPT ![t] = 0] /\ slot' = [slot EXCEPT ![t] = 0]
  /\ val' = [val EXCEPT ![t] = Empty] /\ at' = [at EXCEPT ![t] = 0]

\* Mutant: the pops leave their flag behind.
MustClearPushes(g, o) == o # "pop" /\ g.push = 0 /\ g.PUSH

MustClear(g, o) == IF o = "pop" THEN g.pop = 0 /\ g.POP ELSE g.push = 0 /\ g.PUSH

\* Clear, or be done: with the word just read.
Ending(t, g) ==
  IF MustClear(g, op[t])
  THEN /\ pc' = [pc EXCEPT ![t] = "clear"] /\ seen' = [seen EXCEPT ![t] = g]
       /\ UNCHANGED locals
  ELSE Finish(t)

Leave(t) ==
  /\ pc[t] = "leave"
  /\ guard' = Count(guard, op[t], -1)
  /\ Ending(t, guard')
  /\ UNCHANGED <<counts, heap, calls, history>>

Clear(t) ==
  /\ pc[t] = "clear"
  /\ IF guard = seen[t]
     THEN /\ guard' = IF op[t] = "pop" THEN [guard EXCEPT !.POP = FALSE]
                                       ELSE [guard EXCEPT !.PUSH = FALSE]
          /\ Finish(t)
     ELSE Ending(t, guard) /\ UNCHANGED guard
  /\ UNCHANGED <<counts, heap, calls, history>>

-----------------------------------------------------------------------------
(* push                                                                    *)

Goto(t, s) == pc' = [pc EXCEPT ![t] = s]

LoadPopFar(t) ==
  /\ pc[t] = "popFar"
  /\ far' = [far EXCEPT ![t] = popFar]
  /\ Goto(t, "claim")
  /\ UNCHANGED <<guard, counts, heap, op, seen, slot, val, at, calls, history>>

ClaimSlot(t) ==
  /\ pc[t] = "claim"
  /\ slot' = [slot EXCEPT ![t] = pushFar - far[t]]
  /\ pushFar' = pushFar + 1
  /\ Goto(t, "room")
  /\ UNCHANGED <<guard, popFar, len, heap, op, seen, far, val, at, calls, history>>

\* The slot right behind an allocation grows it; those further behind wait.
Room(t) ==
  /\ pc[t] = "room"
  /\ Goto(t, IF slot[t] = Size THEN IF Size = 0 THEN "first" ELSE "drain" ELSE "load")
  /\ missed' = (missed \/ \E g \in 1..(slot[t] + 1) : slot[t] = Capacity(g) /\ Size < slot[t])
  /\ UNCHANGED <<guard, counts, heap, locals, seen, calls,
                 used, taken, leaks, kept, edited>>

FirstAlloc(t) ==
  /\ pc[t] = "first"
  /\ heap' = Append(heap, Blank)
  /\ Goto(t, "load")
  /\ UNCHANGED <<guard, counts, locals, seen, calls, history>>

\* Mutant: the copy does not wait.
DrainAtOnce(t) ==
  /\ pc[t] = "drain"
  /\ at' = [at EXCEPT ![t] = Len(heap)]
  /\ Goto(t, "grow")
  /\ UNCHANGED <<guard, counts, heap, op, far, slot, val, seen, calls, history>>

\* The copy waits until every slot in front is written.
Drain(t) ==
  /\ pc[t] = "drain"
  /\ len = slot[t]
  /\ at' = [at EXCEPT ![t] = Len(heap)]
  /\ Goto(t, "grow")
  /\ UNCHANGED <<guard, counts, heap, op, far, slot, val, seen, calls, history>>

\* Mutant: the last element is not copied.
GrownOneLess(old) ==
  [s \in 0..(SizeOf(old) * Scale - 1) |-> IF s + 1 \in DOMAIN old THEN old[s] ELSE Empty]

\* The next allocation, with the contents of the one before.
Grown(old) ==
  [s \in 0..(SizeOf(old) * Scale - 1) |-> IF s \in DOMAIN old THEN old[s] ELSE Empty]

Grow(t) ==
  /\ pc[t] = "grow"
  /\ heap' = Append(heap, Grown(heap[at[t]]))
  /\ Goto(t, "load")
  /\ UNCHANGED <<guard, counts, locals, seen, calls, history>>

LoadAlloc(t) ==
  /\ pc[t] = "load"
  /\ slot[t] < Size
  /\ at' = [at EXCEPT ![t] = Len(heap)]
  /\ Goto(t, "write")
  /\ UNCHANGED <<guard, counts, heap, op, far, slot, val, seen, calls, history>>

WriteSlot(t) ==
  /\ pc[t] = "write"
  /\ heap' = [heap EXCEPT ![at[t]][slot[t]] = val[t]]
  /\ Goto(t, "count")
  /\ UNCHANGED <<guard, counts, locals, seen, calls, history>>

CountUp(t) ==
  /\ pc[t] = "count"
  /\ len' = (len + 1) % Word
  /\ Goto(t, "leave")
  /\ UNCHANGED <<guard, pushFar, popFar, heap, locals, seen, calls, history>>

PushStep(t) == LoadPopFar(t) \/ ClaimSlot(t) \/ Room(t) \/ FirstAlloc(t) \/ Drain(t)
               \/ Grow(t) \/ LoadAlloc(t) \/ WriteSlot(t) \/ CountUp(t)

-----------------------------------------------------------------------------
(* pop                                                                     *)

LoadPushFar(t) ==
  /\ pc[t] = "pushFar"
  /\ far' = [far EXCEPT ![t] = pushFar]
  /\ Goto(t, "take")
  /\ UNCHANGED <<guard, counts, heap, op, seen, slot, val, at, calls, history>>

TakeSlot(t) ==
  /\ pc[t] = "take"
  /\ popFar' = popFar + 1
  /\ IF popFar >= far[t]
     THEN Goto(t, "undo") /\ UNCHANGED slot
     ELSE Goto(t, "read") /\ slot' = [slot EXCEPT ![t] = far[t] - popFar - 1]
  /\ UNCHANGED <<guard, pushFar, len, heap, op, seen, far, val, at, calls, history>>

\* The early return leaves the call in the word's count.
Undo(t) ==
  /\ pc[t] = "undo"
  /\ popFar' = popFar - 1
  /\ leaks' = leaks + 1
  /\ Finish(t)
  /\ UNCHANGED <<guard, pushFar, len, heap, calls, used, taken, kept, missed, edited>>

\* The element is moved out of its slot.
ReadSlot(t) ==
  /\ pc[t] = "read"
  /\ IF heap = <<>>
     THEN Goto(t, "leave") /\ UNCHANGED <<heap, taken>>
     ELSE /\ taken' = Append(taken, heap[Len(heap)][slot[t]])
          /\ heap' = [heap EXCEPT ![Len(heap)][slot[t]] = Empty]
          /\ Goto(t, "uncount")
  /\ UNCHANGED <<guard, counts, locals, seen, calls, used, leaks, kept, missed, edited>>

CountDown(t) ==
  /\ pc[t] = "uncount"
  /\ len' = (len - 1) % Word
  /\ Goto(t, "leave")
  /\ UNCHANGED <<guard, pushFar, popFar, heap, locals, seen, calls, history>>

PopStep(t) == LoadPushFar(t) \/ TakeSlot(t) \/ Undo(t) \/ ReadSlot(t) \/ CountDown(t)

-----------------------------------------------------------------------------
(* iter: the iterator reads the length for every element.                  *)

IterNext(t) ==
  /\ pc[t] = "next"
  /\ slot[t] < len
  /\ slot' = [slot EXCEPT ![t] = @ + 1]
  /\ UNCHANGED <<guard, counts, heap, op, pc, seen, far, val, at, calls, history>>

\* The iterator is dropped, at its end or before.  Its flag is nobody's business.
IterDrop(t) ==
  /\ pc[t] = "next"
  /\ guard' = Count(guard, "iter", -1)
  /\ kept' = (kept \/ (guard.push = 1 /\ guard.PUSH))
  /\ Finish(t)
  /\ UNCHANGED <<counts, heap, calls, used, taken, leaks, missed, edited>>

-----------------------------------------------------------------------------
(* remove and insert                                                       *)

\* The call begins when its compare_exchange on the free word succeeds.
Lock(t, o, i) ==
  /\ Begin(t, o)
  /\ guard = Free
  /\ guard' = [Free EXCEPT !.LOCK = TRUE]
  /\ slot' = [slot EXCEPT ![t] = i]
  /\ edited' = TRUE

\* The index is the caller's business: it is below the length.
Remove(t, i) ==
  /\ Lock(t, "remove", i)
  /\ i < len
  /\ Goto(t, "shift")
  /\ UNCHANGED <<counts, heap, far, val, at, seen, used, taken, leaks, kept, missed>>

\* An index behind the end panics under the lock.
Insert(t, i) ==
  /\ Lock(t, "insert", i)
  /\ used # Items
  /\ used' = used \cup {Fresh}
  /\ val' = [val EXCEPT ![t] = Fresh]
  /\ Goto(t, IF len < i THEN "panicked" ELSE IF Size < len + 1 THEN "enlarge" ELSE "shift")
  /\ UNCHANGED <<counts, heap, far, at, seen, taken, leaks, kept, missed>>

Enlarge(t) ==
  /\ pc[t] = "enlarge"
  /\ heap' = Append(heap, IF heap = <<>> THEN Blank ELSE Grown(heap[Len(heap)]))
  /\ Goto(t, "shift")
  /\ UNCHANGED <<guard, counts, locals, seen, calls, history>>

Without(a, i) == [s \in DOMAIN a |-> IF s < i \/ s + 1 \notin DOMAIN a THEN a[s] ELSE a[s + 1]]
With(a, i, v) == [s \in DOMAIN a |-> IF s < i \/ s > len THEN a[s]
                                     ELSE IF s = i THEN v ELSE a[s - 1]]

Shift(t) ==
  /\ pc[t] = "shift"
  /\ heap' = [heap EXCEPT ![Len(heap)] = IF op[t] = "remove" THEN Without(@, slot[t])
                                         ELSE With(@, slot[t], val[t])]
  /\ Goto(t, "resize")
  /\ UNCHANGED <<guard, counts, locals, seen, calls, history>>

Resize(t) ==
  /\ pc[t] = "resize"
  /\ len' = IF op[t] = "remove" THEN (len - 1) % Word ELSE (len + 1) % Word
  /\ Goto(t, "unlock")
  /\ UNCHANGED <<guard, pushFar, popFar, heap, locals, seen, calls, history>>

Unlock(t) ==
  /\ pc[t] = "unlock"
  /\ guard' = [guard EXCEPT !.LOCK = FALSE]
  /\ Finish(t)
  /\ UNCHANGED <<counts, heap, calls, history>>

EditStep(t) == Enlarge(t) \/ Shift(t) \/ Resize(t) \/ Unlock(t)

-----------------------------------------------------------------------------
Call(t) ==
  \/ Push(t)
  \/ Pop(t)
  \/ Iter(t)
  \/ \E i \in 0..len : Remove(t, i)
  \/ \E i \in 0..(len + 1) : Insert(t, i)

Step(t) ==
  \/ Look(t) \/ Cas(t) \/ Leave(t) \/ Clear(t)
  \/ PushStep(t) \/ PopStep(t) \/ EditStep(t)
  \/ IterDrop(t)

Next == \E t \in Threads : Call(t) \/ Step(t) \/ IterNext(t)

Spec == Init /\ [][Next]_vars

\* A thread in a call runs on; an iterator is dropped some time.
LiveSpec == Spec /\ \A t \in Threads : WF_vars(Step(t))

-----------------------------------------------------------------------------
(* Properties.                                                             *)

Words == [push : Nat, pop : Nat, PUSH : BOOLEAN, POP : BOOLEAN, LOCK : BOOLEAN]

\* The types of the variables.
TypeOK ==
  /\ guard \in Words /\ seen \in [Threads -> Words]
  /\ pushFar \in Nat /\ popFar \in Nat /\ len \in 0..(Word - 1)
  /\ \A g \in 1..Len(heap) : heap[g] \in [0..(SizeOf(heap[g]) - 1) -> Items \cup {Empty}]
  /\ op \in [Threads -> Ops \cup {"none"}]
  /\ pc \in [Threads -> {"idle", "look", "cas", "clear", "leave", "popFar", "claim", "room",
                         "first", "drain", "grow", "load", "write", "count", "pushFar",
                         "take", "undo", "read", "uncount", "next", "enlarge", "shift",
                         "resize", "unlock", "panicked"}]
  /\ far \in [Threads -> Nat] /\ slot \in [Threads -> Nat] /\ at \in [Threads -> Nat]
  /\ val \in [Threads -> Items \cup {Empty}]
  /\ calls \in 0..MaxCalls /\ leaks \in Nat
  /\ {kept, missed, edited} \subseteq BOOLEAN

Pushing(t) == pc[t] \in {"popFar", "claim", "room", "first", "drain", "grow", "load",
                         "write", "count"}
Popping(t) == pc[t] \in {"pushFar", "take", "undo", "read", "uncount"}
Iterating(t) == pc[t] = "next"
Editing(t) == pc[t] \in {"enlarge", "shift", "resize", "unlock", "panicked"}

\* conc_vec.rs:129: nobody pops while another pushes or iterates, and remove and
\* insert are alone with the elements, but for iterators: "wait for other locking
\* reasons as well" is a FIXME of iter.
SectionsApart ==
  \A t, u \in Threads :
    t # u =>
      /\ Popping(t) => ~Pushing(u) /\ ~Iterating(u)
      /\ Editing(t) => ~Pushing(u) /\ ~Popping(u) /\ ~Editing(u)

\* The counters of the word are those inside or on their way in and out, and the
\* empty pops: no call is counted twice or given up.
Going(os) == {t \in Threads : op[t] \in os /\ pc[t] # "clear"}
WordCounts ==
  /\ guard.push = Cardinality(Going({"push", "iter"}))
  /\ guard.pop = Cardinality(Going({"pop"})) + leaks

\* As long as nobody edits: the elements of the claimed slots.
Claimed == {heap[Len(heap)][s] : s \in 0..(pushFar - popFar - 1) \cap 0..(Size - 1)}

\* When nobody is inside, every element that was pushed and not popped is in one
\* slot, no slot in front of the last is empty, and the counters agree on them.
NothingLost ==
  ~edited /\ (\A t \in Threads : ~Pushing(t) /\ ~Popping(t)) =>
    /\ len = pushFar - popFar
    /\ Cardinality(Claimed) = len
    /\ Claimed = {v \in used : \A t \in Threads : val[t] = v => pc[t] \in {"leave", "clear"}}
                 \ {taken[k] : k \in DOMAIN taken}

\* Until remove or insert is called, the vector is a pool: what is popped was
\* pushed, and each element is popped once.  It goes out when its slot is taken.
Shared == INSTANCE Pool WITH
            Element <- Items,
            inside <- Claimed \ {Empty},
            out <- {taken[k] : k \in DOMAIN taken}
                   \cup {heap[Len(heap)][slot[t]] : t \in {u \in Threads : pc[u] = "read"}}
IsPool == Shared!Init /\ [][~edited' => Shared!Next \/ UNCHANGED Shared!vars]_vars

\* Every call that has begun ends, but for four cases: after a pop of an empty
\* vector, an iterator that was dropped last, an edit, or a push that was to grow
\* the vector and found it too small for that, others may wait for ever.
CallsEnd ==
  \A t \in Threads :
    pc[t] \notin {"idle", "next"} ~> \/ pc[t] \in {"idle", "next"}
                                     \/ leaks > 0 \/ kept \/ missed \/ edited
=============================================================================
