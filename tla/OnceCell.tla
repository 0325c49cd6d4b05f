------------------------------ MODULE OnceCell ------------------------------
(***************************************************************************)
(* ConcurrentOnceCell and the SizedBox under it: a pointer that leaves     *)
(* null once.  No allocation is ever returned, so that addresses are only  *)
(* counted; what must be exact is who owns a value and who drops it.       *)
(***************************************************************************)
EXTENDS Naturals, Sequences

CONSTANTS Threads,
          Values,  \* what is offered, each value once
          Uninit   \* the contents of an allocation nobody has written

ASSUME OnceAssumption == Uninit \notin Values

Null == 0

VARIABLES
  ptr,      \* the cell
  heap,     \* the allocations
  pc,       \* where a call of try_init stands
  val,      \* the value it was given
  box,      \* its SizedBox
  ref,      \* the reference a thread has from get
  over,     \* the cell has been dropped
  \* history
  fresh,    \* the values that were not offered yet
  refused,  \* those whose compare_exchange failed
  returns,  \* how often a value was given back to the caller
  drops     \* how often a value was dropped

vars == <<ptr, heap, pc, val, box, ref, over, fresh, refused, returns, drops>>

Init ==
  /\ ptr = Null /\ heap = <<>>
  /\ pc = [t \in Threads |-> "idle"]
  /\ val = [t \in Threads |-> Uninit]
  /\ box = [t \in Threads |-> Null]
  /\ ref = [t \in Threads |-> Null]
  /\ over = FALSE
  /\ fresh = Values /\ refused = {}
  /\ returns = [v \in Values |-> 0] /\ drops = [v \in Values |-> 0]

-----------------------------------------------------------------------------

NewAddr == Len(heap) + 1

\* SizedBox::new, the allocation
Alloc(t) ==
  /\ pc[t] = "idle" /\ ~over
  /\ \E v \in fresh : fresh' = fresh \ {v} /\ val' = [val EXCEPT ![t] = v]
  /\ heap' = Append(heap, Uninit)
  /\ box' = [box EXCEPT ![t] = NewAddr]
  /\ pc' = [pc EXCEPT ![t] = "write"]
  /\ UNCHANGED <<ptr, ref, over, refused, returns, drops>>

\* SizedBox::new, the write
Write(t) ==
  /\ pc[t] = "write"
  /\ heap' = [heap EXCEPT ![box[t]] = val[t]]
  /\ pc' = [pc EXCEPT ![t] = "swap"]
  /\ UNCHANGED <<ptr, val, box, ref, over, fresh, refused, returns, drops>>

\* Mutant: a compare_exchange that fails now and then, as the weak one does.
WinsWeak(t) == ptr = Null /\ \E u \in Threads : u # t /\ pc[u] = "idle"

Wins(t) == ptr = Null

\* The compare_exchange; the winner forgets its box.
Swap(t) ==
  /\ pc[t] = "swap"
  /\ \/ /\ Wins(t)
        /\ ptr' = box[t]
        /\ pc' = [pc EXCEPT ![t] = "idle"]
        /\ UNCHANGED refused
     \/ /\ ~Wins(t)
        /\ pc' = [pc EXCEPT ![t] = "lost"]
        /\ refused' = refused \cup {val[t]}
        /\ UNCHANGED ptr
  /\ UNCHANGED <<heap, val, box, ref, over, fresh, returns, drops>>

\* Mutant: into_inner does not forget the box, whose drop drops the value, too.
IntoInnerDrops(t) ==
  /\ pc[t] = "lost"
  /\ LET v == heap[box[t]]
     IN  /\ returns' = [returns EXCEPT ![v] = @ + 1]
         /\ drops' = [drops EXCEPT ![v] = @ + 1]
  /\ pc' = [pc EXCEPT ![t] = "idle"]
  /\ UNCHANGED <<ptr, heap, val, box, ref, over, fresh, refused>>

\* into_inner: the value goes back to the caller of try_init, which may drop it as
\* try_init_silent does; its allocation stays.
IntoInner(t) ==
  /\ pc[t] = "lost"
  /\ LET v == heap[box[t]]
     IN  \/ returns' = [returns EXCEPT ![v] = @ + 1] /\ UNCHANGED drops
         \/ drops' = [drops EXCEPT ![v] = @ + 1] /\ UNCHANGED returns
  /\ pc' = [pc EXCEPT ![t] = "idle"]
  /\ UNCHANGED <<ptr, heap, val, box, ref, over, fresh, refused>>

\* get, and is_init
Get(t) ==
  /\ pc[t] = "idle" /\ ~over
  /\ ref' = [ref EXCEPT ![t] = ptr]
  /\ UNCHANGED <<ptr, heap, pc, val, box, over, fresh, refused, returns, drops>>

LetGo(t) ==
  /\ ref[t] # Null
  /\ ref' = [ref EXCEPT ![t] = Null]
  /\ UNCHANGED <<ptr, heap, pc, val, box, over, fresh, refused, returns, drops>>

\* Drop needs the cell for itself.
DropCell ==
  /\ ~over
  /\ \A t \in Threads : pc[t] = "idle" /\ ref[t] = Null
  /\ over' = TRUE
  /\ drops' = IF ptr = Null THEN drops ELSE [drops EXCEPT ![heap[ptr]] = @ + 1]
  /\ UNCHANGED <<ptr, heap, pc, val, box, ref, fresh, refused, returns>>

Next ==
  \/ \E t \in Threads : Alloc(t) \/ Write(t) \/ Swap(t) \/ IntoInner(t) \/ Get(t) \/ LetGo(t)
  \/ DropCell

Spec == Init /\ [][Next]_vars

-----------------------------------------------------------------------------
(* Properties.                                                             *)

\* The types of the variables.
TypeOK ==
  /\ ptr \in {Null} \cup DOMAIN heap
  /\ heap \in Seq(Values \cup {Uninit})
  /\ pc \in [Threads -> {"idle", "write", "swap", "lost"}]
  /\ val \in [Threads -> Values \cup {Uninit}]
  /\ box \in [Threads -> Nat] /\ \A t \in Threads : pc[t] # "idle" => box[t] \in DOMAIN heap
  /\ ref \in [Threads -> {Null} \cup DOMAIN heap]
  /\ over \in BOOLEAN /\ fresh \subseteq Values /\ refused \subseteq Values
  /\ returns \in [Values -> Nat] /\ drops \in [Values -> Nat]

Moving(v) == \E t \in Threads : pc[t] # "idle" /\ val[t] = v
Stored(v) == ~over /\ ptr # Null /\ heap[ptr] = v
One(b) == IF b THEN 1 ELSE 0

\* conc_once_cell.rs:24: a value is with its caller, in one call, in the cell, given
\* back or dropped, in one of these places and once.
EachOnce ==
  \A v \in Values :
    One(v \in fresh) + One(Moving(v)) + One(Stored(v)) + returns[v] + drops[v] = 1

\* conc_once_cell.rs:42: whoever has a reference sees the value that is in the cell, in
\* an allocation that was written, and the value has not been dropped.
ReadersAgree ==
  \A t \in Threads : ref[t] # Null =>
    /\ ref[t] = ptr
    /\ heap[ptr] \in Values /\ drops[heap[ptr]] = 0

Cell == INSTANCE Once WITH Value <- Values, Nothing <- Uninit,
                           content <- IF ptr = Null THEN Uninit ELSE heap[ptr]

\* conc_once_cell.rs:24: the first value stays for good, also while others are being
\* offered, and nobody is refused while the cell is empty.
IsOnce == Cell!Spec
=============================================================================
