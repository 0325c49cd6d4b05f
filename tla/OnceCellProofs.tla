--------------------------- MODULE OnceCellProofs ---------------------------
(***************************************************************************)
(* Proofs about OnceCell, for any threads and values.  A value is owned    *)
(* exactly once because a call's value is in a box of its own until the    *)
(* compare_exchange, and the box becomes the cell's only while it is empty.*)
(***************************************************************************)
EXTENDS OnceCell, TLAPS

Busy(t) == pc[t] # "idle"

\* What the calls in progress hold: values and boxes of their own, apart from the
\* cell's, and a box that is written once the call is past the write.
Boxes ==
  /\ \A t \in Threads : Busy(t) =>
       /\ val[t] \in Values
       /\ box[t] # Null /\ box[t] # ptr
       /\ pc[t] # "write" => heap[box[t]] = val[t]
  /\ \A t, u \in Threads : Busy(t) /\ Busy(u) /\ t # u => box[t] # box[u] /\ val[t] # val[u]

\* A written cell, and who has been refused.
Contents ==
  /\ ptr # Null => heap[ptr] \in Values
  /\ over => \A t \in Threads : ~Busy(t) /\ ref[t] = Null
  /\ \A t \in Threads : ref[t] # Null => ref[t] = ptr
  /\ \A t \in Threads : pc[t] = "lost" => ptr # Null
  /\ \A v \in refused : v \notin fresh
  /\ \A t \in Threads : pc[t] \in {"write", "swap"} => val[t] \notin refused

IInv == TypeOK /\ Boxes /\ Contents /\ EachOnce

-----------------------------------------------------------------------------
\* The invariant holds when the cell is made.
LEMMA Starts == Init => IInv
<1>. SUFFICES ASSUME Init PROVE IInv
  OBVIOUS
<1>1. TypeOK
  <2>1. heap = <<>> /\ heap \in Seq(Values \cup {Uninit})
    BY DEF Init
  <2>2. pc \in [Threads -> {"idle", "write", "swap", "lost"}] /\ \A t \in Threads : pc[t] = "idle"
    BY DEF Init
  <2>3. returns \in [Values -> Nat] /\ drops \in [Values -> Nat] /\ box \in [Threads -> Nat]
    BY DEF Init, Null
  <2>. QED  BY <2>1, <2>2, <2>3 DEF Init, TypeOK
<1>2. Boxes /\ Contents
  BY DEF Init, Boxes, Contents, Busy, Null
<1>3. EachOnce
  <2>. SUFFICES ASSUME NEW v \in Values
       PROVE  One(v \in fresh) + One(Moving(v)) + One(Stored(v)) + returns[v] + drops[v] = 1
    BY DEF EachOnce
  <2>1. ~Moving(v) /\ ~Stored(v) /\ v \in fresh /\ returns[v] = 0 /\ drops[v] = 0
    BY DEF Init, Moving, Stored, Null
  <2>. QED  BY <2>1 DEF One
<1>. QED  BY <1>1, <1>2, <1>3 DEF IInv

\* The sum of EachOnce, read as what excludes what.
LEMMA OnePlace ==
  ASSUME IInv, NEW v \in Values
  PROVE  /\ returns[v] \in Nat /\ drops[v] \in Nat
         /\ v \in fresh => ~Moving(v) /\ ~Stored(v) /\ returns[v] = 0 /\ drops[v] = 0
         /\ Moving(v) => v \notin fresh /\ ~Stored(v) /\ returns[v] = 0 /\ drops[v] = 0
         /\ Stored(v) => v \notin fresh /\ ~Moving(v) /\ returns[v] = 0 /\ drops[v] = 0
BY DEF IInv, TypeOK, EachOnce, One

\* A value that is offered goes from its caller into a box of its own.
LEMMA AllocKeeps ==
  ASSUME IInv, NEW t \in Threads, Alloc(t)
  PROVE  IInv'
<1>. USE DEF IInv, Null
<1>1. TypeOK'
  BY SMTT(30) DEF TypeOK, Contents, Boxes, Busy, Alloc, NewAddr
<1>2. Boxes'
  <2>1. PICK v \in fresh : fresh' = fresh \ {v} /\ val' = [val EXCEPT ![t] = v]
    BY DEF Alloc
  <2>2. v \in Values /\ ~Moving(v)
    BY <2>1, OnePlace DEF TypeOK
  <2>3. \A u \in Threads : Busy(u) => u # t /\ val[u] # v /\ val'[u] = val[u] /\ box'[u] = box[u]
                                     /\ pc'[u] = pc[u] /\ box[u] \in 1..Len(heap)
    BY <2>1, <2>2 DEF Alloc, Busy, Moving, TypeOK
  <2>4. heap' = Append(heap, Uninit) /\ \A i \in 1..Len(heap) : heap'[i] = heap[i]
    BY DEF Alloc, TypeOK
  <2>5. val'[t] = v /\ box'[t] = Len(heap) + 1 /\ pc'[t] = "write" /\ ptr' = ptr /\ ptr \in 0..Len(heap)
    BY <2>1 DEF Alloc, NewAddr, TypeOK
  <2>6. \A u \in Threads : Busy(u)' => u = t \/ Busy(u)
    BY DEF Alloc, Busy, TypeOK
  <2>7. \A u \in Threads : Busy(u)' =>
          /\ val'[u] \in Values /\ box'[u] # Null /\ box'[u] # ptr'
          /\ pc'[u] # "write" => heap'[box'[u]] = val'[u]
    BY <2>2, <2>3, <2>4, <2>5, <2>6 DEF Boxes, TypeOK, Busy
  <2>8. \A u, w \in Threads : Busy(u)' /\ Busy(w)' /\ u # w => box'[u] # box'[w] /\ val'[u] # val'[w]
    BY <2>3, <2>5, <2>6 DEF Boxes
  <2>. QED  BY <2>7, <2>8 DEF Boxes, Busy
<1>3. Contents'
  BY SMTT(30) DEF TypeOK, Boxes, Contents, Busy, Alloc, NewAddr
<1>4. EachOnce'
  <2>. SUFFICES ASSUME NEW w \in Values
       PROVE  (One(w \in fresh) + One(Moving(w)) + One(Stored(w)) + returns[w] + drops[w] = 1)'
    BY DEF EachOnce
  <2>0. One(w \in fresh) + One(Moving(w)) + One(Stored(w)) + returns[w] + drops[w] = 1
    BY DEF EachOnce
  <2>1. PICK v \in fresh : fresh' = fresh \ {v} /\ val' = [val EXCEPT ![t] = v]
    BY DEF Alloc
  <2>2. Stored(w)' <=> Stored(w)
    BY SMTT(30) DEF Alloc, Stored, TypeOK
  <2>3. Moving(w)' <=> Moving(w) \/ w = v
    BY <2>1 DEF Alloc, Moving, TypeOK
  <2>4. w = v => ~Moving(w)
    BY <2>1, OnePlace
  <2>5. returns' = returns /\ drops' = drops
    BY DEF Alloc
  <2>. QED  BY <2>0, <2>1, <2>2, <2>3, <2>4, <2>5 DEF One
<1>. QED  BY <1>1, <1>2, <1>3, <1>4

\* The write touches the call's own allocation only.
LEMMA WriteKeeps ==
  ASSUME IInv, NEW t \in Threads, Write(t)
  PROVE  IInv'
<1>. USE DEF IInv, Null
<1>1. TypeOK'
  BY SMTT(30) DEF TypeOK, Contents, Boxes, Busy, Write
<1>2. Boxes'
  BY SMTT(30) DEF TypeOK, Boxes, Contents, EachOnce, Moving, One, Busy, Write
<1>3. Contents'
  BY SMTT(30) DEF TypeOK, Boxes, Contents, Busy, Write
<1>4. EachOnce'
  <2>. SUFFICES ASSUME NEW w \in Values
       PROVE  (One(w \in fresh) + One(Moving(w)) + One(Stored(w)) + returns[w] + drops[w] = 1)'
    BY DEF EachOnce
  <2>0. One(w \in fresh) + One(Moving(w)) + One(Stored(w)) + returns[w] + drops[w] = 1
    BY DEF EachOnce
  <2>1. Stored(w)' <=> Stored(w)
    BY DEF Write, Stored, Boxes, Busy, TypeOK
  <2>2. Moving(w)' <=> Moving(w)
    BY DEF Write, Moving, TypeOK
  <2>3. fresh' = fresh /\ returns' = returns /\ drops' = drops
    BY DEF Write
  <2>. QED  BY <2>0, <2>1, <2>2, <2>3 DEF One
<1>. QED  BY <1>1, <1>2, <1>3, <1>4

\* The winner's value goes from the call into the cell, the loser keeps its own.
LEMMA SwapKeeps ==
  ASSUME IInv, NEW t \in Threads, Swap(t)
  PROVE  IInv'
<1>. USE DEF IInv, Null
<1>0. /\ pc[t] = "swap" /\ val[t] \in Values /\ box[t] \in DOMAIN heap /\ box[t] # Null
      /\ heap[box[t]] = val[t] /\ val[t] \notin refused /\ Moving(val[t])
      /\ UNCHANGED <<heap, val, box, ref, over, fresh, returns, drops>>
  BY DEF Swap, TypeOK, Boxes, Contents, Busy, Moving
<1>1. CASE /\ ptr = Null /\ ptr' = box[t] /\ refused' = refused
           /\ pc' = [pc EXCEPT ![t] = "idle"]
  <2>1. TypeOK'
    BY <1>0, <1>1 DEF TypeOK
  <2>2. Boxes'
    BY <1>0, <1>1 DEF TypeOK, Boxes, Busy
  <2>3. Contents'
    BY <1>0, <1>1 DEF TypeOK, Contents, Busy
  <2>4. EachOnce'
    <3>. SUFFICES ASSUME NEW w \in Values
         PROVE  (One(w \in fresh) + One(Moving(w)) + One(Stored(w)) + returns[w] + drops[w] = 1)'
      BY DEF EachOnce
    <3>0. One(w \in fresh) + One(Moving(w)) + One(Stored(w)) + returns[w] + drops[w] = 1
      BY DEF EachOnce
    <3>1. ~Stored(w) /\ (Stored(w)' <=> w = val[t])
      BY <1>0, <1>1 DEF Stored, Contents, Busy
    <3>2. Moving(w)' <=> Moving(w) /\ w # val[t]
      BY <1>0, <1>1 DEF Moving, Boxes, Busy, TypeOK
    <3>. QED  BY <1>0, <3>0, <3>1, <3>2 DEF One
  <2>. QED  BY <2>1, <2>2, <2>3, <2>4
<1>2. CASE /\ ptr # Null /\ ptr' = ptr /\ refused' = refused \cup {val[t]}
           /\ pc' = [pc EXCEPT ![t] = "lost"]
  <2>1. TypeOK'
    BY <1>0, <1>2 DEF TypeOK
  <2>2. Boxes'
    BY <1>0, <1>2 DEF TypeOK, Boxes, Busy
  <2>3. val[t] \notin fresh
    BY <1>0, OnePlace
  <2>4. \A u \in Threads : u # t /\ Busy(u) => val[u] # val[t]
    BY <1>0 DEF Boxes, Busy
  <2>5. Contents'
    BY <1>0, <1>2, <2>3, <2>4 DEF TypeOK, Contents, Busy
  <2>6. EachOnce'
    <3>. SUFFICES ASSUME NEW w \in Values
         PROVE  (One(w \in fresh) + One(Moving(w)) + One(Stored(w)) + returns[w] + drops[w] = 1)'
      BY DEF EachOnce
    <3>0. One(w \in fresh) + One(Moving(w)) + One(Stored(w)) + returns[w] + drops[w] = 1
      BY DEF EachOnce
    <3>1. Stored(w)' <=> Stored(w)
      BY <1>0, <1>2 DEF Stored
    <3>2. Moving(w)' <=> Moving(w)
      BY <1>0, <1>2 DEF Moving, TypeOK
    <3>. QED  BY <1>0, <3>0, <3>1, <3>2 DEF One
  <2>. QED  BY <2>1, <2>2, <2>5, <2>6
<1>. QED  BY <1>1, <1>2 DEF Swap, Wins

\* The loser's value leaves the call, by one of two ways.
LEMMA IntoInnerKeeps ==
  ASSUME IInv, NEW t \in Threads, IntoInner(t)
  PROVE  IInv'
<1>. USE DEF IInv, Null
<1>0. val[t] \in Values /\ heap[box[t]] = val[t] /\ Moving(val[t])
  BY DEF IntoInner, Boxes, Busy, Moving
<1>1. TypeOK'
  <2>1. ASSUME returns' = [returns EXCEPT ![val[t]] = @ + 1] /\ drops' = drops
        PROVE  returns' \in [Values -> Nat] /\ drops' \in [Values -> Nat]
    BY <1>0, <2>1 DEF TypeOK
  <2>2. ASSUME drops' = [drops EXCEPT ![val[t]] = @ + 1] /\ returns' = returns
        PROVE  returns' \in [Values -> Nat] /\ drops' \in [Values -> Nat]
    BY <1>0, <2>2 DEF TypeOK
  <2>3. returns' \in [Values -> Nat] /\ drops' \in [Values -> Nat]
    BY <1>0, <2>1, <2>2 DEF IntoInner, TypeOK
  <2>. QED  BY <2>3 DEF IntoInner, TypeOK
<1>2. Boxes'
  BY SMTT(30) DEF TypeOK, Boxes, Contents, EachOnce, Moving, One, Busy, IntoInner
<1>3. Contents'
  BY SMTT(30) DEF TypeOK, Boxes, Contents, Busy, IntoInner
<1>4. EachOnce'
  <2>. SUFFICES ASSUME NEW w \in Values
       PROVE  (One(w \in fresh) + One(Moving(w)) + One(Stored(w)) + returns[w] + drops[w] = 1)'
    BY DEF EachOnce
  <2>0. One(w \in fresh) + One(Moving(w)) + One(Stored(w)) + returns[w] + drops[w] = 1
    BY DEF EachOnce
  <2>1. Stored(w)' <=> Stored(w)
    BY DEF IntoInner, Stored
  <2>2. Moving(w)' <=> Moving(w) /\ w # val[t]
    BY <1>0 DEF IntoInner, Moving, Boxes, Busy, TypeOK
  <2>3. fresh' = fresh
    BY DEF IntoInner
  <2>4. w # val[t] => returns'[w] = returns[w] /\ drops'[w] = drops[w]
    BY <1>0 DEF IntoInner, TypeOK
  <2>5. w = val[t] => returns'[w] + drops'[w] = returns[w] + drops[w] + 1
    BY <1>0 DEF IntoInner, TypeOK
  <2>6. returns'[w] \in Nat /\ drops'[w] \in Nat /\ returns[w] \in Nat /\ drops[w] \in Nat
    BY <1>1 DEF TypeOK
  <2>. QED  BY <1>0, <2>0, <2>1, <2>2, <2>3, <2>4, <2>5, <2>6 DEF One
<1>. QED  BY <1>1, <1>2, <1>3, <1>4

\* A reference points to what the cell holds.
LEMMA GetKeeps ==
  ASSUME IInv, NEW t \in Threads, Get(t)
  PROVE  IInv'
<1>. USE DEF IInv, Null
<1>1. TypeOK'
  BY SMTT(30) DEF TypeOK, Contents, Boxes, Busy, Get
<1>2. Boxes'
  BY SMTT(30) DEF TypeOK, Boxes, Contents, EachOnce, Moving, One, Busy, Get
<1>3. Contents'
  BY SMTT(30) DEF TypeOK, Boxes, Contents, Busy, Get
<1>4. EachOnce'
  BY SMTT(30) DEF TypeOK, Boxes, Contents, EachOnce, Moving, Stored, One, Busy, Get
<1>. QED  BY <1>1, <1>2, <1>3, <1>4

\* Giving up a reference disturbs nothing.
LEMMA LetGoKeeps ==
  ASSUME IInv, NEW t \in Threads, LetGo(t)
  PROVE  IInv'
<1>. USE DEF IInv, Null
<1>1. TypeOK'
  BY SMTT(30) DEF TypeOK, Contents, Boxes, Busy, LetGo
<1>2. Boxes'
  BY SMTT(30) DEF TypeOK, Boxes, Contents, EachOnce, Moving, One, Busy, LetGo
<1>3. Contents'
  BY SMTT(30) DEF TypeOK, Boxes, Contents, Busy, LetGo
<1>4. EachOnce'
  BY SMTT(30) DEF TypeOK, Boxes, Contents, EachOnce, Moving, Stored, One, Busy, LetGo
<1>. QED  BY <1>1, <1>2, <1>3, <1>4

\* The last owner drops what the cell holds.
LEMMA DropCellKeeps ==
  ASSUME IInv, DropCell
  PROVE  IInv'
<1>. USE DEF IInv, Null
<1>1. TypeOK'
  BY SMTT(30) DEF TypeOK, Contents, Boxes, Busy, DropCell
<1>2. Boxes'
  BY SMTT(30) DEF TypeOK, Boxes, Contents, EachOnce, Moving, One, Busy, DropCell
<1>3. Contents'
  BY SMTT(30) DEF TypeOK, Boxes, Contents, Busy, DropCell
<1>4. EachOnce'
  <2>. SUFFICES ASSUME NEW w \in Values
       PROVE  (One(w \in fresh) + One(Moving(w)) + One(Stored(w)) + returns[w] + drops[w] = 1)'
    BY DEF EachOnce
  <2>0. One(w \in fresh) + One(Moving(w)) + One(Stored(w)) + returns[w] + drops[w] = 1
    BY DEF EachOnce
  <2>1. ~Stored(w)' /\ (Stored(w) <=> ptr # Null /\ heap[ptr] = w)
    BY DEF DropCell, Stored
  <2>2. Moving(w)' <=> Moving(w)
    BY DEF DropCell, Moving
  <2>3. fresh' = fresh /\ returns' = returns
    BY DEF DropCell
  <2>4. drops'[w] = IF Stored(w) THEN drops[w] + 1 ELSE drops[w]
    BY <2>1 DEF DropCell, TypeOK
  <2>5. returns[w] \in Nat /\ drops[w] \in Nat
    BY DEF TypeOK
  <2>. QED  BY <2>0, <2>1, <2>2, <2>3, <2>4, <2>5 DEF One
<1>. QED  BY <1>1, <1>2, <1>3, <1>4

-----------------------------------------------------------------------------
\* The invariant holds for good.
THEOREM CellCorrect == Spec => []IInv
<1>1. IInv /\ [Next]_vars => IInv'
  <2>. SUFFICES ASSUME IInv, [Next]_vars PROVE IInv'
    OBVIOUS
  <2>1. ASSUME NEW t \in Threads,
               Alloc(t) \/ Write(t) \/ Swap(t) \/ IntoInner(t) \/ Get(t) \/ LetGo(t)
        PROVE  IInv'
    BY <2>1, AllocKeeps, WriteKeeps, SwapKeeps, IntoInnerKeeps, GetKeeps, LetGoKeeps
  <2>2. CASE DropCell
    BY <2>2, DropCellKeeps
  <2>3. CASE UNCHANGED vars
    BY <2>3 DEF vars, IInv, TypeOK, Boxes, Contents, EachOnce, Busy, Moving, Stored, One
  <2>. QED  BY <2>1, <2>2, <2>3 DEF Next
<1>. QED  BY Starts, <1>1, PTL DEF Spec

\* conc_once_cell.rs:24: every value has exactly one owner, and is dropped at most once.
THEOREM OwnedOnce == Spec => []EachOnce
BY CellCorrect, PTL DEF IInv

\* conc_once_cell.rs:42: every reference shows the same written value, not dropped yet.
THEOREM ReadersSeeOne == Spec => []ReadersAgree
<1>1. IInv => ReadersAgree
  <2>. SUFFICES ASSUME IInv, NEW t \in Threads, ref[t] # Null
       PROVE  ref[t] = ptr /\ heap[ptr] \in Values /\ drops[heap[ptr]] = 0
    BY DEF ReadersAgree
  <2>1. ref[t] = ptr /\ heap[ptr] \in Values /\ ~over
    BY DEF IInv, Contents
  <2>2. Stored(heap[ptr])
    BY <2>1 DEF Stored
  <2>. QED  BY <2>1, <2>2, OnePlace
<1>. QED  BY CellCorrect, <1>1, PTL

\* conc_once_cell.rs:24: the cell is a cell that is written once.
THEOREM CellIsOnce == Spec => IsOnce
<1>. DEFINE content == IF ptr = Null THEN Uninit ELSE heap[ptr]
<1>1. Init => Cell!Init
  BY DEF Init, Cell!Init
<1>2. IInv /\ [Next]_vars => [Cell!Next]_(Cell!vars)
  <2>. SUFFICES ASSUME IInv, [Next]_vars
       PROVE  Cell!Next \/ (content' = content /\ refused' = refused)
    BY DEF Cell!vars
  <2>1. ASSUME NEW t \in Threads, Alloc(t)
        PROVE  content' = content /\ refused' = refused
    BY <2>1 DEF Alloc, IInv, TypeOK, Null
  <2>2. ASSUME NEW t \in Threads, Write(t)
        PROVE  content' = content /\ refused' = refused
    BY <2>2 DEF Write, IInv, TypeOK, Boxes, Busy, Null
  <2>3. ASSUME NEW t \in Threads, Swap(t)
        PROVE  Cell!Next
    <3>1. val[t] \in Values /\ val[t] # Uninit /\ heap[box[t]] = val[t] /\ box[t] # Null
          /\ val[t] \notin refused
      BY <2>3, OnceAssumption DEF Swap, IInv, Boxes, Contents, Busy
    <3>2. CASE ptr = Null /\ ptr' = box[t] /\ refused' = refused /\ heap' = heap
      <4>1. Cell!Keep(val[t])
        BY <3>1, <3>2 DEF Cell!Keep
      <4>. QED  BY <3>1, <4>1 DEF Cell!Next
    <3>3. CASE ptr # Null /\ ptr' = ptr /\ refused' = refused \cup {val[t]} /\ heap' = heap
      <4>1. heap[ptr] # Uninit
        BY <3>3, OnceAssumption DEF IInv, Contents
      <4>2. Cell!Refuse(val[t])
        BY <3>1, <3>3, <4>1 DEF Cell!Refuse
      <4>. QED  BY <3>1, <4>2 DEF Cell!Next
    <3>. QED  BY <2>3, <3>2, <3>3 DEF Swap, Wins
  <2>4. ASSUME NEW t \in Threads, IntoInner(t) \/ Get(t) \/ LetGo(t)
        PROVE  content' = content /\ refused' = refused
    BY <2>4 DEF IntoInner, Get, LetGo
  <2>5. CASE DropCell
    BY <2>5 DEF DropCell
  <2>6. CASE UNCHANGED vars
    BY <2>6 DEF vars
  <2>. QED  BY <2>1, <2>2, <2>3, <2>4, <2>5, <2>6 DEF Next
<1>. QED  BY CellCorrect, <1>1, <1>2, PTL DEF Spec, IsOnce, Cell!Spec
=============================================================================
