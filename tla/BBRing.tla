------------------------------- MODULE BBRing -------------------------------
(***************************************************************************)
(* The ring of bytes between the client's voice receiver and its playback: *)
(* any number of threads push packets, one thread pops them.  A push adds  *)
(* its length and one ticket to a packed word, writes where the word said, *)
(* and publishes when all earlier tickets are published.  A pop hands out  *)
(* a guard over the bytes in the buffer; dropping the guard frees them.    *)
(* Each action is one access to shared memory.                             *)
(***************************************************************************)
EXTENDS Integers, Sequences, SequencesExt

CONSTANTS
  Pushers,   \* the threads that push
  Items,     \* the payloads, sequences of bytes
  Cap,       \* the size of the buffer
  HeadMod,   \* 2^32: what the head field of a marker can hold
  LenMod,    \* 2^16: the same of the two counters
  Longest,   \* the longest record, header included
  MaxPush    \* bound on the records of one run

Byte == 0..255

(***************************************************************************)
(* A record is a length of four bytes and the payload.                     *)
(***************************************************************************)
HeaderSize == 4

Header(n) == <<n % 256, n \div 256, 0, 0>>
Record(i) == Header(Len(i)) \o i
Size(i) == HeaderSize + Len(i)

ASSUME ItemAssumption ==
  /\ Items \subseteq Seq(Byte)
  /\ \A i \in Items : Len(i) < 256 * 256 /\ Size(i) <= Longest

ASSUME BoundAssumption ==
  /\ {Cap, HeadMod, LenMod, Longest, MaxPush} \subseteq Nat \ {0}
  /\ MaxPush + 1 < LenMod
  /\ MaxPush * Longest < HeadMod

VARIABLES
  marker,   \* head, len and finished_len, in one word
  rem,      \* the same of the removals: remove_marker
  mem,      \* the buffer
  pc,       \* where each push stands
  own,      \* the marker a push has read with its fetch_add
  data,     \* what it pushes
  popper,   \* where the pop stands
  mine,     \* the remove_marker it has read
  held,     \* a guard is alive
  guard,    \* where its bytes are
  log,      \* history: the payloads with a ticket, in ticket order
  place,    \* history: the head each of them got
  taken,    \* history: what was popped
  torn,     \* history: a refused push gave back a ticket that was not the last
  outside   \* a record was written behind the end of the buffer

pushing == <<pc, own, data>>
popping == <<popper, mine, held, guard, taken>>
vars == <<marker, rem, mem, pushing, popping, log, place, torn, outside>>

(***************************************************************************)
(* fetch_add on a word of three fields: what a field cannot hold goes to   *)
(* its neighbour.  fetch_sub adds the negative numbers.                    *)
(***************************************************************************)
Add(m, head, len, fin) ==
  LET h == m.head + head
      l == m.len + len + h \div HeadMod
      f == m.fin + fin + l \div LenMod
  IN [head |-> h % HeadMod, len |-> l % LenMod, fin |-> f % LenMod]

Zero == [head |-> 0, len |-> 0, fin |-> 0]

Init ==
  /\ marker = Zero
  /\ rem = Zero
  /\ mem = [a \in 0..(Cap - 1) |-> 0]
  /\ pc = [p \in Pushers |-> "idle"]
  /\ own = [p \in Pushers |-> Zero]
  /\ data = [p \in Pushers |-> <<>>]
  /\ popper = "idle"
  /\ mine = Zero
  /\ held = FALSE
  /\ guard = [at |-> 0, len |-> 0]
  /\ log = <<>>
  /\ place = <<>>
  /\ taken = <<>>
  /\ torn = FALSE
  /\ outside = FALSE

-----------------------------------------------------------------------------
(* push                                                                    *)

\* push returns, and its locals are gone.
Return(p) ==
  /\ pc' = [pc EXCEPT ![p] = "idle"]
  /\ own' = [own EXCEPT ![p] = Zero]
  /\ data' = [data EXCEPT ![p] = <<>>]

\* Mutant: room for the payload only.
ReservePayload(p, i) ==
  /\ pc[p] = "idle"
  /\ Len(log) < MaxPush
  /\ own' = [own EXCEPT ![p] = marker]
  /\ data' = [data EXCEPT ![p] = i]
  /\ marker' = Add(marker, Len(i), 1, 0)
  /\ log' = Append(log, i)
  /\ place' = Append(place, marker.head)
  /\ pc' = [pc EXCEPT ![p] = "check"]
  /\ UNCHANGED <<rem, mem, popping, torn, outside>>

\* fetch_add: the length, and a ticket.
Reserve(p, i) ==
  /\ pc[p] = "idle"
  /\ Len(log) < MaxPush
  /\ own' = [own EXCEPT ![p] = marker]
  /\ data' = [data EXCEPT ![p] = i]
  /\ marker' = Add(marker, Size(i), 1, 0)
  /\ log' = Append(log, i)
  /\ place' = Append(place, marker.head)
  /\ pc' = [pc EXCEPT ![p] = "check"]
  /\ UNCHANGED <<rem, mem, popping, torn, outside>>

\* The subtraction is one of usize: below zero it wraps, and the push is refused.
Check(p) ==
  /\ pc[p] = "check"
  /\ LET used == own[p].head - rem.head
         full == used < 0 \/ used + Size(data[p]) >= Cap
     IN pc' = [pc EXCEPT ![p] = IF full THEN "full" ELSE "write"]
  /\ UNCHANGED <<marker, rem, mem, own, data, popping, log, place, torn, outside>>

\* Mutant: the header is not given back.
GiveBackPayload(p) ==
  /\ pc[p] = "full"
  /\ marker' = Add(marker, -Len(data[p]), -1, 0)
  /\ log' = Front(log)
  /\ place' = Front(place)
  /\ torn' = (torn \/ marker.len # own[p].len + 1)
  /\ Return(p)
  /\ UNCHANGED <<rem, mem, popping, outside>>

GiveBack(p) ==
  /\ pc[p] = "full"
  /\ marker' = Add(marker, -Size(data[p]), -1, 0)
  /\ log' = Front(log)
  /\ place' = Front(place)
  /\ torn' = (torn \/ marker.len # own[p].len + 1)
  /\ Return(p)
  /\ UNCHANGED <<rem, mem, popping, outside>>

\* Mutant: written from the last byte of the record in front on.
WriteRecordEarly(p) ==
  /\ pc[p] = "write"
  /\ LET at == IF own[p].head = 0 THEN 0 ELSE own[p].head - 1
         here == at..(at + Size(data[p]) - 1)
     IN mem' = [a \in DOMAIN mem |->
                  IF a \in here THEN Record(data[p])[a - at + 1] ELSE mem[a]]
  /\ pc' = [pc EXCEPT ![p] = "wait"]
  /\ UNCHANGED <<marker, rem, own, data, popping, log, place, torn, outside>>

\* Header and payload go to marker.head(), which is not taken modulo the size
\* of the buffer: behind its end the behaviour is undefined, and not followed.
WriteRecord(p) ==
  /\ pc[p] = "write"
  /\ LET at == own[p].head
         here == at..(at + Size(data[p]) - 1)
     IN IF at + Size(data[p]) <= Cap
        THEN /\ mem' = [a \in DOMAIN mem |->
                          IF a \in here THEN Record(data[p])[a - at + 1] ELSE mem[a]]
             /\ UNCHANGED outside
        ELSE outside' = TRUE /\ UNCHANGED mem
  /\ pc' = [pc EXCEPT ![p] = "wait"]
  /\ UNCHANGED <<marker, rem, own, data, popping, log, place, torn>>

\* Mutant: the own record is waited for as well.
SeeTurnLate(p) ==
  /\ pc[p] = "wait"
  /\ marker.fin = own[p].len + 1
  /\ pc' = [pc EXCEPT ![p] = "publish"]
  /\ UNCHANGED <<marker, rem, mem, own, data, popping, log, place, torn, outside>>

\* The loop ends when every earlier ticket is published.
SeeTurn(p) ==
  /\ pc[p] = "wait"
  /\ marker.fin = own[p].len
  /\ pc' = [pc EXCEPT ![p] = "publish"]
  /\ UNCHANGED <<marker, rem, mem, own, data, popping, log, place, torn, outside>>

Publish(p) ==
  /\ pc[p] = "publish"
  /\ marker' = Add(marker, 0, 0, 1)
  /\ Return(p)
  /\ UNCHANGED <<rem, mem, popping, log, place, torn, outside>>

-----------------------------------------------------------------------------
(* pop_front and the guard                                                 *)

PopReserve ==
  /\ popper = "idle"
  /\ mine' = rem
  /\ rem' = Add(rem, 0, 1, 0)
  /\ popper' = "check"
  /\ UNCHANGED <<marker, mem, pushing, held, guard, log, place, taken, torn, outside>>

\* Mutant: one more than there is.
PopCheckOneMore ==
  /\ popper = "check"
  /\ popper' = IF mine.len > marker.fin THEN "none"
               ELSE IF mine.fin # mine.len THEN "wait" ELSE "read"
  /\ UNCHANGED <<marker, rem, mem, pushing, mine, held, guard, log, place, taken, torn, outside>>

PopCheck ==
  /\ popper = "check"
  /\ popper' = IF mine.len >= marker.fin THEN "none"
               ELSE IF mine.fin # mine.len THEN "wait" ELSE "read"
  /\ UNCHANGED <<marker, rem, mem, pushing, mine, held, guard, log, place, taken, torn, outside>>

PopNone ==
  /\ popper = "none"
  /\ rem' = Add(rem, 0, -1, 0)
  /\ popper' = "idle"
  /\ mine' = Zero
  /\ UNCHANGED <<marker, mem, pushing, held, guard, log, place, taken, torn, outside>>

\* The guard of the pop before is still alive, perhaps in another thread.
PopWait ==
  /\ popper = "wait"
  /\ mine.len = rem.fin
  /\ mine' = rem
  /\ popper' = "read"
  /\ UNCHANGED <<marker, rem, mem, pushing, held, guard, log, place, taken, torn, outside>>

\* The bytes a guard gives access to.
Bytes(g) == [k \in 1..g.len |-> mem[g.at + k - 1]]

PopRead ==
  /\ popper = "read"
  /\ LET at == mine.head % Cap
     IN guard' = [at |-> at + HeaderSize, len |-> mem[at] + 256 * mem[at + 1]]
  /\ held' = TRUE
  /\ taken' = Append(taken, Bytes(guard'))
  /\ popper' = "idle"
  /\ mine' = Zero
  /\ UNCHANGED <<marker, rem, mem, pushing, log, place, torn, outside>>

DropGuard ==
  /\ held
  /\ rem' = Add(rem, guard.len + HeaderSize, 0, 1)
  /\ held' = FALSE
  /\ guard' = [at |-> 0, len |-> 0]
  /\ UNCHANGED <<marker, mem, pushing, popper, mine, log, place, taken, torn, outside>>

PushStep(p) == Check(p) \/ GiveBack(p) \/ WriteRecord(p) \/ SeeTurn(p) \/ Publish(p)
PopStep == PopCheck \/ PopNone \/ PopWait \/ PopRead

Next ==
  /\ ~outside
  /\ \/ \E p \in Pushers : (\E i \in Items : Reserve(p, i)) \/ PushStep(p)
     \/ PopReserve
     \/ PopStep
     \/ DropGuard

\* Threads run, and whoever holds a guard drops it.
Fairness ==
  /\ \A p \in Pushers : WF_vars(~outside /\ PushStep(p))
  /\ WF_vars(~outside /\ PopStep)
  /\ WF_vars(~outside /\ DropGuard)

Spec == Init /\ [][Next]_vars
LiveSpec == Spec /\ Fairness

-----------------------------------------------------------------------------
(* Properties.                                                             *)

Markers == [head : 0..(HeadMod - 1), len : 0..(LenMod - 1), fin : 0..(LenMod - 1)]

\* The types of the variables.
TypeOK ==
  /\ marker \in Markers /\ rem \in Markers /\ mine \in Markers
  /\ mem \in [0..(Cap - 1) -> Byte]
  /\ pc \in [Pushers -> {"idle", "check", "full", "write", "wait", "publish"}]
  /\ own \in [Pushers -> Markers]
  /\ data \in [Pushers -> Items \cup {<<>>}]
  /\ popper \in {"idle", "check", "none", "wait", "read"}
  /\ held \in BOOLEAN
  /\ guard \in [at : Nat, len : Nat]
  /\ log \in Seq(Items)
  /\ place \in Seq(Nat)
  /\ taken \in Seq(Items)
  /\ torn \in BOOLEAN /\ outside \in BOOLEAN

\* No refused push has been overtaken and no record lies behind the buffer's end.
Sound == ~torn /\ ~outside

Busy(p) == pc[p] # "idle"
End == IF log = <<>> THEN 0 ELSE place[Len(log)] + Size(log[Len(log)])

\* No counter runs into its neighbour in the packed word (byte_buf_ring.rs:173):
\* the fields still say how many records there are and where they end.
NoCarry == Sound => marker.len = Len(log) /\ marker.head = End

\* Two pushes under way never have the same ticket, nor bytes in common.
PushesApart ==
  Sound =>
    \A p, q \in Pushers :
      p # q /\ Busy(p) /\ Busy(q) =>
        /\ own[p].len # own[q].len
        /\ own[p].len < own[q].len => own[p].head + Size(data[p]) <= own[q].head

\* A published record is in the buffer as it was pushed, until the end.
Stored(i) ==
  \A k \in 1..Size(log[i]) : mem[place[i] + k - 1] = Record(log[i])[k]
PublishedStored == Sound => marker.fin <= Len(log) /\ \A i \in 1..marker.fin : Stored(i)

\* Whoever holds a guard sees the packet that was popped, whatever is pushed meanwhile.
GuardIntact == Sound /\ held => taken # <<>> /\ Bytes(guard) = taken[Len(taken)]

\* As long as it is sound, the ring is a queue: packets come out in the order of
\* their tickets, each once and as it was pushed.
Queue == INSTANCE Fifo WITH Item <- Items,
                            put <- [i \in 1..marker.fin |-> log[i]],
                            got <- taken
IsQueue == Queue!Init /\ [][Sound' => Queue!Next \/ UNCHANGED Queue!vars]_vars

\* An accepted push returns, and so does a pop, with or without a packet, as long as
\* the ring is sound.
CallsReturn ==
  /\ \A p \in Pushers : pc[p] = "wait" ~> (pc[p] = "idle" \/ ~Sound)
  /\ popper # "idle" ~> (popper = "idle" \/ outside)
=============================================================================
