------------------------------- MODULE Stream -------------------------------
(***************************************************************************)
(* The reliable stream of a connection, in one direction: several tasks of *)
(* one program send packets, one task of the other program reads them.     *)
(* A sender encodes its packet, takes the mutex of the stream and holds it *)
(* until write_all has handed over every byte, in as many pieces as the    *)
(* transport takes.  The reader asks for the 8 bytes of a header, then for *)
(* as many bytes as the header says, decodes those and awaits the handler  *)
(* of the packet before it asks for the next header; a handler may wait,   *)
(* and it may panic.  Either program may close the connection at any time, *)
(* in the middle of a frame too.                                           *)
(*                                                                         *)
(* The bytes are real bytes; what a packet looks like is a parameter, so   *)
(* the theorems hold of every format that round-trips (see RoundTrip).     *)
(***************************************************************************)
EXTENDS Naturals, Sequences

CONSTANTS
  Dirs,          \* the directions: "down" (server to client), "up"
  Senders,       \* tasks that may send at the same time
  Nobody,        \* no task
  Packets(_),    \* the packets of a direction
  Frame(_, _),   \* the bytes of a packet, header included
  Size(_, _),    \* the size a reader takes from a header
  Decode(_, _),  \* what a reader makes of a payload: [st, v, at]
  View(_, _),    \* a packet in the reader's own terms
  Pieces(_),     \* the parts of n outstanding bytes that may be handed over at once
  Limited,       \* directions whose first payload must not exceed SizeLimit
  SizeLimit,
  MaxSent        \* bound on the packets sent

ASSUME BoundAssumption == MaxSent \in Nat /\ SizeLimit \in Nat
ASSUME NobodyAssumption == Nobody \notin Senders

HeaderSize == 8

VARIABLES
  dir,        \* the direction that is modelled, fixed at the start
  holder,     \* the task that holds the mutex of the send stream
  left,       \* for each task, the bytes it has still to hand over
  bytes,      \* every byte handed over so far
  open,       \* the connection is not closed
  reader,     \* "head", "body", "handle", or how the reading ended
  pos,        \* bytes the reader has taken
  size,       \* the size in the last header read
  sent,       \* packets, in the order in which they got the mutex
  starts,     \* for each of them, the bytes in front of its frame
  delivered   \* packets handed to the packet handler

vars == <<dir, holder, left, bytes, open, reader, pos, size, sent, starts, delivered>>
sending == <<holder, left, bytes, sent, starts>>
reading == <<reader, pos, size, delivered>>

Init ==
  /\ dir \in Dirs
  /\ holder = Nobody
  /\ left = [s \in Senders |-> <<>>]
  /\ bytes = <<>>
  /\ open = TRUE
  /\ reader = "head"
  /\ pos = 0
  /\ size = 0
  /\ sent = <<>>
  /\ starts = <<>>
  /\ delivered = <<>>

-----------------------------------------------------------------------------
(* send_reliable: lock, write_all, unlock.                                 *)

\* Mutant: the frame is handed over without the mutex.
AcquireUnlocked(s, p) ==
  /\ left[s] = <<>>
  /\ open
  /\ Len(sent) < MaxSent
  /\ holder' = s
  /\ left' = [left EXCEPT ![s] = Frame(dir, p)]
  /\ sent' = Append(sent, p)
  /\ starts' = Append(starts, Len(bytes))
  /\ UNCHANGED <<dir, bytes, open, reading>>

\* Task s gets the mutex to send p.
Acquire(s, p) ==
  /\ holder = Nobody
  /\ left[s] = <<>>
  /\ open
  /\ Len(sent) < MaxSent
  /\ holder' = s
  /\ left' = [left EXCEPT ![s] = Frame(dir, p)]
  /\ sent' = Append(sent, p)
  /\ starts' = Append(starts, Len(bytes))
  /\ UNCHANGED <<dir, bytes, open, reading>>

\* Mutant: the mutex is free behind the first piece (a write for each).
HandOverPiecewise(s) ==
  /\ open
  /\ left[s] # <<>>
  /\ \E n \in {Len(left[s])} \cup (Pieces(Len(left[s])) \cap 1..Len(left[s])) :
       /\ bytes' = bytes \o SubSeq(left[s], 1, n)
       /\ left' = [left EXCEPT ![s] = SubSeq(left[s], n + 1, Len(left[s]))]
       /\ holder' = Nobody
  /\ UNCHANGED <<dir, open, sent, starts, reading>>

\* The transport takes another n bytes; behind the last one the mutex is free.
HandOver(s) ==
  /\ open
  /\ left[s] # <<>>
  /\ \E n \in {Len(left[s])} \cup (Pieces(Len(left[s])) \cap 1..Len(left[s])) :
       /\ bytes' = bytes \o SubSeq(left[s], 1, n)
       /\ left' = [left EXCEPT ![s] = SubSeq(left[s], n + 1, Len(left[s]))]
       /\ holder' = IF n = Len(left[s]) THEN Nobody ELSE holder
  /\ UNCHANGED <<dir, open, sent, starts, reading>>

\* write_all fails on a closed connection.
SendFails(s) ==
  /\ ~open
  /\ left[s] # <<>>
  /\ left' = [left EXCEPT ![s] = <<>>]
  /\ holder' = Nobody
  /\ UNCHANGED <<dir, bytes, open, sent, starts, reading>>

-----------------------------------------------------------------------------
(* The reader's loop.                                                      *)

Available == Len(bytes) - pos

ReadHeader ==
  /\ reader = "head"
  /\ Available >= HeaderSize
  /\ size' = Size(dir, SubSeq(bytes, pos + 1, pos + HeaderSize))
  /\ pos' = pos + HeaderSize
  /\ LET refused == dir \in Limited /\ delivered = <<>> /\ size' > SizeLimit
     IN /\ reader' = IF refused THEN "refused" ELSE "body"
        /\ open' = (open /\ ~refused)
  /\ UNCHANGED <<dir, sending, delivered>>

\* Mutant: the reader waits for one byte more than the header says.
ReadPayloadLate ==
  /\ reader = "body"
  /\ Available > size
  /\ pos' = pos + size
  /\ LET result == Decode(dir, SubSeq(bytes, pos + 1, pos + size))
     IN /\ reader' = IF result.st = "ok" THEN "handle" ELSE result.st
        /\ delivered' = IF result.st = "ok" THEN Append(delivered, result.v) ELSE delivered
        /\ open' = (open /\ result.st # "error")
  /\ UNCHANGED <<dir, sending, size>>

\* A packet is handed to its handler.  A payload that does not decode closes the
\* connection or, when the decoder panics, ends the task alone.  Bytes behind the
\* packet are not looked at.
ReadPayload ==
  /\ reader = "body"
  /\ Available >= size
  /\ pos' = pos + size
  /\ LET result == Decode(dir, SubSeq(bytes, pos + 1, pos + size))
     IN /\ reader' = IF result.st = "ok" THEN "handle" ELSE result.st
        /\ delivered' = IF result.st = "ok" THEN Append(delivered, result.v) ELSE delivered
        /\ open' = (open /\ result.st # "error")
  /\ UNCHANGED <<dir, sending, size>>

\* The reader has awaited the handler and goes on to the next header.
HandlerReturns ==
  /\ reader = "handle"
  /\ reader' = "head"
  /\ UNCHANGED <<dir, sending, open, pos, size, delivered>>

\* An unwrap or a todo!() in the handler takes the reader's task with it; nothing
\* closes the connection.
HandlerPanics ==
  /\ reader = "handle"
  /\ reader' = "died"
  /\ UNCHANGED <<dir, sending, open, pos, size, delivered>>

\* The read of a closed connection fails; what has arrived may be read before.
ReadFails ==
  /\ ~open
  /\ reader \in {"head", "body"}
  /\ reader' = "ended"
  /\ UNCHANGED <<dir, sending, open, pos, size, delivered>>

\* Either program, or the transport's timeout, closes the connection.
Lose ==
  /\ open
  /\ open' = FALSE
  /\ UNCHANGED <<dir, sending, reading>>

Next ==
  \/ \E s \in Senders, p \in Packets(dir) : Acquire(s, p)
  \/ \E s \in Senders : HandOver(s)
  \/ \E s \in Senders : SendFails(s)
  \/ ReadHeader
  \/ ReadPayload
  \/ HandlerReturns
  \/ HandlerPanics
  \/ ReadFails
  \/ Lose

\* The transport takes bytes, and the reader's task runs when it has some.  Nothing
\* is assumed of the handlers.
Fairness ==
  /\ \A s \in Senders : WF_vars(HandOver(s))
  /\ WF_vars(ReadHeader)
  /\ WF_vars(ReadPayload)

Spec == Init /\ [][Next]_vars
LiveSpec == Spec /\ Fairness

-----------------------------------------------------------------------------
(* Properties.                                                             *)

Byte == 0..255
Views == UNION {{View(d, p) : p \in Packets(d)} : d \in Dirs}

\* The types of the variables.
TypeOK ==
  /\ dir \in Dirs
  /\ holder \in Senders \cup {Nobody}
  /\ left \in [Senders -> Seq(Byte)]
  /\ bytes \in Seq(Byte)
  /\ open \in BOOLEAN
  /\ reader \in {"head", "body", "handle", "ended", "refused", "died"}
  /\ pos \in 0..Len(bytes)
  /\ size \in Nat
  /\ sent \in Seq(Packets(dir))
  /\ starts \in Seq(Nat)
  /\ delivered \in Seq(Views)

\* What packet i of those sent takes on the stream.
Length(i) == Len(Frame(dir, sent[i]))

\* Each program reads what the other wrote: the header says how long the
\* payload is, and the payload decodes, to its last byte, to the packet it was
\* made of (the encode and RWBytes implementations of the two packet.rs).
RoundTrip ==
  \A d \in Dirs : \A p \in Packets(d) :
    LET f == Frame(d, p)
        payload == SubSeq(f, HeaderSize + 1, Len(f))
        result == Decode(d, payload)
    IN /\ f \in Seq(Byte)
       /\ Len(f) >= HeaderSize
       /\ Size(d, SubSeq(f, 1, HeaderSize)) = Len(f) - HeaderSize
       /\ result.st = "ok" /\ result.v = View(d, p)

\* The packet handlers see what was sent, in the order in which it was sent,
\* with nothing lost in between (server network.rs:148, client server.rs:115).
Faithful ==
  /\ Len(delivered) <= Len(sent)
  /\ \A i \in DOMAIN delivered : delivered[i] = View(dir, sent[i])

\* The reader is between two frames, or inside the one it is to deliver next:
\* a close in the middle of a frame never shifts it.
Aligned ==
  LET n == Len(delivered)
      front == IF n < Len(sent) THEN starts[n + 1] ELSE Len(bytes)
  IN /\ reader \in {"head", "handle"} => pos = front
     /\ reader = "body" => n < Len(sent) /\ pos = front + HeaderSize
                           /\ size = Length(n + 1) - HeaderSize

\* The frames lie one behind the other in the bytes, and what is missing of the
\* last one is what the task holding the mutex has left.
End == IF sent = <<>> THEN 0 ELSE starts[Len(sent)] + Length(Len(sent))

Ordered ==
  /\ Len(starts) = Len(sent)
  /\ sent # <<>> => starts[1] = 0 /\ starts[Len(sent)] <= Len(bytes)
  /\ \A i \in 1..(Len(sent) - 1) : starts[i + 1] = starts[i] + Length(i)
  /\ \A i, j \in DOMAIN sent : i < j => starts[i] + Length(i) <= starts[j]
  /\ Len(bytes) <= End

Intact ==
  \A i \in DOMAIN sent : \A j \in 1..Length(i) :
    starts[i] + j <= Len(bytes) => bytes[starts[i] + j] = Frame(dir, sent[i])[j]

Exclusive ==
  /\ \A s \in Senders : s # holder => left[s] = <<>>
  /\ holder = Nobody /\ open => Len(bytes) = End
  /\ holder # Nobody =>
       /\ sent # <<>>
       /\ Len(bytes) < End
       /\ left[holder] = SubSeq(Frame(dir, sent[Len(sent)]),
                                Len(bytes) - starts[Len(sent)] + 1, Length(Len(sent)))

\* A packet is delivered only when all of its frame has arrived.
Complete == Len(delivered) = Len(sent) => Len(bytes) = End

StreamInv == TypeOK /\ Ordered /\ Intact /\ Exclusive /\ Complete /\ Faithful /\ Aligned

\* The stream is a queue of packets.
Queue == INSTANCE Fifo WITH Item <- Views,
                            put <- [i \in DOMAIN sent |-> View(dir, sent[i])],
                            got <- delivered
IsQueue == Queue!Spec

\* What was sent reaches the handlers unless the connection is closed, as long as
\* every handler returns: one that panics, or waits for ever, keeps all that is
\* behind its packet from being read (server network.rs:175, client server.rs:134).
EventuallyRead ==
  []<>(reader # "handle") =>
    \A n \in 1..MaxSent :
      Len(sent) >= n ~> (Len(delivered) >= n \/ ~open \/ reader = "died")
=============================================================================
