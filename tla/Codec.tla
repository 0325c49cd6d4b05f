------------------------------- MODULE Codec -------------------------------
(***************************************************************************)
(* The byte format both programs of the repository speak: the trait        *)
(* `RWBytes`, whose `write` appends a value to a buffer and whose `read`   *)
(* takes one from the front of it.  An implementation of the trait is a    *)
(* FORMAT here: the set of the values of its type, the function that       *)
(* writes them and the function that reads them from a place in a buffer.  *)
(* Every implementation is composed of the few shapes below.  The two      *)
(* programs have a copy of the format each: WireServer and WireClient      *)
(* compose the shapes as each copy does.                                   *)
(***************************************************************************)
EXTENDS Integers, Sequences, SequencesExt

\* The bytes of a number that may be other than zero.  With 32 of them, the
\* widest integer, nothing is left out; a run has fewer, because TLC's own
\* integers have 32 bits, and a number that does not fit is read as Huge.
CONSTANT Places

ASSUME PlacesAssumption == Places \in Nat \ {0}

Octet == 0..255

Pow256[n \in 0..Places] == IF n = 0 THEN 1 ELSE 256 * Pow256[n - 1]
Width(w) == IF w < Places THEN w ELSE Places
Huge == Pow256[Places]

(***************************************************************************)
(* What a read gives: a value and the position behind it, an error, or a   *)
(* panic (the accessors of `bytes` and slicing panic when the buffer is    *)
(* too short, and so does todo!()).                                        *)
(***************************************************************************)
Ok(v, at) == [st |-> "ok", v |-> v, at |-> at]
Error == [st |-> "error"]
Panic == [st |-> "panic"]

\* The result r, passed to F when there is a value in it.
Then(r, F(_)) == IF r.st = "ok" THEN F(r) ELSE r

Slice(b, at, n) == IF at + n > Len(b) THEN Panic ELSE Ok(SubSeq(b, at + 1, at + n), at + n)

\* An implementation: R reads from buffer b behind its first `at` bytes.
Format(vals, W(_), R(_, _)) ==
  [vals |-> vals,
   write |-> [v \in vals |-> W(v)],
   read |-> [b \in Seq(Octet) |-> [at \in Nat |-> R(b, at)]]]

(***************************************************************************)
(* Numbers: bytes::BufMut::put_uN_le and bytes::Buf::get_uN_le.            *)
(***************************************************************************)
LittleEndian(w, n) ==
  LET rest[i \in 0..w] == IF i = 0 THEN n ELSE rest[i - 1] \div 256
  IN [i \in 1..w |-> rest[i - 1] % 256]

FromLittleEndian(b) ==
  LET k == Width(Len(b))
      top[i \in 0..k] == IF i = 0 THEN 0 ELSE 256 * top[i - 1] + b[k + 1 - i]
  IN IF \E i \in DOMAIN b : i > Places /\ b[i] # 0 THEN Huge ELSE top[k]

Uint(w) ==
  LET Num(r) == Ok(FromLittleEndian(r.v), r.at)
  IN Format({n \in Nat : n < Pow256[Width(w)]},
            LAMBDA n : LittleEndian(w, n),
            LAMBDA b, at : Then(Slice(b, at, w), Num))

\* Two's complement: a negative number has the inverted bytes of -n - 1.
Inverted(b) == [i \in DOMAIN b |-> 255 - b[i]]

Sint(w) ==
  LET half == 128 * Pow256[Width(w) - 1]
      Num(r) == Ok(IF r.v[w] > 127 THEN -1 - FromLittleEndian(Inverted(r.v))
                                   ELSE FromLittleEndian(r.v), r.at)
  IN Format({n \in Int : -half <= n /\ n < half},
            LAMBDA n : IF n < 0 THEN Inverted(LittleEndian(w, -n - 1)) ELSE LittleEndian(w, n),
            LAMBDA b, at : Then(Slice(b, at, w), Num))

Flag ==
  LET Bit(r) == IF r.v[1] > 1 THEN Error ELSE Ok(r.v[1] = 1, r.at)
  IN Format(BOOLEAN,
            LAMBDA v : IF v THEN <<1>> ELSE <<0>>,
            LAMBDA b, at : Then(Slice(b, at, 1), Bit))

(***************************************************************************)
(* Text and lists: a length of 64 bits, then as much content.              *)
(***************************************************************************)
Usize == Uint(8)

\* A text is taken as its octets.  What a program writes is valid UTF-8, so that
\* neither the error of Cow<str> nor the replacements of String (protocol.rs:336 and
\* 254 of the server) come up when it is read.
Text ==
  LET Chars(b, r) == Slice(b, r.at, r.v)
  IN Format({s \in Seq(Octet) : Len(s) \in Usize.vals},
            LAMBDA s : Usize.write[Len(s)] \o s,
            LAMBDA b, at : Then(Usize.read[b][at], LAMBDA r : Chars(b, r)))

\* What n reads give, one behind the other.
ReadAll(n, reads, b, at) ==
  LET upto[i \in 0..n] ==
        IF i = 0 THEN Ok(<<>>, at)
        ELSE Then(upto[i - 1], LAMBDA r :
               Then(reads[i][b][r.at], LAMBDA x : Ok(Append(r.v, x.v), x.at)))
  IN upto[n]

\* More elements than the buffer has bytes end in a panic: with_capacity does not
\* get the memory, or the buffer ends.  (That an element in front of its end may
\* not decode, which is an error, is left out.)
Many(f) ==
  LET Elems(b, r) == IF r.v > Len(b) THEN Panic
                     ELSE ReadAll(r.v, [i \in 1..r.v |-> f.read], b, r.at)
  IN Format({s \in Seq(f.vals) : Len(s) \in Usize.vals},
            LAMBDA s : Usize.write[Len(s)] \o FlattenSeq([i \in 1..Len(s) |-> f.write[s[i]]]),
            LAMBDA b, at : Then(Usize.read[b][at], LAMBDA r : Elems(b, r)))

\* A map is written and read as a list of its values: of two with the same key
\* the one read last stays.
Latest(key, list) ==
  {list[i] : i \in {j \in 1..Len(list) :
                      \A l \in (j + 1)..Len(list) : list[l][key] # list[j][key]}}

Keyed(key, f) ==
  Format(SUBSET f.vals,
         LAMBDA s : Many(f).write[SetToSeq(s)],
         LAMBDA b, at : Then(Many(f).read[b][at], LAMBDA r : Ok(Latest(key, r.v), r.at)))

\* An option is the empty tuple or a tuple of one value.
Maybe(f) ==
  LET Some(b, r) == IF ~r.v THEN Ok(<<>>, r.at)
                    ELSE Then(f.read[b][r.at], LAMBDA x : Ok(<<x.v>>, x.at))
  IN Format({<<>>} \cup [{1} -> f.vals],
            LAMBDA v : IF v = <<>> THEN <<0>> ELSE <<1>> \o f.write[v[1]],
            LAMBDA b, at : Then(Flag.read[b][at], LAMBDA r : Some(b, r)))

(***************************************************************************)
(* Structs: the type, and the fields in the order of the implementation,   *)
(* each a name and a format.                                               *)
(***************************************************************************)
Struct(type, fields) ==
  LET n == Len(fields)
      Place(name) == CHOOSE i \in 1..n : fields[i][1] = name
      Fields(r) == Ok([name \in {fields[i][1] : i \in 1..n} |-> r.v[Place(name)]], r.at)
  IN Format(type,
            LAMBDA v : FlattenSeq([i \in 1..n |-> fields[i][2].write[v[fields[i][1]]]]),
            LAMBDA b, at : Then(ReadAll(n, [i \in 1..n |-> fields[i][2].read], b, at), Fields))

Unit == Struct({<<>>}, <<>>)

(***************************************************************************)
(* Enums: the number of the variant in one byte, then what the variant     *)
(* holds.  A variant is a name and a format, a value a name and a value.   *)
(***************************************************************************)
Val(variant, v) == <<variant, v>>

Enum(variants) ==
  LET n == Len(variants)
      Vals[i \in 0..n] ==
        IF i = 0 THEN {} ELSE Vals[i - 1] \cup ({variants[i][1]} \X variants[i][2].vals)
      Index(v) == CHOOSE i \in 1..n : variants[i][1] = v[1]
      Variant(b, r) ==
        LET i == r.v[1] + 1
        IN IF i > n THEN Error
           ELSE Then(variants[i][2].read[b][r.at], LAMBDA x : Ok(Val(variants[i][1], x.v), x.at))
  IN Format(Vals[n],
            LAMBDA v : <<Index(v) - 1>> \o variants[Index(v)][2].write[v[2]],
            LAMBDA b, at : Then(Slice(b, at, 1), LAMBDA r : Variant(b, r)))

\* An implementation that says todo!().
Todo == Format({}, LAMBDA v : <<>>, LAMBDA b, at : Panic)

\* An implementation whose read and write do not follow the same shape.
Split(r, w) == [vals |-> w.vals, write |-> w.write, read |-> r.read]
=============================================================================
