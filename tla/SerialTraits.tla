---------------------------- MODULE SerialTraits ----------------------------
(* The wire formats of serial_traits.hpp and a stream that one side writes  *)
(* with serialize and the other reads with deserialize, through a generator *)
(* (g(n) hands out room for n bytes) or through an iterator. A byte has     *)
(* ByteBits bits, 8 in the code; the integers have 1, 2, 4 or 8 bytes, int  *)
(* has 4, a length group one bit less than a byte.                          *)
EXTENDS Integers, Sequences, SequencesExt, FiniteSetsExt, Bitwise

CONSTANTS
    ByteBits,
    SignedChars,   \* the bytes are read as char, which is signed
    Messages,      \* what is sent: a sequence of [t |-> type, v |-> value, by |-> readers]
    MaxInFlight    \* bound on the messages in the stream

ASSUME AtLeastTwoBits == ByteBits \in Nat /\ ByteBits >= 2

VARIABLES buffer, inflight, got
vars == <<buffer, inflight, got>>

Byte == 2 ^ ByteBits
Group == 2 ^ (ByteBits - 1)
Word(n) == Byte ^ n
Signed(x, n) == IF 2 * x >= Word(n) THEN x - Word(n) ELSE x

\* The powers of Group up to the k-th: where the encodings of k groups end.
RECURSIVE Groups(_)
Groups(k) == IF k = 0 THEN 0 ELSE Group ^ k + Groups(k - 1)
MaxGroups == (8 * ByteBits - 1) \div (ByteBits - 1)

-----------------------------------------------------------------------------
(* Sizes. *)
RECURSIVE has_fixed_serial_size(_)
has_fixed_serial_size(t) ==
    \/ t.k \in {"bool", "int"}
    \/ t.k = "tuple" /\ \A i \in DOMAIN t.of : has_fixed_serial_size(t.of[i])

\* How many types the specialisation chosen for a list takes off its front:
\* a byte's worth of bools, or one type.
Run(ts) == Max({1} \cup {n \in 1 .. ByteBits : n <= Len(ts) /\ \A i \in 1 .. n : ts[i].k = "bool"})
Rest(s, r) == SubSeq(s, r + 1, Len(s))

uintany_size(v) == Min({k \in 1 .. MaxGroups : v < Groups(k)} \cup {MaxGroups + 1})

RECURSIVE fixed_serial_size(_), tuple_fixed_size(_)
tuple_fixed_size(ts) ==
    LET r == Run(ts)
    IN  IF ts = <<>> THEN 0
        ELSE (IF r > 1 THEN 1 ELSE fixed_serial_size(ts[1])) + tuple_fixed_size(Rest(ts, r))

fixed_serial_size(t) ==
    CASE t.k = "bool" -> 1 [] t.k = "int" -> t.n [] t.k = "tuple" -> tuple_fixed_size(t.of)

RECURSIVE serial_size(_, _), tuple_size(_, _)
tuple_size(ts, vs) ==
    LET r == Run(ts)
    IN  IF ts = <<>> THEN 0
        ELSE (IF r > 1 THEN 1 ELSE serial_size(ts[1], vs[1])) + tuple_size(Rest(ts, r), Rest(vs, r))

sequence_size(t, vs) ==
    IF has_fixed_serial_size(t) THEN uintany_size(Len(vs)) + fixed_serial_size(t) * Len(vs)
    ELSE FoldLeft(LAMBDA n, v : n + serial_size(t, v), uintany_size(Len(vs)), vs)

serial_size(t, v) ==
    CASE t.k \in {"bool", "int"} -> fixed_serial_size(t)
      [] t.k = "uintany" -> uintany_size(v)
      [] t.k = "string" -> uintany_size(Len(v)) + Len(v)
      [] t.k = "tuple" -> tuple_size(t.of, v)
      [] t.k \in {"vector", "map"} -> sequence_size(t.of, v)

-----------------------------------------------------------------------------
(* Writing: a generator and an iterator write the same bytes. *)
write_int(n, v) == [i \in 1 .. n |-> ((v % Word(n)) \div Word(i - 1)) % Byte]

\* The groups of v, the low one first; every group but the last is marked.
write_uintany(v) ==
    LET n == CHOOSE k \in 1 .. MaxGroups : Groups(k - 1) <= v /\ v < Groups(k)
        base == v - Groups(n - 1)
    IN  [i \in 1 .. n |-> ((base \div Group ^ (i - 1)) % Group) + (IF i < n THEN Group ELSE 0)]

tuple_get_bool_sequence(vs) ==
    FoldLeftDomain(LAMBDA x, i : x + (IF vs[i] THEN 2 ^ (i - 1) ELSE 0), 0, vs)

serialize_bools(vs) == <<tuple_get_bool_sequence(vs)>>

RECURSIVE serialize(_, _), serialize_tuple(_, _)
serialize_tuple(ts, vs) ==
    LET r == Run(ts)
    IN  IF ts = <<>> THEN <<>>
        ELSE (IF r > 1 THEN serialize_bools(SubSeq(vs, 1, r)) ELSE serialize(ts[1], vs[1]))
             \o serialize_tuple(Rest(ts, r), Rest(vs, r))

serialize_sequence(t, vs) ==
    FoldLeft(LAMBDA bs, v : bs \o serialize(t, v), write_uintany(Len(vs)), vs)

serialize(t, v) ==
    CASE t.k = "bool" -> <<IF v THEN 1 ELSE 0>>
      [] t.k = "int" -> write_int(t.n, v)
      [] t.k = "uintany" -> write_uintany(v)
      [] t.k = "string" -> write_uintany(Len(v)) \o v
      [] t.k = "tuple" -> serialize_tuple(t.of, v)
      [] t.k \in {"vector", "map"} -> serialize_sequence(t.of, v)

-----------------------------------------------------------------------------
(* Reading, from the byte after position at: the value and the position     *)
(* behind it. What lies behind the end is read as zero and reported by the  *)
(* position.                                                                *)
ByteAt(bs, i) == IF i <= Len(bs) THEN bs[i] ELSE 0
Widen(c) == IF SignedChars THEN Signed(c, 1) ELSE c

read_intShort(via, t, bs, at) == [v |-> ByteAt(bs, at + 1), at |-> at + t.n - 1]

\* The bytes are widened to int, or to 64 bits where the code casts them,
\* shifted to their place and or-ed into the value.
read_int(via, t, bs, at) ==
    LET Wide(i) == i >= 4 \/ (t.n = 8 /\ via = "generator" /\ ~t.signed)
        Term(i) == LET x == Widen(ByteAt(bs, at + i + 1)) * Word(i)
                   IN  (IF Wide(i) THEN x ELSE Signed(x % Word(4), 4)) % Word(t.n)
        val == FoldLeft(LAMBDA x, i : x | Term(i - 1), 0, [i \in 1 .. t.n |-> i])
    IN  [v |-> IF t.signed THEN Signed(val, t.n) ELSE val, at |-> at + t.n]

\* The iterator takes the low group first, as it was written; the generator
\* shifts what it has for every group that follows.
read_uintany(via, bs, at) ==
    LET n == Min({k \in 1 .. Len(bs) + 1 : ByteAt(bs, at + k) < Group})
        Place(i) == IF via = "iterator" THEN i - 1 ELSE n - i
    IN  [v |-> FoldLeft(LAMBDA x, i : x + (ByteAt(bs, at + i) % Group) * Group ^ Place(i),
                        Groups(n - 1), [i \in 1 .. n |-> i]),
         at |-> at + n]

\* The string's iterator calls serialize where it means deserialize: it puts a
\* zero into the input and takes the length for zero.
read_string(via, bs, at) ==
    IF via = "iterator" THEN [v |-> <<>>, at |-> at + 1]
    ELSE LET size == read_uintany(via, bs, at)
         IN  [v |-> [i \in 1 .. size.v |-> ByteAt(bs, size.at + i)], at |-> size.at + size.v]

tuple_set_bool_sequenceShifted(r, byte) == [i \in 1 .. r |-> (byte \div 2 ^ i) % 2 = 1]
tuple_set_bool_sequence(r, byte) == [i \in 1 .. r |-> (byte \div 2 ^ (i - 1)) % 2 = 1]

read_bools(r, bs, at) == [v |-> tuple_set_bool_sequence(r, ByteAt(bs, at + 1)), at |-> at + 1]

RECURSIVE deserialize(_, _, _, _), read_tuple(_, _, _, _)
read_tuple(via, ts, bs, at) ==
    LET r == Run(ts)
        one == deserialize(via, ts[1], bs, at)
        front == IF r > 1 THEN read_bools(r, bs, at) ELSE [v |-> <<one.v>>, at |-> one.at]
        others == read_tuple(via, Rest(ts, r), bs, front.at)
    IN  IF ts = <<>> THEN [v |-> <<>>, at |-> at]
        ELSE [v |-> front.v \o others.v, at |-> others.at]

read_sequence(via, t, bs, at) ==
    LET size == read_uintany(via, bs, at)
        by == IF has_fixed_serial_size(t) THEN "iterator" ELSE via
        More(o, i) == LET e == deserialize(by, t, bs, o.at) IN [v |-> Append(o.v, e.v), at |-> e.at]
    IN  FoldLeft(More, [v |-> <<>>, at |-> size.at], [i \in 1 .. size.v |-> i])

deserialize(via, t, bs, at) ==
    CASE t.k = "bool" -> [v |-> ByteAt(bs, at + 1) # 0, at |-> at + 1]
      [] t.k = "int" -> read_int(via, t, bs, at)
      [] t.k = "uintany" -> read_uintany(via, bs, at)
      [] t.k = "string" -> read_string(via, bs, at)
      [] t.k = "tuple" -> read_tuple(via, t.of, bs, at)
      [] t.k \in {"vector", "map"} -> read_sequence(via, t.of, bs, at)

-----------------------------------------------------------------------------
Init == /\ buffer = <<>> /\ inflight = <<>>
        /\ got = [m |-> 0, via |-> "generator", v |-> <<>>, complete |-> TRUE]

quick_serialize(m) ==
    /\ Len(inflight) < MaxInFlight
    /\ buffer' = buffer \o serialize(Messages[m].t, Messages[m].v)
    /\ inflight' = Append(inflight, m)
    /\ UNCHANGED got

quick_deserialize(via) ==
    /\ inflight # <<>>
    /\ via \in Messages[Head(inflight)].by
    /\ LET read == deserialize(via, Messages[Head(inflight)].t, buffer, 0)
       IN  /\ got' = [m |-> Head(inflight), via |-> via, v |-> read.v,
                      complete |-> read.at <= Len(buffer)]
           /\ buffer' = Rest(buffer, read.at)
    /\ inflight' = Tail(inflight)

Next ==
    \/ \E m \in DOMAIN Messages : quick_serialize(m)
    \/ \E via \in {"generator", "iterator"} : quick_deserialize(via)

Spec == Init /\ [][Next]_vars
=============================================================================
