---------------------------- MODULE LegacyMonoque ----------------------------
(* rpnx::monoque of legacy/monoque.hpp: a sequence in blocks of 2, 2, 4,    *)
(* 8, ... slots with one block pointer per bit of size_t. size_t has twice  *)
(* the bits of int, in which the sizes of blocks are computed. Calls are    *)
(* sequential; an allocation or the constructor of an element may throw.    *)
EXTENDS Integers, Sequences, FiniteSets, FiniteSetsExt, SequencesExt

CONSTANTS
    Names,      \* the monoque objects
    Values,     \* what the elements are
    IntBits,    \* the bits of int
    Counts,     \* bound: the counts that resize and assign are called with
    Blocks,     \* bound: the memory for blocks
    MayThrow,   \* constructors of elements, and allocations, may throw
    Null, Raw, Absent

ASSUME LegacyAssumption ==
    /\ IntBits \in Nat /\ IntBits > 2 /\ Counts \subseteq Nat
    /\ MayThrow \in BOOLEAN /\ Null \notin Blocks /\ Raw \notin Values

VARIABLES
    obj,     \* [size_pv, data_pv] of each monoque, or Absent
    heap     \* the slots of each block, none in one that is free
vars == <<obj, heap>>

WordBits == 2 * IntBits
Log2 == [n \in 1 .. 2 ^ IntBits |-> Max({k \in 0 .. IntBits : 2 ^ k <= n})]
Larger(a, b) == IF a > b THEN a ELSE b

\* 1 << k as an int and then as a size_t: no allocator has that much memory when
\* the sign bit is set.
Shift(k) == IF k < IntBits - 1 THEN 2 ^ k ELSE 2 ^ WordBits - 2 ^ (IntBits - 1)
Huge(n) == n > 2 ^ IntBits

index1_pv(n) == Log2[Larger(n, 1)]
index2_pvUnmasked(n) == n % 2 ^ Log2[Larger(n, 1)]
index2_pv(n) == n % 2 ^ Log2[Larger(n, 2)]
sizeat_pv(at) == Shift(Log2[Larger(at \div 2, 1)] + 1)
\* What the destructor says is the size of a block.
deallocated(i) == Larger(Shift(i), 2)

Max1 == 2 ^ (IntBits - 1)
None == [size_pv |-> 0, data_pv |-> [i \in 0 .. WordBits - 1 |-> Null]]
Objects == [size_pv : Nat, data_pv : [0 .. WordBits - 1 -> Blocks \cup {Null}]]
ASSUME AbsentAssumption == Absent \notin Objects
Alive == {m \in Names : obj[m] # Absent}
Held(o) == {o.data_pv[i] : i \in DOMAIN o.data_pv} \ {Null}
Element(o, h, i) == h[o.data_pv[index1_pv(i)]][index2_pv(i) + 1]
Put(o, h, i, v) ==
    [h EXCEPT ![o.data_pv[index1_pv(i)]] = [@ EXCEPT ![index2_pv(i) + 1] = v]]
Elements(o, h) == [i \in 1 .. o.size_pv |-> Element(o, h, i - 1)]

-----------------------------------------------------------------------------
(* A monoque and the memory, as the calls that append leave them.           *)
FreeBlocks(h) == {b \in Blocks : h[b] = <<>>}
NeedsBlock(s) == s.o.data_pv[index1_pv(s.o.size_pv)] = Null
MayAllocate(s) == FreeBlocks(s.h) # {} /\ ~Huge(sizeat_pv(s.o.size_pv))

Allocate(s) ==
    LET at == s.o.size_pv
        b == CHOOSE b \in FreeBlocks(s.h) : TRUE
    IN  IF ~NeedsBlock(s) THEN s
        ELSE [o |-> [s.o EXCEPT !.data_pv[index1_pv(at)] = b],
              h |-> [s.h EXCEPT ![b] = [i \in 1 .. sizeat_pv(at) |-> Raw]]]

push_back(s, v) ==
    LET at == s.o.size_pv
        t == Allocate(s)
    IN  [o |-> [t.o EXCEPT !.size_pv = at + 1],
         h |-> Put(t.o, t.h, at, v)]

\* What appending vs may come to: all of it, or as much as there was before one
\* element threw, with or without the block that was to hold it.
Fits(s) == NeedsBlock(s) => MayAllocate(s)
Appending(s, vs) ==
    LET after[n \in 0 .. Len(vs)] == IF n = 0 THEN s ELSE push_back(after[n - 1], vs[n])
        Reached == {n \in 0 .. Len(vs) : \A k \in 0 .. n - 1 : Fits(after[k])}
        Throws == {n \in Reached \ {Len(vs)} : MayThrow /\ Fits(after[n])}
        Ends == {n \in Reached : n < Len(vs) => MayThrow \/ ~Fits(after[n])}
    IN  {[s |-> after[n], done |-> n = Len(vs)] : n \in Ends}
        \cup {[s |-> Allocate(after[n]), done |-> FALSE] : n \in Throws}

pop_back(s) ==
    LET at == s.o.size_pv - 1
    IN  [o |-> [s.o EXCEPT !.size_pv = at],
         h |-> Put(s.o, s.h, at, Raw)]

Popping(s, n) ==
    LET after[k \in 0 .. s.o.size_pv] == IF k = 0 THEN s ELSE pop_back(after[k - 1])
    IN  after[Larger(s.o.size_pv - n, 0)]

Release(h, bs) == [b \in Blocks |-> IF b \in bs THEN <<>> ELSE h[b]]

Becomes(m, s) == obj' = [obj EXCEPT ![m] = s.o] /\ heap' = s.h
At(m) == [o |-> obj[m], h |-> heap]

-----------------------------------------------------------------------------
(* A constructor that throws has delegated to one that is complete, so the  *)
(* destructor gives its blocks back.                                        *)
Constructed(vs) == Appending([o |-> None, h |-> heap], vs)

Construct(m, vs) ==
    /\ m \notin Alive
    /\ \E r \in Constructed(vs) : IF r.done THEN Becomes(m, r.s) ELSE UNCHANGED vars

CopyConstruct(m, n) == n \in Alive /\ Construct(m, Elements(obj[n], heap))

MoveConstruct(m, n) ==
    /\ m \notin Alive /\ n \in Alive
    /\ obj' = [obj EXCEPT ![m] = obj[n], ![n] = None]
    /\ UNCHANGED heap

Destroy(m) ==
    /\ m \in Alive
    /\ obj' = [obj EXCEPT ![m] = Absent]
    /\ heap' = Release(heap, Held(obj[m]))

EmplaceBack(m, v) == m \in Alive /\ \E r \in Appending(At(m), <<v>>) : Becomes(m, r.s)
PopBack(m) == m \in Alive /\ obj[m].size_pv >= 1 /\ Becomes(m, pop_back(At(m)))

\* A new monoque takes the place of m, whose blocks go with it.
assign(m, vs) ==
    /\ m \in Alive
    /\ \E r \in Constructed(vs) :
          IF r.done THEN Becomes(m, [o |-> r.s.o, h |-> Release(r.s.h, Held(obj[m]))])
          ELSE UNCHANGED vars

CopyAssign(m, n) == n \in Alive /\ assign(m, Elements(obj[n], heap))

clearKeepsBlocks(m) == m \in Alive /\ Becomes(m, [o |-> None, h |-> heap])
clear(m) ==
    /\ m \in Alive
    /\ Becomes(m, [o |-> None, h |-> Release(heap, Held(obj[m]))])

assign_count(m, n, v) ==
    /\ m \in Alive
    /\ \E r \in Appending([o |-> None, h |-> Release(heap, Held(obj[m]))], [i \in 1 .. n |-> v]) :
          Becomes(m, r.s)

resize(m, n, v) ==
    /\ m \in Alive
    /\ \E r \in Appending(Popping(At(m), n), [i \in 1 .. n - obj[m].size_pv |-> v]) : Becomes(m, r.s)

Write(m, i, v) ==
    /\ m \in Alive /\ i < obj[m].size_pv
    /\ heap' = Put(obj[m], heap, i, v)
    /\ UNCHANGED obj

\* Swaps; so does assigning an rvalue.
swap(m, n) ==
    /\ {m, n} \subseteq Alive
    /\ obj' = [obj EXCEPT ![m] = obj[n], ![n] = obj[m]]
    /\ UNCHANGED heap

\* Frees from the first block that no element needs to the first pointer that is null.
Spare(o, mindex) ==
    {i \in mindex .. WordBits - 1 : \A j \in mindex .. i : o.data_pv[j] # Null}
FreeSpare(m, spare) ==
    /\ obj' = [obj EXCEPT ![m].data_pv = [i \in DOMAIN @ |-> IF i \in spare THEN Null ELSE @[i]]]
    /\ heap' = Release(heap, {obj[m].data_pv[i] : i \in spare})

shink_to_fitTooFar(m) ==
    m \in Alive /\ FreeSpare(m, Spare(obj[m], index1_pv(Larger(obj[m].size_pv, 1) - 1)))
shink_to_fit(m) ==
    LET n == obj[m].size_pv
    IN  m \in Alive /\ FreeSpare(m, Spare(obj[m], IF n = 0 THEN 0 ELSE index1_pv(n - 1) + 1))

-----------------------------------------------------------------------------
Init == obj = [m \in Names |-> Absent] /\ heap = [b \in Blocks |-> <<>>]

Next ==
    \E m \in Names :
       \/ Construct(m, <<>>) \/ Destroy(m) \/ PopBack(m) \/ clear(m) \/ shink_to_fit(m)
       \/ \E v \in Values :
             \/ EmplaceBack(m, v) \/ Construct(m, <<v, v>>) \/ assign(m, <<v, v, v>>)
             \/ \E i \in 0 .. Max1 : Write(m, i, v)
             \/ \E n \in Counts : resize(m, n, v) \/ assign_count(m, n, v)
       \/ \E n \in Names \ {m} :
             MoveConstruct(m, n) \/ CopyConstruct(m, n) \/ CopyAssign(m, n) \/ swap(m, n)

Spec == Init /\ [][Next]_vars
=============================================================================
