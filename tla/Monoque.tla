------------------------------- MODULE Monoque -------------------------------
(***************************************************************************)
(* rpnx::experimental::monoque: a sequence that grows and shrinks at its   *)
(* end without ever moving an element.  Elements live in blocks of 2, 2,   *)
(* 4, 8, ... slots; a block list points at the blocks.  The list has room  *)
(* for FirstList blocks at first and for one block per bit of size_t after *)
(* it has grown once.                                                      *)
(*                                                                         *)
(* A monoque is a record of its members; the memory it owns is in heap.    *)
(* Its operations are sequential.  The copy constructor is one step per    *)
(* element, as each of them may throw.                                     *)
(***************************************************************************)
EXTENDS Integers, Sequences, FiniteSets, FiniteSetsExt

CONSTANTS
    Names,        \* the monoque objects
    Values,       \* what the elements are
    WordBits,     \* the bits of size_t
    FirstList,    \* the length of a new block list, 8 in the code
    Blocks,       \* bound: the memory for blocks
    MaxSize,      \* bound: the elements of one monoque
    MayThrow,     \* allocations and the elements' constructors may throw
    EmptyShrinks, \* whether shrink_to_fit is called on an empty monoque
    Resizes,      \* whether resize is called with another size
    Null, Raw, Free, Absent

ASSUME MonoqueAssumption ==
    /\ FirstList \in Nat \ {0} /\ WordBits \in Nat /\ FirstList < WordBits
    /\ MaxSize \in Nat /\ MaxSize < 2 ^ (WordBits - 1) - 1
    /\ {MayThrow, EmptyShrinks, Resizes} \subseteq BOOLEAN
    /\ IsFiniteSet(Blocks) /\ Null \notin Blocks /\ Raw \notin Values
    /\ Names \cap {"none", "alive"} = {}

VARIABLES
    obj,        \* the members of each monoque
    heap,       \* what each block of memory holds: Free, or its slots
    lifetime,   \* "none", "alive", or the monoque it is being copied from
    abandoned,  \* history: blocks of copies that were never completed
    fault       \* the program has run into an error it cannot recover from

vars == <<obj, heap, lifetime, abandoned, fault>>

-----------------------------------------------------------------------------
(* Where an element is.                                                    *)

SizeT == 0 .. 2 ^ WordBits - 1

countl_zero(v) == Cardinality({b \in 0 .. WordBits - 1 : v < 2 ^ b})
bit_floor(t) == 2 ^ (WordBits - countl_zero(t) - 1)

\* The block of an index.
index1 == [at \in SizeT |-> IF at <= 1 THEN 0 ELSE WordBits - countl_zero(at) - 1]

\* Its slot there: at & mask, where the mask (bit_floor(at) - 1) | 1 has all the
\* low bits set.  Whatever bit_floor(0) is, its result is masked to 0.
index2Unmasked == [at \in SizeT |-> IF at = 0 THEN 0 ELSE at % bit_floor(at)]
index2 == [at \in SizeT |-> IF at = 0 THEN 0 ELSE at % Max({bit_floor(at), 2})]

size_of_block(i) == IF i = 0 THEN 2 ELSE 2 ^ i
CapacityOf(blocks) == IF blocks = 0 THEN 0 ELSE 2 ^ blocks
capacity(o) == CapacityOf(o.m_allocated_blocks)

\* What a block holds is told apart from its being free.
Contents(i) == [0 .. size_of_block(i) - 1 -> Values \cup {Raw}]
ASSUME ContentsAssumption == \A i \in 0 .. WordBits : Free \notin Contents(i)

Read(o, i) == heap[o.m_block_list[index1[i]]][index2[i]]

Empty == [m_size |-> 0, m_allocated_blocks |-> 0, m_capacity_blocks |-> 0,
          m_block_list |-> <<>>, freed |-> FALSE]

Init == /\ obj = [m \in Names |-> Empty]
        /\ heap = [b \in Blocks |-> Free]
        /\ lifetime = [m \in Names |-> "none"]
        /\ abandoned = {}
        /\ fault = "none"

\* One thread: nothing else happens while a copy is being constructed.
Usable(m) == /\ fault = "none"
             /\ lifetime[m] = "alive"
             /\ \A n \in Names : lifetime[n] \notin Names

-----------------------------------------------------------------------------
(* Adding and removing blocks.                                             *)

FreeBlocks == {b \in Blocks : heap[b] = Free}

\* It does not matter which of the free blocks the allocator returns.
NewBlocks(k) == CHOOSE s \in [1 .. k -> FreeBlocks] :
                   \A i, j \in 1 .. k : s[i] = s[j] => i = j

RawBlock(i) == [s \in 0 .. size_of_block(i) - 1 |-> Raw]

\* expand_block_list until n blocks fit: the capacity and the list.
ListCapacity(o, n) ==
    IF n <= o.m_capacity_blocks THEN o.m_capacity_blocks
    ELSE IF o.m_capacity_blocks = 0 /\ n <= FirstList THEN FirstList ELSE WordBits

ListOfFirst(o, c) == [i \in 0 .. c - 1 |->
                 IF i >= o.m_capacity_blocks THEN Null
                 ELSE o.m_block_list[IF c = o.m_capacity_blocks THEN i ELSE 0]]
List(o, c) == [i \in 0 .. c - 1 |->
                 IF i < o.m_capacity_blocks THEN o.m_block_list[i] ELSE Null]

\* add_block k times, leaving a list of capacity c.
WithBlocks(o, new, k, c) ==
    LET n == o.m_allocated_blocks
    IN  [o EXCEPT !.m_capacity_blocks = c,
                  !.m_allocated_blocks = n + k,
                  !.m_block_list = [i \in 0 .. c - 1 |->
                      IF n <= i /\ i < n + k THEN new[i - n + 1] ELSE List(o, c)[i]]]

HeapWith(n, new, k) ==
    [b \in Blocks |-> IF \E i \in 1 .. k : new[i] = b
                      THEN RawBlock(n + (CHOOSE i \in 1 .. k : new[i] = b) - 1)
                      ELSE heap[b]]

\* m needs more blocks, and gets k of them.  With fewer than it needs, an
\* allocation has thrown: that of a block list, or that of a block after it.
Added(m, needed, k, c) ==
    LET o == obj[m]
        n == o.m_allocated_blocks
    IN  /\ k <= Cardinality(FreeBlocks)
        /\ \/ k = needed /\ c = ListCapacity(o, n + k)
           \/ k < needed /\ MayThrow /\ c \in {ListCapacity(o, n + k), ListCapacity(o, n + k + 1)}

Capacities == {0, FirstList, WordBits}

\* shrink_to_fit gives the block list of an empty monoque back and keeps its
\* address and its capacity: the next block is entered in it, and the next
\* shrink_to_fit or the destructor gives it back once more.
UsesFreedList(m, needed) ==
    /\ obj[m].freed /\ needed > 0
    /\ fault' = "freed_list"
    /\ UNCHANGED <<obj, heap, lifetime, abandoned>>

AddBlocks(m, needed) ==
    /\ ~(obj[m].freed /\ needed > 0)
    /\ \E k \in 0 .. needed, c \in Capacities :
          /\ Added(m, needed, k, c)
          /\ obj' = [obj EXCEPT ![m] = WithBlocks(@, NewBlocks(k), k, c)]
          /\ heap' = HeapWith(obj[m].m_allocated_blocks, NewBlocks(k), k)

-----------------------------------------------------------------------------
(* emplace_back                                                            *)

Needed(m) == IF obj[m].m_size = capacity(obj[m]) THEN 1 ELSE 0

\* The blocks are there and the element is constructed in its slot.
Appended(m, v) ==
    LET o == obj[m]
        k == Needed(m)
        p == WithBlocks(o, NewBlocks(k), k, ListCapacity(o, o.m_allocated_blocks + k))
        b == p.m_block_list[index1[o.m_size]]
    IN  /\ o.m_size < MaxSize
        /\ ~(o.freed /\ k > 0)
        /\ k <= Cardinality(FreeBlocks)
        /\ obj' = [obj EXCEPT ![m] = [p EXCEPT !.m_size = @ + 1]]
        /\ heap' = [HeapWith(o.m_allocated_blocks, NewBlocks(k), k)
                      EXCEPT ![b][index2[o.m_size]] = v]

\* An allocation or the constructor of the element throws; blocks stay.
NotAppended(m) == MayThrow /\ AddBlocks(m, Needed(m))

EmplaceBack(m, v) ==
    /\ Usable(m)
    /\ Appended(m, v)
    /\ UNCHANGED <<lifetime, abandoned, fault>>

EmplaceBackFails(m) ==
    /\ Usable(m)
    /\ \/ NotAppended(m) /\ UNCHANGED <<lifetime, abandoned, fault>>
       \/ UsesFreedList(m, Needed(m))

PopBack(m) ==
    LET o == obj[m]
    IN  /\ Usable(m)
        /\ o.m_size # 0
        /\ obj' = [obj EXCEPT ![m].m_size = @ - 1]
        /\ heap' = [heap EXCEPT ![o.m_block_list[index1[o.m_size - 1]]]
                                  [index2[o.m_size - 1]] = Raw]
        /\ UNCHANGED <<lifetime, abandoned, fault>>

\* operator[] and the iterators give out references to write through.
Assign(m, i, v) ==
    LET o == obj[m]
    IN  /\ Usable(m)
        /\ i < o.m_size
        /\ heap' = [heap EXCEPT ![o.m_block_list[index1[i]]][index2[i]] = v]
        /\ UNCHANGED <<obj, lifetime, abandoned, fault>>

\* The blocks it takes to hold n elements, if there are fewer now.
BlocksFor(n) == CHOOSE k \in 0 .. WordBits :
                   /\ n <= CapacityOf(k)
                   /\ \A j \in 0 .. k - 1 : n > CapacityOf(j)

Reserve(m, n) ==
    /\ Usable(m)
    /\ n > capacity(obj[m])
    /\ LET needed == BlocksFor(n) - obj[m].m_allocated_blocks
       IN  \/ AddBlocks(m, needed) /\ UNCHANGED <<lifetime, abandoned, fault>>
           \/ UsesFreedList(m, needed)

-----------------------------------------------------------------------------
(* shrink_to_fit: removes blocks from the top, then the block list.        *)

ShrinkableBelowHalf(size, cap) == size * 2 < cap
Shrinkable(size, cap) == \/ size * 2 <= cap /\ size >= 2
                         \/ size * 2 < cap

\* How many blocks the loop leaves.
FitBlocks(o) == Max({k \in 0 .. o.m_allocated_blocks :
                        ~Shrinkable(o.m_size, CapacityOf(k))})

RemovedButLast(o, k) == {o.m_block_list[i] : i \in k + 1 .. o.m_allocated_blocks - 1}
RemovedBlocks(o, k) == {o.m_block_list[i] : i \in k .. o.m_allocated_blocks - 1}

Shrunk(o) ==
    LET k == FitBlocks(o)
    IN  [o EXCEPT !.m_allocated_blocks = k,
                  !.m_block_list = [i \in 0 .. o.m_capacity_blocks - 1 |->
                      IF k <= i /\ i < o.m_allocated_blocks THEN Null ELSE @[i]],
                  !.freed = k = 0 /\ o.m_capacity_blocks # 0]

Release(S) == heap' = [b \in Blocks |-> IF b \in S THEN Free ELSE heap[b]]

ShrinkToFit(m) ==
    LET o == obj[m]
    IN  /\ Usable(m)
        /\ o.m_size = 0 => EmptyShrinks
        /\ IF o.freed /\ FitBlocks(o) = 0
           THEN fault' = "freed_twice" /\ UNCHANGED <<obj, heap>>
           ELSE /\ obj' = [obj EXCEPT ![m] = Shrunk(o)]
                /\ Release(RemovedBlocks(o, FitBlocks(o)))
                /\ UNCHANGED fault
        /\ UNCHANGED <<lifetime, abandoned>>

\* resize has its two loops the wrong way round: to a larger size it removes
\* every element and fails the assertion of pop_back, to a smaller one it
\* appends until the memory is exhausted.
Resize(m, n) ==
    /\ Usable(m)
    /\ Resizes /\ n # obj[m].m_size
    /\ fault' = IF n > obj[m].m_size THEN "pop_back_empty" ELSE "out_of_memory"
    /\ UNCHANGED <<obj, heap, lifetime, abandoned>>

-----------------------------------------------------------------------------
(* Constructors, destructor, swap.                                         *)

Construct(m) ==
    /\ fault = "none"
    /\ \A n \in Names : lifetime[n] \notin Names
    /\ lifetime[m] = "none"
    /\ lifetime' = [lifetime EXCEPT ![m] = "alive"]
    /\ UNCHANGED <<obj, heap, abandoned, fault>>

StartCopy(m, other) ==
    /\ Usable(other)
    /\ lifetime[m] = "none"
    /\ lifetime' = [lifetime EXCEPT ![m] = other]
    /\ UNCHANGED <<obj, heap, abandoned, fault>>

\* One round of the copy constructor's loop, or its end.
CopyStep(m) ==
    /\ lifetime[m] \in Names
    /\ UNCHANGED <<abandoned, fault>>
    /\ IF obj[m].m_size < obj[lifetime[m]].m_size
       THEN /\ Appended(m, Read(obj[lifetime[m]], obj[m].m_size))
            /\ UNCHANGED lifetime
       ELSE /\ lifetime' = [lifetime EXCEPT ![m] = "alive"]
            /\ UNCHANGED <<obj, heap>>

\* An exception leaves the copy constructor.  There is no object to destroy, so
\* nothing gives back what was allocated so far.
CopyThrows(m) ==
    /\ lifetime[m] \in Names
    /\ MayThrow
    /\ obj[m].m_size < obj[lifetime[m]].m_size
    /\ \E k \in 0 .. Needed(m) :
          /\ k <= Cardinality(FreeBlocks)
          /\ heap' = HeapWith(obj[m].m_allocated_blocks, NewBlocks(k), k)
          /\ abandoned' = abandoned \cup RemovedBlocks(obj[m], 0)
                            \cup {NewBlocks(k)[i] : i \in 1 .. k}
    /\ lifetime' = [lifetime EXCEPT ![m] = "none"]
    /\ obj' = [obj EXCEPT ![m] = Empty]
    /\ UNCHANGED fault

\* Removes every element, then shrinks to fit, which takes all there is.
Destroy(m) ==
    LET o == obj[m]
    IN  /\ Usable(m)
        /\ IF o.freed /\ o.m_allocated_blocks = 0
           THEN fault' = "freed_twice" /\ UNCHANGED <<obj, heap, lifetime>>
           ELSE /\ Release(RemovedBlocks(o, 0))
                /\ obj' = [obj EXCEPT ![m] = Empty]
                /\ lifetime' = [lifetime EXCEPT ![m] = "none"]
                /\ UNCHANGED fault
        /\ UNCHANGED abandoned

Swap(m, other) ==
    /\ Usable(m) /\ Usable(other) /\ m # other
    /\ obj' = [obj EXCEPT ![m] = obj[other], ![other] = obj[m]]
    /\ UNCHANGED <<heap, lifetime, abandoned, fault>>

Sizes == 0 .. MaxSize

Faulted == fault # "none" /\ UNCHANGED vars

Next ==
    \/ \E m \in Names :
          \/ Construct(m) \/ CopyStep(m) \/ CopyThrows(m) \/ Destroy(m)
          \/ PopBack(m) \/ EmplaceBackFails(m) \/ ShrinkToFit(m)
          \/ \E v \in Values : EmplaceBack(m, v)
          \/ \E i \in Sizes, v \in Values : Assign(m, i, v)
          \/ \E n \in Sizes : Reserve(m, n) \/ Resize(m, n)
          \/ \E other \in Names : StartCopy(m, other) \/ Swap(m, other)
    \/ Faulted

Spec == Init /\ [][Next]_vars
=============================================================================
