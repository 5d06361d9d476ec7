---------------------------- MODULE MonoqueProofs ----------------------------
(***************************************************************************)
(* What Monoque keeps, for any number of monoques, elements and blocks and *)
(* any width of size_t: the blocks have one owner each, the elements stay  *)
(* where they are and have been constructed, shrink_to_fit leaves no block *)
(* too many, and a monoque is the sequence of its elements.                *)
(*                                                                         *)
(* First the places of the elements, which are powers of two apart; then   *)
(* what adding, writing and removing does to a memory that is shared out   *)
(* among the lists; then the operations, and the invariant they keep.      *)
(***************************************************************************)
EXTENDS MonoqueProperties, PowersOfTwo

-----------------------------------------------------------------------------
(* Where an element is: the block of its highest bit, the rest in it.      *)

\* The number of leading zeros leaves the highest bit that is set.
LEMMA HighestBit ==
    ASSUME NEW k \in 0 .. WordBits - 1, NEW v \in Nat, 2 ^ k <= v, v < 2 ^ (k + 1)
    PROVE  WordBits - countl_zero(v) - 1 = k
<1>0. WordBits \in Nat
  BY MonoqueAssumption
<1> DEFINE Z == {b \in 0 .. WordBits - 1 : v < 2 ^ b}
<1>1. ASSUME NEW b \in 0 .. WordBits - 1 PROVE v < 2 ^ b <=> k + 1 <= b
  <2>1. CASE k + 1 <= b
    BY <2>1, <1>0, NotBelow, Positive
  <2>2. CASE b <= k
    BY <2>2, <1>0, NotBelow, Positive
  <2> QED
    BY <2>1, <2>2, <1>0
<1>2. Z = (k + 1) .. (WordBits - 1)
  BY <1>1, <1>0
<1>3. Cardinality((k + 1) .. (WordBits - 1)) = WordBits - 1 - k
  <2>1. k + 1 \in Int /\ WordBits - 1 \in Int
    BY <1>0
  <2>2. Cardinality((k + 1) .. (WordBits - 1)) =
          IF k + 1 > WordBits - 1 THEN 0 ELSE (WordBits - 1) - (k + 1) + 1
    BY <2>1, FS_Interval
  <2> QED
    BY <2>2, <1>0
<1>4. countl_zero(v) = Cardinality((k + 1) .. (WordBits - 1))
  BY <1>2, Zenon DEF countl_zero
<1> QED
  BY <1>3, <1>4, <1>0

\* The indices from 2 ^ k to 2 ^ (k + 1) are in block k, one after the other.
LEMMA Upper ==
    ASSUME NEW k \in 1 .. WordBits - 1, NEW at \in Nat, 2 ^ k <= at, at < 2 ^ (k + 1)
    PROVE  /\ at \in SizeT /\ at >= 2
           /\ index1[at] = k /\ index2[at] = at - 2 ^ k
<1>0. WordBits \in Nat
  BY MonoqueAssumption
<1>1. 2 ^ (k + 1) <= 2 ^ WordBits /\ 2 ^ WordBits \in Nat /\ 2 ^ k \in Nat
  BY <1>0, NotBelow, Positive
<1>2. 2 ^ k >= 2
  <2>1. 1 \in Nat /\ k \in Nat /\ 1 <= k
    BY <1>0
  <2>2. 2 ^ 1 <= 2 ^ k
    BY <2>1, NotBelow, Zenon
  <2> QED
    BY <2>2, Small
<1>3. at \in SizeT /\ at >= 2
  BY <1>1, <1>2 DEF SizeT
<1>4. WordBits - countl_zero(at) - 1 = k
  BY HighestBit, <1>0
<1>5. index1[at] = k
  BY <1>3, <1>4 DEF index1
<1>6. bit_floor(at) = 2 ^ k
  BY <1>4 DEF bit_floor
<1>7. Max({2 ^ k, 2}) = 2 ^ k
  BY <1>1, <1>2 DEF Max
<1>8. 2 ^ (k + 1) = 2 * 2 ^ k
  BY Doubles
<1>9. at % 2 ^ k = at - 2 ^ k
  BY <1>1, <1>2, <1>8
<1> QED
  BY <1>3, <1>5, <1>6, <1>7, <1>9 DEF index2

\* The first two are in block 0.
LEMMA Lower ==
    ASSUME NEW at \in 0 .. 1
    PROVE  at \in SizeT /\ index1[at] = 0 /\ index2[at] = at
<1>0. WordBits \in Nat /\ WordBits >= 1
  BY MonoqueAssumption
<1>1. 2 ^ 1 <= 2 ^ WordBits /\ 2 ^ WordBits \in Nat /\ 2 ^ 1 = 2 /\ 2 ^ 0 = 1
  <2>1. 1 \in Nat /\ WordBits \in Nat /\ 1 <= WordBits
    BY <1>0
  <2>2. 2 ^ 1 <= 2 ^ WordBits
    BY <2>1, NotBelow, Zenon
  <2> QED
    BY <2>2, <1>0, Positive, Small
<1>2. at \in SizeT
  BY <1>1 DEF SizeT
<1>3. bit_floor(1) = 1
  <2>1. 0 \in 0 .. WordBits - 1 /\ 1 \in Nat /\ 2 ^ 0 <= 1 /\ 1 < 2 ^ (0 + 1)
    BY <1>0, <1>1
  <2>2. WordBits - countl_zero(1) - 1 = 0
    BY <2>1, HighestBit, Zenon
  <2> QED
    BY <2>2, <1>1 DEF bit_floor
<1>4. Max({1, 2}) = 2
  BY DEF Max
<1>5. at = 1 => index2[at] = 1
  <2>1. 1 % 2 = 1
    OBVIOUS
  <2> QED
    BY <1>2, <1>3, <1>4, <2>1 DEF index2
<1> QED
  BY <1>2, <1>5 DEF index1, index2

-----------------------------------------------------------------------------
\* n blocks hold 2 ^ n elements, and none hold none.
LEMMA CapacityGrows ==
    /\ CapacityOf(0) = 0
    /\ \A n \in Nat : /\ CapacityOf(n) \in Nat
                      /\ n # 0 => CapacityOf(n) = 2 ^ n /\ CapacityOf(n) >= 2
    /\ \A m, n \in Nat : m < n => CapacityOf(m) < CapacityOf(n)
<1>1. ASSUME NEW n \in Nat, n # 0 PROVE 2 ^ n >= 2 /\ 2 ^ n \in Nat
  <2>1. 1 \in Nat /\ 1 <= n
    BY <1>1
  <2>2. 2 ^ 1 <= 2 ^ n
    BY <2>1, NotBelow, Zenon
  <2> QED
    BY <2>2, Small, Positive
<1>2. \A m, n \in Nat : m < n => CapacityOf(m) < CapacityOf(n)
  <2> SUFFICES ASSUME NEW m \in Nat, NEW n \in Nat, m < n PROVE CapacityOf(m) < CapacityOf(n)
    OBVIOUS
  <2>1. 2 ^ m < 2 ^ n /\ 2 ^ n > 0
    BY Grows, Positive
  <2> QED
    BY <2>1 DEF CapacityOf
<1> QED
  BY <1>1, <1>2 DEF CapacityOf

\* Every index within the capacity of n blocks has its place in one of them.
LEMMA Place ==
    ASSUME NEW n \in 0 .. WordBits, NEW at \in Nat, at < CapacityOf(n)
    PROVE  /\ n > 0 /\ at \in SizeT
           /\ \/ at <= 1 /\ index1[at] = 0 /\ index2[at] = at
              \/ \E k \in 1 .. n - 1 : /\ 2 ^ k <= at /\ at < 2 ^ (k + 1)
                                       /\ index1[at] = k /\ index2[at] = at - 2 ^ k
<1>0. WordBits \in Nat
  BY MonoqueAssumption
<1>1. n > 0 /\ n \in Nat /\ at < 2 ^ n
  BY <1>0 DEF CapacityOf
<1>2. CASE at <= 1
  BY <1>1, <1>2, Lower
<1>3. CASE at >= 2
  <2>0. 0 < at
    BY <1>3
  <2>1. PICK k \in 0 .. n - 1 : 2 ^ k <= at /\ at < 2 ^ (k + 1)
    BY <1>1, <2>0, Between, Zenon
  <2>2. k # 0
    <3>1. k = 0 => at < 2 ^ (0 + 1)
      BY <2>1, Zenon
    <3>2. 2 ^ (0 + 1) = 2
      OBVIOUS
    <3> QED
      BY <3>1, <3>2, <1>3
  <2>3. k \in 1 .. n - 1 /\ k \in 1 .. WordBits - 1
    BY <2>1, <2>2, <1>0
  <2> QED
    BY <1>1, <2>1, <2>3, Upper
<1> QED
  BY <1>2, <1>3

\* The place of an index within the capacity is a slot of a block there is.
LEMMA Where ==
    ASSUME NEW n \in 0 .. WordBits, NEW at \in Nat, at < CapacityOf(n)
    PROVE  /\ at \in SizeT /\ index1[at] \in 0 .. n - 1
           /\ index2[at] \in 0 .. size_of_block(index1[at]) - 1
<1>0. WordBits \in Nat
  BY MonoqueAssumption
<1>1. CASE at <= 1 /\ index1[at] = 0 /\ index2[at] = at
  BY <1>0, <1>1, Place DEF size_of_block
<1>2. CASE \E k \in 1 .. n - 1 : /\ 2 ^ k <= at /\ at < 2 ^ (k + 1)
                                 /\ index1[at] = k /\ index2[at] = at - 2 ^ k
  <2>1. PICK k \in 1 .. n - 1 : /\ 2 ^ k <= at /\ at < 2 ^ (k + 1)
                                /\ index1[at] = k /\ index2[at] = at - 2 ^ k
    BY <1>2
  <2>2. 2 ^ (k + 1) = 2 * 2 ^ k /\ 2 ^ k \in Nat
    BY <1>0, Doubles, Positive
  <2>3. size_of_block(k) = 2 ^ k
    BY <1>0 DEF size_of_block
  <2> QED
    BY <2>1, <2>2, <2>3, Place
<1> QED
  BY <1>1, <1>2, Place

\* Two elements are in two places.
LEMMA Apart ==
    ASSUME NEW n \in 0 .. WordBits,
           NEW a \in Nat, a < CapacityOf(n), NEW b \in Nat, b < CapacityOf(n),
           index1[a] = index1[b], index2[a] = index2[b]
    PROVE  a = b
<1>0. WordBits \in Nat
  BY MonoqueAssumption
<1>1. /\ \/ a <= 1 /\ index1[a] = 0 /\ index2[a] = a
         \/ \E k \in 1 .. n - 1 : /\ 2 ^ k <= a /\ a < 2 ^ (k + 1)
                                  /\ index1[a] = k /\ index2[a] = a - 2 ^ k
      /\ \/ b <= 1 /\ index1[b] = 0 /\ index2[b] = b
         \/ \E k \in 1 .. n - 1 : /\ 2 ^ k <= b /\ b < 2 ^ (k + 1)
                                  /\ index1[b] = k /\ index2[b] = b - 2 ^ k
  BY Place
<1>2. \A k \in 1 .. n - 1 : 2 ^ k \in Nat
  BY <1>0, Positive
<1> QED
  BY <1>0, <1>1, <1>2

-----------------------------------------------------------------------------
(* shrink_to_fit stops where the elements fit exactly.                     *)

\* FitBlocks leaves room for the elements, and one block less would not.
LEMMA Fits ==
    ASSUME NEW o, o.m_allocated_blocks \in 0 .. WordBits, o.m_size \in 0 .. capacity(o)
    PROVE  /\ FitBlocks(o) \in 0 .. o.m_allocated_blocks
           /\ o.m_size <= CapacityOf(FitBlocks(o))
           /\ \A k \in 0 .. FitBlocks(o) - 1 : CapacityOf(k) < o.m_size
<1> DEFINE n == o.m_allocated_blocks
           size == o.m_size
           T == {k \in 0 .. n : ~Shrinkable(size, CapacityOf(k))}
           f == FitBlocks(o)
<1>0. WordBits \in Nat /\ n \in Nat /\ size \in Nat /\ size <= CapacityOf(n)
  BY MonoqueAssumption, CapacityGrows DEF capacity
<1>1. 0 \in T
  BY <1>0, CapacityGrows DEF Shrinkable
<1>2. \E x \in T : \A y \in T : x >= y
  <2> DEFINE R == {n - k : k \in T}
  <2>0. T \subseteq 0 .. n
    OBVIOUS
  <2> HIDE DEF T
  <2>1. R \in SUBSET Nat /\ R # {}
    BY <1>0, <1>1, <2>0
  <2>2. PICK x \in R : \A y \in R : x <= y
    BY <2>1, Least
  <2>3. PICK k \in T : x = n - k
    BY <2>2
  <2>4. \A j \in T : n - k <= n - j
    BY <2>2, <2>3
  <2> QED
    BY <1>0, <2>3, <2>4 DEF T
<1>3. f \in T /\ \A y \in T : f >= y
  BY <1>2 DEF FitBlocks, Max
<1>4. f \in 0 .. n /\ f \in Nat /\ ~Shrinkable(size, CapacityOf(f))
  BY <1>3, <1>0
<1>5. size <= CapacityOf(f)
  <2>1. CASE f = n
    BY <2>1, <1>0
  <2>2. CASE f < n
    <3>1. f + 1 \in 0 .. n /\ f + 1 \notin T /\ f + 1 \in Nat /\ f + 1 # 0
      BY <2>2, <1>0, <1>3, <1>4
    <3>2. Shrinkable(size, CapacityOf(f + 1))
      BY <3>1
    <3>3. CapacityOf(f + 1) = 2 ^ (f + 1)
      BY <3>1, CapacityGrows
    <3>4. CASE f = 0
      <4>1. 2 ^ (f + 1) = 2
        BY <3>4, Doubles, <1>4, Small
      <4> QED
        BY <3>2, <3>3, <4>1, <1>0, <3>4, CapacityGrows DEF Shrinkable
    <3>5. CASE f # 0
      <4>1. CapacityOf(f) = 2 ^ f /\ 2 ^ (f + 1) = 2 * 2 ^ f /\ 2 ^ f \in Nat
        BY <3>5, <1>4, CapacityGrows, Doubles, Positive
      <4> QED
        BY <3>2, <3>3, <4>1, <1>0 DEF Shrinkable
    <3> QED
      BY <3>4, <3>5
  <2> QED
    BY <2>1, <2>2, <1>0, <1>4
<1>6. ASSUME NEW k \in 0 .. f - 1 PROVE CapacityOf(k) < size
  <2>1. k \in Nat /\ k < f /\ f # 0
    BY <1>4, <1>6
  <2>2. CapacityOf(f) = 2 ^ f /\ 2 ^ f \in Nat /\ 2 ^ f >= 2
    BY <2>1, <1>4, CapacityGrows
  <2>3. CASE k = 0
    BY <2>3, <2>2, <1>4, <1>0, CapacityGrows DEF Shrinkable
  <2>4. CASE k # 0
    <3>1. CapacityOf(k) = 2 ^ k /\ 2 ^ k >= 2 /\ 2 ^ k \in Nat
      BY <2>1, <2>4, CapacityGrows
    <3>2. 2 * 2 ^ k <= 2 ^ f
      BY <2>1, <1>4, Grows
    <3> QED
      BY <3>1, <3>2, <2>2, <1>4, <1>0 DEF Shrinkable
  <2> QED
    BY <2>3, <2>4
<1> QED
  BY <1>4, <1>5, <1>6

-----------------------------------------------------------------------------
\* The blocks that a size takes, when there are too few now.
LEMMA Enough ==
    ASSUME NEW n \in Sizes, NEW a \in 0 .. WordBits, n > CapacityOf(a)
    PROVE  BlocksFor(n) \in a + 1 .. WordBits
<1>0. WordBits \in Nat /\ WordBits - 1 \in Nat /\ WordBits - 1 # 0 /\ n \in Nat
  BY MonoqueAssumption DEF Sizes
<1> DEFINE T == {k \in 0 .. WordBits : n <= CapacityOf(k)}
<1>1. T # {}
  <2>1. CapacityOf(WordBits - 1) = 2 ^ (WordBits - 1)
    BY <1>0, CapacityGrows
  <2>2. 2 ^ (WordBits - 1) \in Nat
    BY <1>0, Positive
  <2>3. n <= 2 ^ (WordBits - 1)
    BY <1>0, <2>2, MonoqueAssumption DEF Sizes
  <2> QED
    BY <1>0, <2>1, <2>3
<1>2. PICK k \in T : \A y \in T : k <= y
  <2>1. T \in SUBSET Nat
    BY <1>0
  <2> HIDE DEF T
  <2> QED
    BY <1>1, <2>1, Least
<1>3. k \in 0 .. WordBits /\ n <= CapacityOf(k)
  OBVIOUS
<1>4. ASSUME NEW j \in 0 .. k - 1 PROVE n > CapacityOf(j)
  <2>1. j \in 0 .. WordBits /\ j \notin T /\ j \in Nat
    BY <1>0, <1>2, <1>3
  <2> QED
    BY <2>1, <1>0, CapacityGrows
<1> HIDE DEF T
<1>5. BlocksFor(n) \in 0 .. WordBits /\ n <= CapacityOf(BlocksFor(n))
  BY <1>3, <1>4 DEF BlocksFor
<1> QED
  <2> DEFINE b == BlocksFor(n)
  <2>1. /\ b \in Nat /\ a \in Nat /\ n <= CapacityOf(b)
        /\ CapacityOf(a) \in Nat /\ CapacityOf(b) \in Nat
    BY <1>0, <1>5, CapacityGrows
  <2>2. b <= a => CapacityOf(b) <= CapacityOf(a)
    BY <2>1, CapacityGrows
  <2> HIDE DEF b
  <2>3. b > a
    BY <2>1, <2>2, <1>0
  <2> QED
    BY <2>3, <1>0, <1>5 DEF b

-----------------------------------------------------------------------------
(* The invariant: the members of a monoque fit together, and the memory is *)
(* divided among the lists.                                                *)

Lists == [m_size : Nat, m_allocated_blocks : Nat, m_capacity_blocks : Capacities,
          m_block_list : UNION {[0 .. c - 1 -> Blocks \cup {Null}] : c \in Capacities},
          freed : BOOLEAN]

Member(o) ==
    /\ o \in Lists
    /\ o.m_size <= capacity(o)
    /\ o.m_allocated_blocks <= o.m_capacity_blocks
    /\ o.m_block_list \in [0 .. o.m_capacity_blocks - 1 -> Blocks \cup {Null}]

Live(o) == 0 .. o.m_allocated_blocks - 1

\* Objects ob, memory h, lost blocks ab.
Filled(h) == h \in [Blocks -> {Free} \cup UNION {Contents(i) : i \in 0 .. WordBits}]
Fitting(ob, h) ==
    \A m \in Names : \A i \in Live(ob[m]) : /\ ob[m].m_block_list[i] \in Blocks
                                            /\ h[ob[m].m_block_list[i]] \in Contents(i)
Single(ob) ==
    \A m, n \in Names : \A i \in Live(ob[m]), j \in Live(ob[n]) :
       ob[m].m_block_list[i] = ob[n].m_block_list[j] => m = n /\ i = j
Lost(ob, h, ab) ==
    /\ ab \subseteq Blocks
    /\ \A b \in ab : h[b] # Free
    /\ \A m \in Names : \A i \in Live(ob[m]) : ob[m].m_block_list[i] \notin ab
Accounted(ob, h, ab) ==
    \A b \in Blocks : h[b] # Free =>
       b \in ab \/ \E m \in Names : \E i \in Live(ob[m]) : b = ob[m].m_block_list[i]

Memory(ob, h, ab) ==
    Filled(h) /\ Fitting(ob, h) /\ Single(ob) /\ Lost(ob, h, ab) /\ Accounted(ob, h, ab)

\* The counters of a monoque are numbers, and in order.
LEMMA MemberType ==
    ASSUME NEW o, Member(o)
    PROVE  /\ o.m_size \in Nat /\ o.m_allocated_blocks \in 0 .. WordBits
           /\ o.m_allocated_blocks \in Nat /\ o.m_capacity_blocks \in Nat
           /\ o.m_capacity_blocks \in Capacities /\ o.m_capacity_blocks <= WordBits
           /\ o.m_allocated_blocks <= o.m_capacity_blocks
           /\ WordBits \in Nat
BY MonoqueAssumption DEF Member, Lists, Capacities

\* A block with slots is not free.
LEMMA SlotsNotFree == \A i \in 0 .. WordBits : \A x \in Contents(i) : x # Free
BY ContentsAssumption

\* As many blocks as are asked for, all different, if there are as many.
LEMMA NewBlocksAre ==
    ASSUME NEW k \in Nat, k <= Cardinality(FreeBlocks)
    PROVE  /\ NewBlocks(k) \in [1 .. k -> FreeBlocks]
           /\ \A i, j \in 1 .. k : NewBlocks(k)[i] = NewBlocks(k)[j] => i = j
<1>1. IsFiniteSet(FreeBlocks)
  BY MonoqueAssumption, FS_Subset DEF FreeBlocks
<1>2. Cardinality(FreeBlocks) \in Nat
  BY <1>1, FS_CardinalityType
<1>3. PICK f : f \in Bijection(1 .. Cardinality(FreeBlocks), FreeBlocks)
  <2>1. PICK x \in Nat : ExistsBijection(1 .. x, FreeBlocks)
    BY <1>1, FS_NatBijection
  <2>2. Cardinality(FreeBlocks) = x
    BY <2>1, FS_CountingElements
  <2> QED
    BY <2>1, <2>2 DEF ExistsBijection
<1> DEFINE n == Cardinality(FreeBlocks)
           s == [i \in 1 .. k |-> f[i]]
<1>4. f \in [1 .. n -> FreeBlocks] /\ \A i, j \in 1 .. n : f[i] = f[j] => i = j
  BY <1>3 DEF Bijection, Injection, Surjection, IsInjective
<1> HIDE DEF n
<1>5. s \in [1 .. k -> FreeBlocks] /\ \A i, j \in 1 .. k : s[i] = s[j] => i = j
  BY <1>2, <1>4 DEF n
<1> HIDE DEF s
<1> QED
  BY <1>5 DEF NewBlocks

-----------------------------------------------------------------------------
\* A list that is extended is long enough, and no shorter than it was.
LEMMA ListLong ==
    ASSUME NEW o, Member(o), NEW x \in Nat, x <= WordBits
    PROVE  /\ ListCapacity(o, x) \in Capacities
           /\ x <= ListCapacity(o, x) /\ o.m_capacity_blocks <= ListCapacity(o, x)
BY MemberType, MonoqueAssumption DEF ListCapacity, Capacities

\* Blocks are added at the end of the list.
LEMMA Grown ==
    ASSUME NEW o, Member(o), NEW k \in Nat, NEW c \in Capacities,
           o.m_allocated_blocks + k <= c, o.m_capacity_blocks <= c,
           NEW new \in [1 .. k -> Blocks]
    PROVE  LET p == WithBlocks(o, new, k, c)
           IN  /\ Member(p) /\ p.m_size = o.m_size /\ p.freed = o.freed
               /\ p.m_allocated_blocks = o.m_allocated_blocks + k
               /\ p.m_capacity_blocks = c
               /\ \A i \in Live(o) : p.m_block_list[i] = o.m_block_list[i]
               /\ \A i \in 1 .. k : p.m_block_list[o.m_allocated_blocks + i - 1] = new[i]
<1> DEFINE n == o.m_allocated_blocks
           p == WithBlocks(o, new, k, c)
           l == [i \in 0 .. c - 1 |-> IF n <= i /\ i < n + k THEN new[i - n + 1]
                                      ELSE List(o, c)[i]]
<1>0. n \in Nat /\ o.m_capacity_blocks \in Nat /\ n <= o.m_capacity_blocks /\ c \in Nat
      /\ o.m_size \in Nat /\ n + k <= WordBits
  BY MemberType, MonoqueAssumption DEF Capacities
<1>1. /\ o \in Lists /\ o.m_block_list \in [0 .. o.m_capacity_blocks - 1 -> Blocks \cup {Null}]
      /\ o.m_size <= capacity(o)
  BY DEF Member
<1>2. l \in [0 .. c - 1 -> Blocks \cup {Null}]
  <2> SUFFICES ASSUME NEW i \in 0 .. c - 1 PROVE l[i] \in Blocks \cup {Null}
    OBVIOUS
  <2>1. CASE n <= i /\ i < n + k
    BY <1>0, <2>1
  <2>2. CASE ~(n <= i /\ i < n + k)
    BY <1>0, <1>1, <2>2 DEF List
  <2> QED
    BY <2>1, <2>2
<1>3. \A i \in Live(o) : l[i] = o.m_block_list[i]
  BY <1>0 DEF Live, List
<1>4. \A i \in 1 .. k : l[n + i - 1] = new[i]
  <2> SUFFICES ASSUME NEW i \in 1 .. k PROVE l[n + i - 1] = new[i]
    OBVIOUS
  <2> DEFINE x == n + i - 1
  <2>1. x \in 0 .. c - 1 /\ n <= x /\ x < n + k /\ x - n + 1 = i
    BY <1>0
  <2> HIDE DEF x
  <2>2. l[x] = new[x - n + 1]
    BY <2>1
  <2> QED
    BY <2>1, <2>2, Zenon DEF x
<1> HIDE DEF l
<1>5. p = [o EXCEPT !.m_capacity_blocks = c, !.m_allocated_blocks = n + k, !.m_block_list = l]
  BY DEF WithBlocks, l
<1>10. /\ n + k \in Nat /\ (n + k = n \/ n < n + k)
       /\ l \in UNION {[0 .. d - 1 -> Blocks \cup {Null}] : d \in Capacities}
  BY <1>0, <1>2
<1> HIDE DEF n, p
<1>6. /\ p \in Lists /\ p.m_size = o.m_size /\ p.freed = o.freed /\ p.m_allocated_blocks = n + k
      /\ p.m_capacity_blocks = c /\ p.m_block_list = l
  BY <1>1, <1>5, <1>10 DEF Lists
<1>7. CapacityOf(n) <= CapacityOf(n + k) /\ CapacityOf(n) \in Nat /\ CapacityOf(n + k) \in Nat
  <2>1. CapacityOf(n) \in Nat /\ CapacityOf(n + k) \in Nat
    BY <1>0, <1>10, CapacityGrows, Zenon
  <2>2. n < n + k => CapacityOf(n) < CapacityOf(n + k)
    BY <1>0, <1>10, CapacityGrows, Zenon
  <2>3. n + k = n => CapacityOf(n + k) = CapacityOf(n)
    BY Zenon
  <2> QED
    BY <1>10, <2>1, <2>2, <2>3
<1>8. p.m_size <= capacity(p)
  BY <1>0, <1>1, <1>6, <1>7 DEF capacity, n
<1>9. Member(p)
  BY <1>0, <1>2, <1>6, <1>8 DEF Member, n
<1> QED
  BY <1>3, <1>4, <1>6, <1>9 DEF p, n

\* Memory h, with new raw blocks for the places from the n-th on.
Enlarged(h, n, new, k) ==
    /\ Filled(h)
    /\ \A i \in 1 .. k : h[new[i]] = RawBlock(n + i - 1)
    /\ \A i \in 1 .. k : h[new[i]] \in Contents(n + i - 1)
    /\ \A b \in Blocks : (\A i \in 1 .. k : new[i] # b) => h[b] = heap[b]

\* New blocks of memory are raw, and the others what they were.
LEMMA NewMemory ==
    ASSUME NEW n \in Nat, NEW k \in Nat, n + k <= WordBits,
           NEW new \in [1 .. k -> FreeBlocks],
           \A i, j \in 1 .. k : new[i] = new[j] => i = j, Filled(heap)
    PROVE  Enlarged(HeapWith(n, new, k), n, new, k)
<1> DEFINE h == HeapWith(n, new, k)
<1>0. WordBits \in Nat
  BY MonoqueAssumption
<1>1. \A i \in Nat : RawBlock(i) \in Contents(i)
  BY DEF RawBlock, Contents
<1>2. \A b \in Blocks : (\A i \in 1 .. k : new[i] # b) => h[b] = heap[b]
  BY DEF HeapWith
<1>3. ASSUME NEW i \in 1 .. k
      PROVE  h[new[i]] = RawBlock(n + i - 1) /\ n + i - 1 \in 0 .. WordBits
  <2>1. new[i] \in Blocks
    BY DEF FreeBlocks
  <2>2. (CHOOSE j \in 1 .. k : new[j] = new[i]) = i
    OBVIOUS
  <2>3. h[new[i]] = RawBlock(n + (CHOOSE j \in 1 .. k : new[j] = new[i]) - 1)
    BY <2>1 DEF HeapWith
  <2> QED
    BY <1>0, <2>2, <2>3
<1>4. \A i \in 1 .. k : n + i - 1 \in Nat
  OBVIOUS
<1>5. h = [b \in Blocks |-> h[b]]
  BY DEF HeapWith
<1> HIDE DEF h
<1>6. \A b \in Blocks : h[b] \in {Free} \cup UNION {Contents(i) : i \in 0 .. WordBits}
  <2> SUFFICES ASSUME NEW b \in Blocks
               PROVE  h[b] \in {Free} \cup UNION {Contents(i) : i \in 0 .. WordBits}
    OBVIOUS
  <2>1. CASE \A i \in 1 .. k : new[i] # b
    BY <1>2, <2>1 DEF Filled
  <2>2. CASE \E i \in 1 .. k : new[i] = b
    BY <1>1, <1>3, <1>4, <2>2
  <2> QED
    BY <2>1, <2>2
<1> QED
  BY <1>1, <1>2, <1>3, <1>4, <1>5, <1>6 DEF Enlarged, Filled, h

-----------------------------------------------------------------------------
Members(ob) == ob \in [Names -> Lists] /\ \A m \in Names : Member(ob[m])

\* Places of a list are numbers up to the bits of size_t.
LEMMA LiveIndex ==
    ASSUME NEW ob, Members(ob)
    PROVE  \A m \in Names : \A i \in Live(ob[m]) : i \in Nat /\ i \in 0 .. WordBits
BY MemberType DEF Members, Live

\* A block has one place in one list.
LEMMA OnePlace ==
    ASSUME NEW ob, Single(ob), NEW x \in Names, NEW y \in Names,
           NEW i \in Live(ob[x]), NEW j \in Live(ob[y]),
           ob[x].m_block_list[i] = ob[y].m_block_list[j]
    PROVE  x = y /\ i = j
BY Zenon DEF Single

\* What is in use before an operation is there after it.
Kept(ob, h, ob2, h2) ==
    \A n \in Names : \A i \in Live(ob[n]) :
       /\ i \in Live(ob2[n])
       /\ ob2[n].m_block_list[i] = ob[n].m_block_list[i]
       /\ h2[ob[n].m_block_list[i]] = h[ob[n].m_block_list[i]]

\* The blocks of a list are not free.
LEMMA LiveNotFree ==
    ASSUME NEW ob, NEW h, Members(ob), Fitting(ob, h)
    PROVE  \A m \in Names : \A i \in Live(ob[m]) : h[ob[m].m_block_list[i]] # Free
BY LiveIndex, SlotsNotFree DEF Fitting

\* The lists ob and the memory h: those there are, and m has k new blocks.
Extended(ob, h, m, k, c) ==
    LET a == obj[m].m_allocated_blocks
    IN  /\ Members(ob) /\ Memory(ob, h, abandoned) /\ Kept(obj, heap, ob, h)
        /\ \A n \in Names : ob[n].m_size = obj[n].m_size /\ ob[n].freed = obj[n].freed
        /\ ob[m].m_allocated_blocks = a + k /\ ob[m].m_capacity_blocks = c
        /\ \A i \in 1 .. k : /\ ob[m].m_block_list[a + i - 1] = NewBlocks(k)[i]
                             /\ h[NewBlocks(k)[i]] = RawBlock(a + i - 1)

\* Adding blocks to a monoque shares out the memory as before.
LEMMA AddMemory ==
    ASSUME NEW m \in Names, NEW k \in Nat, NEW c \in Capacities,
           k <= Cardinality(FreeBlocks),
           obj[m].m_allocated_blocks + k <= c, obj[m].m_capacity_blocks <= c,
           Members(obj), Memory(obj, heap, abandoned)
    PROVE  Extended([obj EXCEPT ![m] = WithBlocks(@, NewBlocks(k), k, c)],
                    HeapWith(obj[m].m_allocated_blocks, NewBlocks(k), k), m, k, c)
<1> DEFINE new == NewBlocks(k)
           a == obj[m].m_allocated_blocks
           p == WithBlocks(obj[m], new, k, c)
           ob == [obj EXCEPT ![m] = p]
           h == HeapWith(a, new, k)
<1>1. /\ obj \in [Names -> Lists] /\ Member(obj[m]) /\ a \in Nat /\ WordBits \in Nat
      /\ Filled(heap) /\ Fitting(obj, heap) /\ Single(obj) /\ Lost(obj, heap, abandoned)
      /\ Accounted(obj, heap, abandoned)
  BY MemberType DEF Members, Memory
<1>2. /\ new \in [1 .. k -> FreeBlocks] /\ \A i, j \in 1 .. k : new[i] = new[j] => i = j
      /\ new \in [1 .. k -> Blocks]
  BY NewBlocksAre DEF FreeBlocks
<1>3. /\ Member(p) /\ p.m_size = obj[m].m_size /\ p.freed = obj[m].freed
      /\ p.m_allocated_blocks = a + k /\ p.m_capacity_blocks = c
      /\ \A i \in Live(obj[m]) : p.m_block_list[i] = obj[m].m_block_list[i]
      /\ \A i \in 1 .. k : p.m_block_list[a + i - 1] = new[i]
  <2> HIDE DEF new
  <2> QED
    BY <1>1, <1>2, Grown
<1>4. a + k <= WordBits
  BY <1>1, MonoqueAssumption DEF Capacities
<1>5. /\ Filled(h)
      /\ \A i \in 1 .. k : h[new[i]] = RawBlock(a + i - 1)
      /\ \A i \in 1 .. k : h[new[i]] \in Contents(a + i - 1)
      /\ \A b \in Blocks : (\A i \in 1 .. k : new[i] # b) => h[b] = heap[b]
  <2> HIDE DEF new, a
  <2>1. a + k <= WordBits /\ a \in Nat /\ new \in [1 .. k -> FreeBlocks] /\ Filled(heap)
    BY <1>1, <1>2, <1>4
  <2>2. \A i, j \in 1 .. k : new[i] = new[j] => i = j
    BY <1>2
  <2>3. Enlarged(h, a, new, k)
    BY <2>1, <2>2, NewMemory
  <2> QED
    BY <2>3 DEF Enlarged
<1> HIDE DEF new, p, h
<1>6. ob[m] = p /\ \A n \in Names \ {m} : ob[n] = obj[n]
  BY <1>1
<1>7. Members(ob)
  BY <1>1, <1>3 DEF Members, Member
<1>8. \A n \in Names : ob[n].m_size = obj[n].m_size /\ ob[n].freed = obj[n].freed
  BY <1>3, <1>6
<1> HIDE DEF ob
<1>9. \A n \in Names : \A i \in Live(obj[n]) :
        i \in Live(ob[n]) /\ ob[n].m_block_list[i] = obj[n].m_block_list[i]
  BY <1>1, <1>3, <1>6 DEF Live
<1>10. \A n \in Names : \A i \in Live(ob[n]) :
         \/ i \in Live(obj[n]) /\ ob[n].m_block_list[i] = obj[n].m_block_list[i]
         \/ n = m /\ \E j \in 1 .. k : i = a + j - 1 /\ ob[n].m_block_list[i] = new[j]
  <2> SUFFICES ASSUME NEW n \in Names, NEW i \in Live(ob[n]), i \notin Live(obj[n])
               PROVE  n = m /\ \E j \in 1 .. k : i = a + j - 1 /\ ob[n].m_block_list[i] = new[j]
    BY <1>9
  <2>1. n = m
    BY <1>6
  <2>2. i - a + 1 \in 1 .. k /\ i = a + (i - a + 1) - 1
    BY <1>1, <1>3, <1>6, <2>1 DEF Live
  <2> QED
    BY <1>3, <1>6, <2>1, <2>2
<1>11. \A j \in 1 .. k : new[j] \in Blocks /\ heap[new[j]] = Free
  BY <1>2 DEF FreeBlocks
<1>12. \A n \in Names : \A i \in Live(obj[n]) :
          /\ obj[n].m_block_list[i] \in Blocks
          /\ \A j \in 1 .. k : new[j] # obj[n].m_block_list[i]
  BY <1>1, <1>11, LiveNotFree DEF Fitting
<1>13. Kept(obj, heap, ob, h)
  BY <1>5, <1>9, <1>12 DEF Kept
<1>14. Fitting(ob, h)
  <2> SUFFICES ASSUME NEW n \in Names, NEW i \in Live(ob[n])
               PROVE  /\ ob[n].m_block_list[i] \in Blocks
                      /\ h[ob[n].m_block_list[i]] \in Contents(i)
    BY DEF Fitting
  <2>1. CASE i \in Live(obj[n]) /\ ob[n].m_block_list[i] = obj[n].m_block_list[i]
    BY <1>1, <1>13, <2>1 DEF Kept, Fitting
  <2>2. CASE n = m /\ \E j \in 1 .. k : i = a + j - 1 /\ ob[n].m_block_list[i] = new[j]
    BY <1>5, <1>11, <2>2
  <2> QED
    BY <1>10, <2>1, <2>2
<1>15. Single(ob)
  <2> SUFFICES ASSUME NEW x \in Names, NEW y \in Names,
                      NEW i \in Live(ob[x]), NEW j \in Live(ob[y]),
                      ob[x].m_block_list[i] = ob[y].m_block_list[j]
               PROVE  x = y /\ i = j
    BY DEF Single
  <2>1. CASE i \in Live(obj[x]) /\ ob[x].m_block_list[i] = obj[x].m_block_list[i]
    <3>1. CASE j \in Live(obj[y]) /\ ob[y].m_block_list[j] = obj[y].m_block_list[j]
      <4>1. obj[x].m_block_list[i] = obj[y].m_block_list[j]
        BY <2>1, <3>1
      <4> QED
        BY <1>1, <2>1, <3>1, <4>1, OnePlace
    <3>2. CASE y = m /\ \E l \in 1 .. k : j = a + l - 1 /\ ob[y].m_block_list[j] = new[l]
      <4>1. PICK l \in 1 .. k : ob[y].m_block_list[j] = new[l]
        BY <3>2
      <4>2. new[l] # obj[x].m_block_list[i]
        BY <1>12, <2>1
      <4> QED
        BY <2>1, <4>1, <4>2
    <3> QED
      BY <1>10, <3>1, <3>2
  <2>2. CASE x = m /\ \E l \in 1 .. k : i = a + l - 1 /\ ob[x].m_block_list[i] = new[l]
    <3>1. CASE j \in Live(obj[y]) /\ ob[y].m_block_list[j] = obj[y].m_block_list[j]
      BY <1>12, <2>2, <3>1
    <3>2. CASE y = m /\ \E l \in 1 .. k : j = a + l - 1 /\ ob[y].m_block_list[j] = new[l]
      BY <1>2, <2>2, <3>2
    <3> QED
      BY <1>10, <3>1, <3>2
  <2> QED
    BY <1>10, <2>1, <2>2
<1>16. \A b \in Blocks : heap[b] # Free => h[b] = heap[b]
  BY <1>5, <1>11
<1>17. Lost(ob, h, abandoned)
  <2>1. abandoned \subseteq Blocks /\ \A b \in abandoned : heap[b] # Free
    BY <1>1 DEF Lost
  <2>2. \A b \in abandoned : h[b] # Free
    BY <1>16, <2>1
  <2>3. ASSUME NEW n \in Names, NEW i \in Live(ob[n])
        PROVE  ob[n].m_block_list[i] \notin abandoned
    BY <1>1, <1>10, <1>11, <2>1 DEF Lost
  <2> QED
    BY <2>1, <2>2, <2>3 DEF Lost
<1>18. Accounted(ob, h, abandoned)
  <2> SUFFICES ASSUME NEW b \in Blocks, h[b] # Free
               PROVE  b \in abandoned \/ \E n \in Names : \E i \in Live(ob[n]) :
                                            b = ob[n].m_block_list[i]
    BY DEF Accounted
  <2>1. CASE \E j \in 1 .. k : new[j] = b
    <3>1. PICK j \in 1 .. k : new[j] = b
      BY <2>1
    <3>2. a + j - 1 \in Live(ob[m]) /\ ob[m].m_block_list[a + j - 1] = b
      BY <1>1, <1>3, <1>6, <3>1 DEF Live
    <3> QED
      BY <3>2
  <2>2. CASE \A j \in 1 .. k : new[j] # b
    <3>1. heap[b] # Free
      BY <1>5, <2>2
    <3> QED
      BY <1>1, <1>9, <3>1 DEF Accounted
  <2> QED
    BY <2>1, <2>2
<1> QED
  BY <1>3, <1>5, <1>6, <1>7, <1>8, <1>13, <1>14, <1>15, <1>17, <1>18
     DEF Extended, Memory, ob, p, h, new

-----------------------------------------------------------------------------
(* The elements.                                                           *)

ReadIn(h, o, i) == h[o.m_block_list[index1[i]]][index2[i]]

\* The slots of a monoque's elements.
LEMMA Slot ==
    ASSUME NEW ob, Members(ob), NEW m \in Names, NEW i \in Nat, i < capacity(ob[m])
    PROVE  /\ index1[i] \in Live(ob[m])
           /\ index2[i] \in 0 .. size_of_block(index1[i]) - 1
<1>1. Member(ob[m]) /\ ob[m].m_allocated_blocks \in 0 .. WordBits
  BY MemberType DEF Members
<1>2. i < CapacityOf(ob[m].m_allocated_blocks)
  BY DEF capacity
<1> QED
  BY <1>1, <1>2, Where DEF Live

\* Where the blocks are kept, the elements are, and at their addresses.
LEMMA KeptReads ==
    ASSUME NEW ob, NEW h, NEW ob2, NEW h2, Members(ob), Kept(ob, h, ob2, h2)
    PROVE  \A n \in Names, i \in Nat : i < capacity(ob[n]) =>
              /\ ReadIn(h2, ob2[n], i) = ReadIn(h, ob[n], i)
              /\ Address(ob2[n], i) = Address(ob[n], i)
<1> SUFFICES ASSUME NEW n \in Names, NEW i \in Nat, i < capacity(ob[n])
             PROVE  /\ ReadIn(h2, ob2[n], i) = ReadIn(h, ob[n], i)
                    /\ Address(ob2[n], i) = Address(ob[n], i)
  OBVIOUS
<1>1. index1[i] \in Live(ob[n])
  BY Slot
<1> QED
  BY <1>1 DEF Kept, ReadIn, Address

\* Writing one element changes no other one.
Written(ob, h, ab, m, i, v, h2) ==
    /\ Memory(ob, h2, ab)
    /\ ReadIn(h2, ob[m], i) = v
    /\ \A n \in Names, j \in Nat : j < capacity(ob[n]) /\ (n # m \/ j # i) =>
          ReadIn(h2, ob[n], j) = ReadIn(h, ob[n], j)

\* Writing an element changes neither what is owned nor another element.
LEMMA WriteMemory ==
    ASSUME NEW ob, NEW h, NEW ab, Members(ob), Memory(ob, h, ab),
           NEW m \in Names, NEW i \in Nat, i < capacity(ob[m]), NEW v \in Values \cup {Raw}
    PROVE  Written(ob, h, ab, m, i, v,
                   [h EXCEPT ![ob[m].m_block_list[index1[i]]][index2[i]] = v])
<1> DEFINE b == ob[m].m_block_list[index1[i]]
           s == index2[i]
           c == [h[b] EXCEPT ![s] = v]
           h2 == [h EXCEPT ![b] = c]
<1>1. Filled(h) /\ Fitting(ob, h) /\ Single(ob) /\ Lost(ob, h, ab) /\ Accounted(ob, h, ab)
  BY DEF Memory
<1>2. index1[i] \in Live(ob[m]) /\ s \in 0 .. size_of_block(index1[i]) - 1
  BY Slot
<1>3. b \in Blocks /\ h[b] \in Contents(index1[i]) /\ index1[i] \in 0 .. WordBits
  BY <1>1, <1>2, LiveIndex DEF Fitting
<1>4. /\ c \in Contents(index1[i]) /\ c[s] = v
      /\ \A t \in 0 .. size_of_block(index1[i]) - 1 : t # s => c[t] = h[b][t]
  BY <1>2, <1>3 DEF Contents
<1>5. c # Free /\ h[b] # Free
  BY <1>3, <1>4, SlotsNotFree
<1> HIDE DEF b, s, c
<1>6. /\ h2 \in [Blocks -> {Free} \cup UNION {Contents(l) : l \in 0 .. WordBits}]
      /\ h2[b] = c /\ \A d \in Blocks : d # b => h2[d] = h[d]
  BY <1>1, <1>3, <1>4 DEF Filled
<1> HIDE DEF h2
<1>7. \A n \in Names : \A l \in Live(ob[n]) :
         ob[n].m_block_list[l] = b => n = m /\ l = index1[i]
  BY <1>1, <1>2 DEF Single, b
<1>8. Fitting(ob, h2)
  <2> SUFFICES ASSUME NEW n \in Names, NEW l \in Live(ob[n])
               PROVE  /\ ob[n].m_block_list[l] \in Blocks
                      /\ h2[ob[n].m_block_list[l]] \in Contents(l)
    BY DEF Fitting
  <2>1. ob[n].m_block_list[l] \in Blocks /\ h[ob[n].m_block_list[l]] \in Contents(l)
    BY <1>1 DEF Fitting
  <2>2. CASE ob[n].m_block_list[l] = b
    BY <1>4, <1>6, <1>7, <2>1, <2>2
  <2>3. CASE ob[n].m_block_list[l] # b
    BY <1>6, <2>1, <2>3
  <2> QED
    BY <2>2, <2>3
<1>9. Lost(ob, h2, ab) /\ Accounted(ob, h2, ab)
  BY <1>1, <1>5, <1>6 DEF Lost, Accounted
<1>10. Memory(ob, h2, ab)
  BY <1>1, <1>6, <1>8, <1>9 DEF Memory, Filled
<1>11. ReadIn(h2, ob[m], i) = v
  BY <1>4, <1>6 DEF ReadIn, b, s
<1>12. ASSUME NEW n \in Names, NEW j \in Nat, j < capacity(ob[n]), n # m \/ j # i
       PROVE  ReadIn(h2, ob[n], j) = ReadIn(h, ob[n], j)
  <2> DEFINE d == ob[n].m_block_list[index1[j]]
  <2>1. index1[j] \in Live(ob[n]) /\ index2[j] \in 0 .. size_of_block(index1[j]) - 1
    BY <1>12, Slot
  <2>2. d \in Blocks
    BY <1>1, <2>1 DEF Fitting
  <2>3. CASE d # b
    BY <1>6, <2>2, <2>3 DEF ReadIn
  <2>4. CASE d = b
    <3>1. n = m /\ index1[j] = index1[i]
      BY <1>7, <2>1, <2>4
    <3>2. index2[j] # s
      <4>1. ob[m].m_allocated_blocks \in 0 .. WordBits
        BY MemberType DEF Members
      <4>2. i < CapacityOf(ob[m].m_allocated_blocks) /\ j < CapacityOf(ob[m].m_allocated_blocks)
        BY <1>12, <3>1 DEF capacity
      <4> QED
        BY <1>12, <3>1, <4>1, <4>2, Apart DEF s
    <3>3. h2[b][index2[j]] = h[b][index2[j]]
      BY <1>4, <1>6, <2>1, <3>1, <3>2
    <3> QED
      BY <2>4, <3>3 DEF ReadIn
  <2> QED
    BY <2>3, <2>4
<1> QED
  BY <1>10, <1>11, <1>12 DEF Written, h2, b, s, c

-----------------------------------------------------------------------------
(* Giving blocks back, losing them, and handing them over.                 *)

\* The blocks of m that its members p do without are given back.
Reduced(ob, h) == Members(ob) /\ Memory(ob, h, abandoned) /\ Kept(ob, h, ob, heap)

\* Giving blocks of one list back takes none from another.
LEMMA RemoveMemory ==
    ASSUME NEW m \in Names, NEW p, Member(p), Members(obj), Memory(obj, heap, abandoned),
           p.m_allocated_blocks <= obj[m].m_allocated_blocks,
           \A i \in Live(p) : p.m_block_list[i] = obj[m].m_block_list[i]
    PROVE  Reduced([obj EXCEPT ![m] = p],
                   [b \in Blocks |-> IF b \in RemovedBlocks(obj[m], p.m_allocated_blocks)
                                     THEN Free ELSE heap[b]])
<1> DEFINE k == p.m_allocated_blocks
           ob == [obj EXCEPT ![m] = p]
           R == RemovedBlocks(obj[m], k)
           h == [b \in Blocks |-> IF b \in R THEN Free ELSE heap[b]]
<1>1. /\ Filled(heap) /\ Fitting(obj, heap) /\ Single(obj) /\ Lost(obj, heap, abandoned)
      /\ Accounted(obj, heap, abandoned) /\ k \in Nat /\ obj[m].m_allocated_blocks \in Nat
      /\ obj \in [Names -> Lists] /\ p \in Lists
  BY MemberType DEF Memory, Members, Member
<1>2. ob[m] = p /\ \A n \in Names : n # m => ob[n] = obj[n]
  BY <1>1
<1>3. Members(ob)
  BY <1>1, <1>2 DEF Members
<1>4. /\ h \in [Blocks -> {Free} \cup UNION {Contents(i) : i \in 0 .. WordBits}]
      /\ \A b \in Blocks : h[b] = IF b \in R THEN Free ELSE heap[b]
  BY <1>1 DEF Filled
<1> HIDE DEF ob, h
<1>5. \A n \in Names : \A i \in Live(ob[n]) :
         /\ i \in Live(obj[n]) /\ ob[n].m_block_list[i] = obj[n].m_block_list[i]
         /\ n = m => i < k
  BY <1>1, <1>2 DEF Live
<1>6. R = {obj[m].m_block_list[i] : i \in k .. obj[m].m_allocated_blocks - 1}
  BY DEF RemovedBlocks
<1> HIDE DEF R
<1>7. \A n \in Names : \A i \in Live(ob[n]) : ob[n].m_block_list[i] \notin R
  <2> SUFFICES ASSUME NEW n \in Names, NEW i \in Live(ob[n]),
                      NEW j \in k .. obj[m].m_allocated_blocks - 1,
                      ob[n].m_block_list[i] = obj[m].m_block_list[j]
               PROVE  FALSE
    BY <1>6
  <2>1. j \in Live(obj[m])
    BY <1>1 DEF Live
  <2>2. i \in Live(obj[n]) /\ obj[n].m_block_list[i] = obj[m].m_block_list[j]
    BY <1>5
  <2>3. n = m /\ i = j
    BY <1>1, <2>1, <2>2, OnePlace
  <2> QED
    BY <1>1, <1>5, <2>3
<1>8. \A n \in Names : \A i \in Live(ob[n]) :
         /\ ob[n].m_block_list[i] \in Blocks
         /\ h[ob[n].m_block_list[i]] = heap[ob[n].m_block_list[i]]
  BY <1>1, <1>4, <1>5, <1>7 DEF Fitting
<1>9. Fitting(ob, h)
  BY <1>1, <1>5, <1>8 DEF Fitting
<1>10. Kept(ob, h, ob, heap)
  BY <1>8 DEF Kept
<1>11. Single(ob)
  <2> SUFFICES ASSUME NEW x \in Names, NEW y \in Names,
                      NEW i \in Live(ob[x]), NEW j \in Live(ob[y]),
                      ob[x].m_block_list[i] = ob[y].m_block_list[j]
               PROVE  x = y /\ i = j
    BY DEF Single
  <2>1. /\ i \in Live(obj[x]) /\ j \in Live(obj[y])
        /\ obj[x].m_block_list[i] = obj[y].m_block_list[j]
    BY <1>5
  <2> QED
    BY <1>1, <2>1, OnePlace
<1>12. \A b \in R : b \notin abandoned
  <2>1. \A i \in k .. obj[m].m_allocated_blocks - 1 : i \in Live(obj[m])
    BY <1>1 DEF Live
  <2> QED
    BY <1>1, <1>6, <2>1 DEF Lost
<1>13. Lost(ob, h, abandoned)
  BY <1>1, <1>4, <1>5, <1>12 DEF Lost
<1>14. Accounted(ob, h, abandoned)
  <2> SUFFICES ASSUME NEW b \in Blocks, h[b] # Free, b \notin abandoned
               PROVE  \E n \in Names : \E i \in Live(ob[n]) : b = ob[n].m_block_list[i]
    BY DEF Accounted
  <2>1. heap[b] # Free /\ b \notin R
    BY <1>4
  <2>2. PICK n \in Names, i \in Nat : i \in Live(obj[n]) /\ b = obj[n].m_block_list[i]
    BY <1>1, <2>1, LiveIndex DEF Accounted
  <2>3. CASE n # m
    BY <1>2, <2>2, <2>3
  <2>4. CASE n = m
    <3>1. i \notin k .. obj[m].m_allocated_blocks - 1
      BY <1>6, <2>1, <2>2, <2>4
    <3>2. i \in Live(p)
      BY <1>1, <2>2, <2>4, <3>1 DEF Live
    <3> QED
      BY <1>2, <2>2, <2>4, <3>2
  <2> QED
    BY <2>3, <2>4
<1> QED
  BY <1>3, <1>4, <1>9, <1>10, <1>11, <1>13, <1>14 DEF Reduced, Memory, Filled, ob, h, R

-----------------------------------------------------------------------------
\* A monoque without a block list is one.
LEMMA EmptyMember == Member(Empty) /\ Live(Empty) = {} /\ Empty \in Lists
<1>1. 0 \in Capacities /\ 0 .. 0 - 1 = {}
  BY DEF Capacities
<1>2. <<>> \in [0 .. 0 - 1 -> Blocks \cup {Null}]
  BY <1>1
<1> QED
  BY <1>1, <1>2, CapacityGrows DEF Empty, Member, Lists, capacity, Live

\* The blocks of m are lost: it has gone without giving them back.
LEMMA LoseMemory ==
    ASSUME NEW m \in Names, NEW ob, NEW h, NEW ab, Members(ob), Memory(ob, h, ab)
    PROVE  LET ob2 == [ob EXCEPT ![m] = Empty]
           IN  /\ Members(ob2)
               /\ Memory(ob2, h, ab \cup {ob[m].m_block_list[i] : i \in Live(ob[m])})
<1> DEFINE ob2 == [ob EXCEPT ![m] = Empty]
           R == {ob[m].m_block_list[i] : i \in Live(ob[m])}
<1>1. /\ Filled(h) /\ Fitting(ob, h) /\ Single(ob) /\ Lost(ob, h, ab) /\ Accounted(ob, h, ab)
      /\ ob \in [Names -> Lists]
  BY DEF Memory, Members
<1>2. ob2[m] = Empty /\ (\A n \in Names : n # m => ob2[n] = ob[n]) /\ Members(ob2)
  BY <1>1, EmptyMember DEF Members
<1> HIDE DEF ob2, R
<1>3. \A n \in Names : \A i \in Live(ob2[n]) : n # m /\ ob2[n] = ob[n]
  BY <1>2, EmptyMember
<1>4. R \subseteq Blocks /\ \A b \in R : h[b] # Free
  BY <1>1, LiveNotFree DEF R, Fitting
<1>5. ASSUME NEW n \in Names, NEW i \in Live(ob2[n]) PROVE ob2[n].m_block_list[i] \notin R
  <2> SUFFICES ASSUME NEW j \in Live(ob[m]), ob[n].m_block_list[i] = ob[m].m_block_list[j]
               PROVE  FALSE
    BY <1>3 DEF R
  <2>1. i \in Live(ob[n]) /\ n # m
    BY <1>3
  <2> QED
    BY <1>1, <2>1, OnePlace
<1>6. Fitting(ob2, h) /\ Single(ob2)
  <2>1. Fitting(ob2, h)
    BY <1>1, <1>3 DEF Fitting
  <2>2. Single(ob2)
    BY <1>1, <1>3 DEF Single
  <2> QED
    BY <2>1, <2>2
<1>7. Lost(ob2, h, ab \cup R)
  BY <1>1, <1>3, <1>4, <1>5 DEF Lost
<1>8. Accounted(ob2, h, ab \cup R)
  <2> SUFFICES ASSUME NEW b \in Blocks, h[b] # Free, b \notin ab, b \notin R
               PROVE  \E n \in Names : \E i \in Live(ob2[n]) : b = ob2[n].m_block_list[i]
    BY DEF Accounted
  <2>1. PICK n \in Names : \E i \in Live(ob[n]) : b = ob[n].m_block_list[i]
    BY <1>1 DEF Accounted
  <2>2. n # m
    BY <2>1 DEF R
  <2> QED
    BY <1>2, <2>1, <2>2
<1> QED
  BY <1>1, <1>2, <1>6, <1>7, <1>8 DEF Memory, ob2, R

\* Swapping two lists shares out the memory as before.
LEMMA SwapMemory ==
    ASSUME NEW m \in Names, NEW n \in Names, m # n, NEW ob, NEW h, NEW ab,
           Members(ob), Memory(ob, h, ab)
    PROVE  LET ob2 == [ob EXCEPT ![m] = ob[n], ![n] = ob[m]]
           IN  Members(ob2) /\ Memory(ob2, h, ab)
<1> DEFINE ob2 == [ob EXCEPT ![m] = ob[n], ![n] = ob[m]]
           p(x) == IF x = m THEN n ELSE IF x = n THEN m ELSE x
<1>1. /\ Filled(h) /\ Fitting(ob, h) /\ Single(ob) /\ Lost(ob, h, ab) /\ Accounted(ob, h, ab)
      /\ ob \in [Names -> Lists]
  BY DEF Memory, Members
<1>2. \A x \in Names : p(x) \in Names /\ ob2[x] = ob[p(x)] /\ p(p(x)) = x
  BY <1>1
<1>3. Members(ob2)
  BY <1>1, <1>2 DEF Members
<1> HIDE DEF ob2, p
<1>4. Fitting(ob2, h)
  BY <1>1, <1>2 DEF Fitting
<1>5. Single(ob2)
  <2> SUFFICES ASSUME NEW x \in Names, NEW y \in Names,
                      NEW i \in Live(ob2[x]), NEW j \in Live(ob2[y]),
                      ob2[x].m_block_list[i] = ob2[y].m_block_list[j]
               PROVE  x = y /\ i = j
    BY DEF Single
  <2>1. PICK u \in Names, v \in Names : u = p(x) /\ v = p(y)
    BY <1>2
  <2>2. /\ i \in Live(ob[u]) /\ j \in Live(ob[v])
        /\ ob[u].m_block_list[i] = ob[v].m_block_list[j]
    BY <1>2, <2>1
  <2>3. u = v /\ i = j
    BY <1>1, <2>2, OnePlace
  <2> QED
    BY <1>2, <2>1, <2>3
<1>6. Lost(ob2, h, ab)
  BY <1>1, <1>2 DEF Lost
<1>7. Accounted(ob2, h, ab)
  <2> SUFFICES ASSUME NEW b \in Blocks, h[b] # Free, b \notin ab
               PROVE  \E x \in Names : \E i \in Live(ob2[x]) : b = ob2[x].m_block_list[i]
    BY DEF Accounted
  <2>1. PICK x \in Names : \E i \in Live(ob[x]) : b = ob[x].m_block_list[i]
    BY <1>1 DEF Accounted
  <2>2. p(x) \in Names /\ ob2[p(x)] = ob[x]
    BY <1>2
  <2> QED
    BY <2>1, <2>2
<1> QED
  BY <1>1, <1>3, <1>4, <1>5, <1>6, <1>7 DEF Memory, ob2

\* A change of the size alone.
Resized(ob, h, ab, m, s, ob2) ==
    /\ Members(ob2) /\ Memory(ob2, h, ab) /\ Kept(ob, h, ob2, h)
    /\ ob2[m].m_size = s /\ \A n \in Names : n # m => ob2[n] = ob[n]

\* A size within the capacity changes nothing of the memory.
LEMMA SizeMemory ==
    ASSUME NEW m \in Names, NEW ob, NEW h, NEW ab, Members(ob), Memory(ob, h, ab),
           NEW s \in Nat, s <= capacity(ob[m])
    PROVE  Resized(ob, h, ab, m, s, [ob EXCEPT ![m].m_size = s])
<1> DEFINE p == [ob[m] EXCEPT !.m_size = s]
           ob2 == [ob EXCEPT ![m] = p]
<1>1. /\ Filled(h) /\ Fitting(ob, h) /\ Single(ob) /\ Lost(ob, h, ab) /\ Accounted(ob, h, ab)
      /\ ob \in [Names -> Lists] /\ Member(ob[m]) /\ ob[m] \in Lists
  BY DEF Memory, Members
<1>2. /\ p \in Lists /\ p.m_size = s /\ p.m_block_list = ob[m].m_block_list
      /\ p.m_allocated_blocks = ob[m].m_allocated_blocks
      /\ p.m_capacity_blocks = ob[m].m_capacity_blocks
  BY <1>1 DEF Lists
<1> HIDE DEF p
<1>3. Member(p) /\ Live(p) = Live(ob[m])
  BY <1>1, <1>2 DEF Member, capacity, Live
<1>4. \A n \in Names : Live(ob2[n]) = Live(ob[n]) /\ ob2[n].m_block_list = ob[n].m_block_list
  BY <1>1, <1>2, <1>3
<1>5. Members(ob2) /\ ob2[m].m_size = s /\ \A n \in Names : n # m => ob2[n] = ob[n]
  BY <1>1, <1>2, <1>3 DEF Members
<1> HIDE DEF ob2
<1>6. Fitting(ob2, h)
  BY <1>1, <1>4 DEF Fitting
<1>7. Single(ob2)
  <2> SUFFICES ASSUME NEW x \in Names, NEW y \in Names,
                      NEW i \in Live(ob2[x]), NEW j \in Live(ob2[y]),
                      ob2[x].m_block_list[i] = ob2[y].m_block_list[j]
               PROVE  x = y /\ i = j
    BY DEF Single
  <2>1. /\ i \in Live(ob[x]) /\ j \in Live(ob[y])
        /\ ob[x].m_block_list[i] = ob[y].m_block_list[j]
    BY <1>4
  <2> QED
    BY <1>1, <2>1, OnePlace
<1>8. Lost(ob2, h, ab) /\ Accounted(ob2, h, ab) /\ Kept(ob, h, ob2, h)
  BY <1>1, <1>4 DEF Lost, Accounted, Kept
<1> QED
  BY <1>1, <1>5, <1>6, <1>7, <1>8 DEF Resized, Memory, ob2, p

-----------------------------------------------------------------------------
(* The inductive invariant: the lists share out the memory; the elements   *)
(* are within their bound and have been constructed; a monoque that is not *)
(* there owns nothing; and at most one is being copied, from one that is   *)
(* there and whose first elements it has by now.                           *)

Sized == \A m \in Names : obj[m].m_size \in Sizes
Constructed == \A m \in Names, i \in Nat :
                  i < obj[m].m_size => ReadIn(heap, obj[m], i) \in Values
Lifetimes == /\ lifetime \in [Names -> {"none", "alive"} \cup Names]
             /\ \A m \in Names : lifetime[m] = "none" => obj[m] = Empty
Copying(m, other) ==
    /\ other \in Names /\ lifetime[other] = "alive"
    /\ \A n \in Names : lifetime[n] \in Names => n = m
    /\ obj[m].m_size <= obj[other].m_size
    /\ \A i \in Nat : i < obj[m].m_size =>
          ReadIn(heap, obj[m], i) = ReadIn(heap, obj[other], i)
Copies == \A m \in Names : lifetime[m] \in Names => Copying(m, lifetime[m])

Stored == Members(obj) /\ Memory(obj, heap, abandoned) /\ Sized
Inv == Stored /\ Constructed /\ Lifetimes /\ Copies

\* What an operation on one monoque leaves of another.
SameElements(n) ==
    /\ obj'[n].m_size = obj[n].m_size
    /\ \A i \in Nat : i < obj[n].m_size =>
          /\ ReadIn(heap', obj'[n], i) = ReadIn(heap, obj[n], i)
          /\ Address(obj'[n], i) = Address(obj[n], i)

\* The members of a monoque are numbers within their bounds.
LEMMA StoredType ==
    ASSUME Stored, NEW m \in Names
    PROVE  /\ Member(obj[m]) /\ obj[m].m_size \in Nat /\ obj[m].m_size \in 0 .. MaxSize
           /\ obj[m].m_size <= capacity(obj[m]) /\ capacity(obj[m]) \in Nat
           /\ obj[m].m_allocated_blocks \in Nat /\ obj[m].m_allocated_blocks <= WordBits
           /\ obj[m].m_capacity_blocks \in Nat /\ WordBits \in Nat /\ MaxSize \in Nat
<1>1. Member(obj[m]) /\ obj[m].m_size \in 0 .. MaxSize
  BY DEF Stored, Members, Sized, Sizes
<1>2. capacity(obj[m]) \in Nat
  BY <1>1, MemberType, CapacityGrows DEF capacity
<1> QED
  BY <1>1, <1>2, MemberType, MonoqueAssumption DEF Member

\* A full monoque has room for one block more.
LEMMA Room ==
    ASSUME Stored, NEW m \in Names
    PROVE  /\ Needed(m) \in {0, 1}
           /\ obj[m].m_allocated_blocks + Needed(m) <= WordBits
           /\ Needed(m) = 0 => obj[m].m_size < capacity(obj[m])
<1> DEFINE a == obj[m].m_allocated_blocks
           size == obj[m].m_size
<1>1. /\ size \in Nat /\ size <= MaxSize /\ a \in Nat /\ a <= WordBits /\ WordBits - 1 \in Nat
      /\ size <= CapacityOf(a) /\ CapacityOf(a) \in Nat /\ MaxSize \in Nat /\ WordBits \in Nat
      /\ WordBits - 1 # 0
  BY StoredType, MonoqueAssumption DEF capacity
<1>2. CASE size = CapacityOf(a)
  <2>1. Needed(m) = 1
    BY <1>2 DEF Needed, capacity
  <2>2. CapacityOf(WordBits - 1) = 2 ^ (WordBits - 1)
    BY <1>1, CapacityGrows
  <2>3. 2 ^ (WordBits - 1) \in Nat
    BY <1>1, Positive
  <2>4. size < CapacityOf(WordBits - 1)
    BY <1>1, <2>2, <2>3, MonoqueAssumption
  <2>5. WordBits - 1 < a => CapacityOf(WordBits - 1) < CapacityOf(a)
    BY <1>1, CapacityGrows, Zenon
  <2>6. WordBits - 1 = a => CapacityOf(WordBits - 1) = CapacityOf(a)
    BY Zenon
  <2>7. a < WordBits - 1
    BY <1>1, <1>2, <2>2, <2>3, <2>4, <2>5, <2>6
  <2> QED
    BY <1>1, <2>1, <2>7
<1>3. CASE size # CapacityOf(a)
  BY <1>1, <1>3 DEF Needed, capacity
<1> QED
  BY <1>2, <1>3

\* Where the blocks are kept and the size is, the elements are the same.
LEMMA KeptElements ==
    ASSUME Stored, Kept(obj, heap, obj', heap'), NEW n \in Names,
           obj'[n].m_size = obj[n].m_size
    PROVE  SameElements(n)
<1>1. /\ Members(obj) /\ obj[n].m_size \in Nat /\ obj[n].m_size <= capacity(obj[n])
      /\ capacity(obj[n]) \in Nat
  BY StoredType DEF Stored
<1>2. \A i \in Nat : i < capacity(obj[n]) =>
              /\ ReadIn(heap', obj'[n], i) = ReadIn(heap, obj[n], i)
              /\ Address(obj'[n], i) = Address(obj[n], i)
  BY <1>1, KeptReads
<1> QED
  BY <1>1, <1>2 DEF SameElements

\* reserve and a failed emplace_back leave every element.
LEMMA AddBlocksEffect ==
    ASSUME Stored, NEW m \in Names, NEW needed \in Nat,
           obj[m].m_allocated_blocks + needed <= WordBits,
           AddBlocks(m, needed)
    PROVE  /\ Members(obj') /\ Memory(obj', heap', abandoned)
           /\ \A n \in Names : SameElements(n)
           /\ \A n \in Names : n # m => obj'[n] = obj[n]
<1> DEFINE a == obj[m].m_allocated_blocks
<1>1. PICK k \in 0 .. needed, c \in Capacities :
         /\ Added(m, needed, k, c)
         /\ obj' = [obj EXCEPT ![m] = WithBlocks(@, NewBlocks(k), k, c)]
         /\ heap' = HeapWith(a, NewBlocks(k), k)
  BY DEF AddBlocks
<1>2. Member(obj[m]) /\ a \in Nat /\ WordBits \in Nat /\ obj[m].m_capacity_blocks \in Nat
  BY StoredType
<1>3. /\ k \in Nat /\ k <= Cardinality(FreeBlocks)
      /\ \E x \in Nat : a + k <= x /\ x <= WordBits /\ c = ListCapacity(obj[m], x)
  <2>1. k \in Nat /\ a + k \in Nat /\ a + k <= WordBits
    BY <1>2
  <2>2. CASE k = needed /\ c = ListCapacity(obj[m], a + k)
    BY <1>1, <2>1, <2>2 DEF Added
  <2>3. CASE k < needed /\ c \in {ListCapacity(obj[m], a + k), ListCapacity(obj[m], a + k + 1)}
    <3>1. a + k + 1 \in Nat /\ a + k + 1 <= WordBits
      BY <1>2, <2>1, <2>3
    <3> QED
      BY <1>1, <2>1, <2>3, <3>1 DEF Added
  <2> QED
    BY <1>1, <2>2, <2>3 DEF Added
<1>4. a + k <= c /\ obj[m].m_capacity_blocks <= c /\ c \in Nat
  <2>1. PICK x \in Nat : a + k <= x /\ x <= WordBits /\ c = ListCapacity(obj[m], x)
    BY <1>3
  <2>2. x <= c /\ obj[m].m_capacity_blocks <= c
    BY <1>2, <2>1, ListLong
  <2>3. c \in Nat
    BY <1>2, MonoqueAssumption DEF Capacities
  <2> QED
    BY <1>2, <1>3, <2>1, <2>2, <2>3
<1>5. /\ Members(obj') /\ Memory(obj', heap', abandoned) /\ Kept(obj, heap, obj', heap')
      /\ \A n \in Names : obj'[n].m_size = obj[n].m_size
  <2>1. Extended(obj', heap', m, k, c)
    BY <1>1, <1>3, <1>4, AddMemory DEF Stored
  <2> QED
    BY <2>1 DEF Extended
<1>6. obj \in [Names -> Lists]
  BY DEF Stored, Members
<1> QED
  BY <1>1, <1>5, <1>6, KeptElements

-----------------------------------------------------------------------------
(* What each operation does to the elements.                               *)

\* m has one element more, the others what they had.
OneMore(m, v) ==
    /\ Members(obj') /\ Memory(obj', heap', abandoned)
    /\ \A n \in Names : n # m => SameElements(n) /\ obj'[n] = obj[n]
    /\ obj'[m].m_size = obj[m].m_size + 1 /\ obj'[m].m_size \in Sizes
    /\ \A i \in Nat : i < obj[m].m_size =>
          /\ ReadIn(heap', obj'[m], i) = ReadIn(heap, obj[m], i)
          /\ Address(obj'[m], i) = Address(obj[m], i)
    /\ ReadIn(heap', obj'[m], obj[m].m_size) = v

\* emplace_back adds one element, and leaves every other one.
LEMMA AppendedEffect ==
    ASSUME Stored, NEW m \in Names, NEW v \in Values, Appended(m, v)
    PROVE  OneMore(m, v)
<1> DEFINE o == obj[m]
           a == o.m_allocated_blocks
           k == Needed(m)
           c == ListCapacity(o, a + k)
           p == WithBlocks(o, NewBlocks(k), k, c)
           h1 == HeapWith(a, NewBlocks(k), k)
           ob1 == [obj EXCEPT ![m] = p]
           s == o.m_size
           b == p.m_block_list[index1[s]]
           ob2 == [ob1 EXCEPT ![m].m_size = s + 1]
           h2 == [h1 EXCEPT ![b][index2[s]] = v]
<1>1. /\ Member(o) /\ a \in Nat /\ s \in Nat /\ s <= capacity(o) /\ capacity(o) \in Nat
      /\ WordBits \in Nat /\ MaxSize \in Nat /\ obj \in [Names -> Lists]
  BY StoredType DEF Stored, Members
<1>2. k \in {0, 1} /\ a + k <= WordBits /\ (k = 0 => s < capacity(o))
  BY Room
<1>3. /\ s < MaxSize /\ k <= Cardinality(FreeBlocks)
      /\ obj' = [obj EXCEPT ![m] = [p EXCEPT !.m_size = @ + 1]]
      /\ heap' = h2
  BY DEF Appended
<1>4. c \in Capacities /\ a + k <= c /\ o.m_capacity_blocks <= c
  <2>1. a + k \in Nat
    BY <1>1, <1>2
  <2> QED
    BY <1>1, <1>2, <2>1, ListLong
<1>5. Extended(ob1, h1, m, k, c)
  BY <1>2, <1>3, <1>4, AddMemory DEF Stored
<1> HIDE DEF c, p, h1, k
<1>6. ob1[m] = p /\ \A n \in Names : n # m => ob1[n] = obj[n]
  BY <1>1
<1>7. /\ Members(ob1) /\ Memory(ob1, h1, abandoned) /\ Kept(obj, heap, ob1, h1)
      /\ p.m_size = s /\ p.m_allocated_blocks = a + k /\ p \in Lists
  <2>1. Members(ob1) /\ ob1[m].m_size = s /\ ob1[m].m_allocated_blocks = a + k
    BY <1>5 DEF Extended
  <2>2. ob1[m] \in Lists
    BY <2>1 DEF Members
  <2> QED
    BY <1>5, <1>6, <2>1, <2>2 DEF Extended
<1>8. ob2 = obj'
  <2>1. [p EXCEPT !.m_size = @ + 1] = [p EXCEPT !.m_size = s + 1]
    BY <1>7
  <2> QED
    BY <1>1, <1>3, <2>1
<1> HIDE DEF ob1
<1>9. s < capacity(ob1[m]) /\ capacity(ob1[m]) \in Nat
  <2>1. CapacityOf(a + k) \in Nat /\ capacity(ob1[m]) = CapacityOf(a + k)
    BY <1>1, <1>2, <1>6, <1>7, CapacityGrows DEF capacity
  <2>2. CASE k = 1
    <3>1. CapacityOf(a) < CapacityOf(a + 1) /\ CapacityOf(a) \in Nat /\ CapacityOf(a + 1) \in Nat
      <4>1. a + 1 \in Nat /\ a < a + 1
        BY <1>1
      <4> QED
        BY <1>1, <4>1, CapacityGrows
    <3> QED
      BY <1>1, <2>1, <2>2, <3>1 DEF capacity
  <2>3. CASE k = 0
    <3>1. CapacityOf(a + k) = CapacityOf(a)
      BY <1>1, <2>3
    <3> QED
      BY <1>2, <2>1, <2>3, <3>1 DEF capacity
  <2> QED
    BY <1>2, <2>1, <2>2, <2>3
<1>10. Written(ob1, h1, abandoned, m, s, v, h2)
  <2>1. v \in Values \cup {Raw} /\ b = ob1[m].m_block_list[index1[s]]
    BY <1>6
  <2> HIDE DEF b, s
  <2>2. Written(ob1, h1, abandoned, m, s, v,
                [h1 EXCEPT ![ob1[m].m_block_list[index1[s]]][index2[s]] = v])
    BY <1>1, <1>7, <1>9, <2>1, WriteMemory
  <2> QED
    BY <2>1, <2>2
<1> HIDE DEF b, h2
<1>11. Resized(ob1, h2, abandoned, m, s + 1, ob2)
  <2>1. s + 1 \in Nat /\ s + 1 <= capacity(ob1[m]) /\ Memory(ob1, h2, abandoned)
    BY <1>1, <1>9, <1>10 DEF Written
  <2> QED
    BY <1>7, <2>1, SizeMemory
<1> HIDE DEF ob2
<1>12. /\ Members(obj') /\ Memory(obj', heap', abandoned) /\ Kept(ob1, h2, obj', heap')
       /\ obj'[m].m_size = s + 1 /\ \A n \in Names : n # m => obj'[n] = obj[n]
  BY <1>3, <1>6, <1>8, <1>11 DEF Resized
<1>13. \A n \in Names, i \in Nat : i < obj[n].m_size =>
          /\ i < capacity(obj[n]) /\ i < capacity(ob1[n]) /\ (n # m \/ i # s)
  <2> SUFFICES ASSUME NEW n \in Names, NEW i \in Nat, i < obj[n].m_size
               PROVE  i < capacity(obj[n]) /\ i < capacity(ob1[n]) /\ (n # m \/ i # s)
    OBVIOUS
  <2>1. /\ obj[n].m_size \in Nat /\ obj[n].m_size <= capacity(obj[n]) /\ capacity(obj[n]) \in Nat
    BY StoredType
  <2>2. CASE n = m
    BY <1>1, <1>9, <2>1, <2>2
  <2>3. CASE n # m
    BY <1>6, <2>1, <2>3
  <2> QED
    BY <2>2, <2>3
<1>14. ASSUME NEW n \in Names, NEW i \in Nat, i < obj[n].m_size
       PROVE  /\ ReadIn(heap', obj'[n], i) = ReadIn(heap, obj[n], i)
              /\ Address(obj'[n], i) = Address(obj[n], i)
  <2>1. i < capacity(obj[n]) /\ i < capacity(ob1[n]) /\ (n # m \/ i # s)
    BY <1>13, <1>14
  <2>2. /\ ReadIn(h1, ob1[n], i) = ReadIn(heap, obj[n], i)
        /\ Address(ob1[n], i) = Address(obj[n], i)
    BY <1>7, <2>1, KeptReads DEF Stored
  <2>3. ReadIn(h2, ob1[n], i) = ReadIn(h1, ob1[n], i)
    BY <1>10, <2>1 DEF Written
  <2>4. /\ ReadIn(heap', obj'[n], i) = ReadIn(h2, ob1[n], i)
        /\ Address(obj'[n], i) = Address(ob1[n], i)
    BY <1>7, <1>12, <2>1, KeptReads
  <2> QED
    BY <2>2, <2>3, <2>4
<1>15. ReadIn(heap', obj'[m], s) = v
  <2>1. ReadIn(h2, ob1[m], s) = v
    BY <1>10 DEF Written
  <2>2. ReadIn(heap', obj'[m], s) = ReadIn(h2, ob1[m], s)
    BY <1>1, <1>7, <1>9, <1>12, KeptReads
  <2> QED
    BY <2>1, <2>2
<1>16. \A n \in Names : n # m => SameElements(n) /\ obj'[n] = obj[n]
  BY <1>12, <1>14 DEF SameElements
<1>17. obj'[m].m_size \in Sizes
  BY <1>1, <1>3, <1>12 DEF Sizes
<1> QED
  BY <1>12, <1>14, <1>15, <1>16, <1>17 DEF OneMore

-----------------------------------------------------------------------------
\* Element i of m is v, and the others what they were.
Rewritten(m, i, v) ==
    /\ obj' = obj /\ Members(obj') /\ Memory(obj', heap', abandoned)
    /\ ReadIn(heap', obj'[m], i) = v
    /\ \A n \in Names, j \in Nat : j < obj[n].m_size /\ (n # m \/ j # i) =>
          ReadIn(heap', obj'[n], j) = ReadIn(heap, obj[n], j)

\* A write through operator[] changes that element alone.
LEMMA AssignEffect ==
    ASSUME Stored, NEW m \in Names, NEW i \in Sizes, NEW v \in Values, Assign(m, i, v)
    PROVE  Rewritten(m, i, v) /\ i < obj[m].m_size
<1>1. /\ obj' = obj /\ i < obj[m].m_size /\ i \in Nat
      /\ heap' = [heap EXCEPT ![obj[m].m_block_list[index1[i]]][index2[i]] = v]
  BY MonoqueAssumption DEF Assign, Sizes
<1>2. i < capacity(obj[m]) /\ v \in Values \cup {Raw}
  BY <1>1, StoredType
<1>3. Written(obj, heap, abandoned, m, i, v, heap')
  <2>1. Written(obj, heap, abandoned, m, i, v,
                [heap EXCEPT ![obj[m].m_block_list[index1[i]]][index2[i]] = v])
    BY <1>1, <1>2, WriteMemory DEF Stored
  <2> QED
    BY <1>1, <2>1
<1>4. \A n \in Names, j \in Nat : j < obj[n].m_size => j < capacity(obj[n])
  BY StoredType
<1> QED
  BY <1>1, <1>3, <1>4 DEF Rewritten, Written, Stored

\* m has lost its last element, and no other one.
OneLess(m) ==
    /\ Members(obj') /\ Memory(obj', heap', abandoned)
    /\ \A n \in Names : n # m => SameElements(n) /\ obj'[n] = obj[n]
    /\ obj[m].m_size \in Nat \ {0} /\ obj'[m].m_size = obj[m].m_size - 1
    /\ obj'[m].m_size \in Sizes
    /\ \A i \in Nat : i < obj'[m].m_size =>
          /\ ReadIn(heap', obj'[m], i) = ReadIn(heap, obj[m], i)
          /\ Address(obj'[m], i) = Address(obj[m], i)

\* pop_back takes the last element, and leaves every other one.
LEMMA PopBackEffect ==
    ASSUME Stored, NEW m \in Names, PopBack(m)
    PROVE  OneLess(m)
<1> DEFINE s == obj[m].m_size - 1
           h2 == [heap EXCEPT ![obj[m].m_block_list[index1[s]]][index2[s]] = Raw]
           ob2 == [obj EXCEPT ![m].m_size = s]
<1>1. /\ obj[m].m_size # 0 /\ heap' = h2 /\ obj' = ob2
  BY DEF PopBack
<1>2. /\ obj[m].m_size \in Nat /\ obj[m].m_size <= MaxSize /\ MaxSize \in Nat
      /\ obj[m].m_size <= capacity(obj[m]) /\ capacity(obj[m]) \in Nat
  BY StoredType
<1>3. s \in Nat /\ s < capacity(obj[m]) /\ s < obj[m].m_size /\ s \in Sizes
  BY <1>1, <1>2 DEF Sizes
<1> HIDE DEF s
<1>4. Written(obj, heap, abandoned, m, s, Raw, h2)
  BY <1>3, WriteMemory DEF Stored
<1> HIDE DEF h2
<1>5. Resized(obj, h2, abandoned, m, s, ob2)
  <2>1. Memory(obj, h2, abandoned) /\ s <= capacity(obj[m])
    BY <1>2, <1>3, <1>4 DEF Written
  <2> QED
    BY <1>3, <2>1, SizeMemory DEF Stored
<1> HIDE DEF ob2
<1>6. /\ Members(obj') /\ Memory(obj', heap', abandoned) /\ Kept(obj, h2, obj', heap')
      /\ obj'[m].m_size = s /\ \A n \in Names : n # m => obj'[n] = obj[n]
  BY <1>1, <1>5 DEF Resized
<1>7. ASSUME NEW n \in Names, NEW i \in Nat, i < obj[n].m_size, n # m \/ i < s
      PROVE  /\ ReadIn(heap', obj'[n], i) = ReadIn(heap, obj[n], i)
             /\ Address(obj'[n], i) = Address(obj[n], i)
  <2>1. i < capacity(obj[n]) /\ (n # m \/ i # s)
    BY <1>3, <1>7, StoredType
  <2>2. ReadIn(h2, obj[n], i) = ReadIn(heap, obj[n], i)
    BY <1>4, <2>1 DEF Written
  <2>3. /\ ReadIn(heap', obj'[n], i) = ReadIn(h2, obj[n], i)
        /\ Address(obj'[n], i) = Address(obj[n], i)
    BY <1>6, <2>1, KeptReads DEF Stored
  <2> QED
    BY <2>2, <2>3
<1>8. \A n \in Names : n # m => SameElements(n) /\ obj'[n] = obj[n]
  BY <1>6, <1>7 DEF SameElements
<1>9. \A i \in Nat : i < obj'[m].m_size =>
          /\ ReadIn(heap', obj'[m], i) = ReadIn(heap, obj[m], i)
          /\ Address(obj'[m], i) = Address(obj[m], i)
  BY <1>2, <1>3, <1>6, <1>7
<1> QED
  BY <1>1, <1>2, <1>3, <1>6, <1>8, <1>9 DEF OneLess, s

\* Giving the blocks of one monoque back leaves the elements of the others.
LEMMA ReducedKeeps ==
    ASSUME Stored, NEW m \in Names, NEW p, Reduced([obj EXCEPT ![m] = p], heap'),
           obj' = [obj EXCEPT ![m] = p]
    PROVE  /\ Members(obj') /\ Memory(obj', heap', abandoned)
           /\ \A n \in Names : n # m => obj'[n] = obj[n] /\ SameElements(n)
<1>1. /\ Members(obj') /\ Memory(obj', heap', abandoned) /\ Kept(obj', heap', obj', heap)
      /\ obj'[m] = p /\ \A n \in Names : n # m => obj'[n] = obj[n]
  BY DEF Reduced, Stored, Members
<1>2. ASSUME NEW n \in Names, n # m, NEW i \in Nat, i < obj[n].m_size
      PROVE  ReadIn(heap', obj'[n], i) = ReadIn(heap, obj[n], i)
  <2>1. i < capacity(obj'[n])
    BY <1>1, <1>2, StoredType
  <2>0. \A x \in Names, j \in Nat : j < capacity(obj'[x]) =>
           ReadIn(heap, obj'[x], j) = ReadIn(heap', obj'[x], j)
    BY ONLY <1>1, KeptReads
  <2>2. ReadIn(heap, obj'[n], i) = ReadIn(heap', obj'[n], i)
    BY <2>0, <2>1
  <2> QED
    BY <1>1, <1>2, <2>2
<1> QED
  BY <1>1, <1>2 DEF SameElements

\* shrink_to_fit leaves every element, and as many blocks as they take.
LEMMA ShrinkEffect ==
    ASSUME Stored, NEW m \in Names, ShrinkToFit(m), fault' = "none"
    PROVE  /\ Members(obj') /\ Memory(obj', heap', abandoned)
           /\ \A n \in Names : SameElements(n)
           /\ \A n \in Names : n # m => obj'[n] = obj[n]
           /\ obj'[m].m_allocated_blocks = FitBlocks(obj[m])
<1> DEFINE o == obj[m]
           k == FitBlocks(o)
           p == Shrunk(o)
           l == [i \in 0 .. o.m_capacity_blocks - 1 |->
                      IF k <= i /\ i < o.m_allocated_blocks THEN Null ELSE o.m_block_list[i]]
<1>1. /\ obj' = [obj EXCEPT ![m] = p]
      /\ heap' = [b \in Blocks |-> IF b \in RemovedBlocks(o, k) THEN Free ELSE heap[b]]
  BY DEF ShrinkToFit, Release
<1>2. /\ Member(o) /\ o.m_size \in Nat /\ o.m_size <= capacity(o) /\ capacity(o) \in Nat
      /\ o.m_allocated_blocks \in 0 .. WordBits /\ o.m_allocated_blocks <= o.m_capacity_blocks
      /\ o.m_capacity_blocks \in Nat /\ o.m_allocated_blocks \in Nat /\ o \in Lists
      /\ o.m_block_list \in [0 .. o.m_capacity_blocks - 1 -> Blocks \cup {Null}]
      /\ o.m_capacity_blocks \in Capacities
  BY StoredType, MemberType DEF Member
<1>3. k \in 0 .. o.m_allocated_blocks /\ k \in Nat /\ o.m_size <= CapacityOf(k)
  BY <1>2, Fits
<1>4. l \in [0 .. o.m_capacity_blocks - 1 -> Blocks \cup {Null}]
  BY <1>2
<1>5. \A i \in 0 .. k - 1 : l[i] = o.m_block_list[i]
  BY <1>2, <1>3
<1>6. p = [o EXCEPT !.m_allocated_blocks = k, !.m_block_list = l,
                    !.freed = k = 0 /\ o.m_capacity_blocks # 0]
  BY DEF Shrunk
<1> HIDE DEF l, k, p
<1>7. (k = 0 /\ o.m_capacity_blocks # 0) \in BOOLEAN
  OBVIOUS
<1>8. /\ p \in Lists /\ p.m_size = o.m_size /\ p.m_allocated_blocks = k /\ p.m_block_list = l
      /\ p.m_capacity_blocks = o.m_capacity_blocks
  <2>1. l \in UNION {[0 .. c - 1 -> Blocks \cup {Null}] : c \in Capacities}
    BY <1>2, <1>4
  <2> QED
    BY <1>2, <1>3, <1>6, <1>7, <2>1 DEF Lists
<1>9. Member(p) /\ \A i \in Live(p) : p.m_block_list[i] = o.m_block_list[i]
  BY <1>2, <1>3, <1>4, <1>5, <1>8 DEF Member, capacity, Live
<1>10. Reduced([obj EXCEPT ![m] = p], heap')
  <2>1. /\ p.m_allocated_blocks <= obj[m].m_allocated_blocks
        /\ Members(obj) /\ Memory(obj, heap, abandoned)
    BY <1>2, <1>3, <1>8 DEF Stored
  <2>2. Reduced([obj EXCEPT ![m] = p],
                   [b \in Blocks |-> IF b \in RemovedBlocks(obj[m], p.m_allocated_blocks)
                                     THEN Free ELSE heap[b]])
    BY <1>9, <2>1, RemoveMemory
  <2> QED
    BY <1>1, <1>8, <2>2
<1>11. /\ Members(obj') /\ Memory(obj', heap', abandoned)
       /\ \A n \in Names : n # m => obj'[n] = obj[n] /\ SameElements(n)
  BY <1>1, <1>10, ReducedKeeps
<1>12. obj'[m] = p
  BY <1>1 DEF Stored, Members
<1>13. SameElements(m)
  <2> SUFFICES ASSUME NEW i \in Nat, i < o.m_size
               PROVE  /\ ReadIn(heap', obj'[m], i) = ReadIn(heap, obj[m], i)
                      /\ Address(obj'[m], i) = Address(obj[m], i)
    BY <1>8, <1>12 DEF SameElements
  <2>1. i < capacity(obj'[m]) /\ Kept(obj', heap', obj', heap)
    <3>1. CapacityOf(k) \in Nat /\ capacity(obj'[m]) = CapacityOf(k)
      BY <1>3, <1>8, <1>12, CapacityGrows DEF capacity
    <3> QED
      BY <1>1, <1>2, <1>3, <1>10, <3>1 DEF Reduced
  <2>2. index1[i] \in Live(obj'[m])
    BY <1>11, <2>1, Slot
  <2>3. obj'[m].m_block_list[index1[i]] = obj[m].m_block_list[index1[i]]
    BY <1>9, <1>12, <2>2
  <2>4. ReadIn(heap, obj'[m], i) = ReadIn(heap', obj'[m], i)
    BY <1>11, <2>1, KeptReads
  <2> QED
    BY <2>3, <2>4 DEF ReadIn, Address
<1> QED
  BY <1>8, <1>11, <1>12, <1>13 DEF k

\* m owns nothing any more, and the others what they did.
Gone(m) == /\ Members(obj') /\ Memory(obj', heap', abandoned') /\ obj'[m] = Empty
           /\ \A n \in Names : n # m => obj'[n] = obj[n] /\ SameElements(n)

\* The destructor leaves a monoque without blocks, and the others as they were.
LEMMA DestroyEffect ==
    ASSUME Stored, NEW m \in Names, Destroy(m), fault' = "none"
    PROVE  Gone(m) /\ lifetime' = [lifetime EXCEPT ![m] = "none"]
<1>1. /\ obj' = [obj EXCEPT ![m] = Empty] /\ lifetime' = [lifetime EXCEPT ![m] = "none"]
      /\ heap' = [b \in Blocks |-> IF b \in RemovedBlocks(obj[m], 0) THEN Free ELSE heap[b]]
      /\ abandoned' = abandoned
  BY DEF Destroy, Release
<1>2. /\ Member(Empty) /\ Empty.m_allocated_blocks = 0 /\ Live(Empty) = {}
      /\ 0 <= obj[m].m_allocated_blocks
  BY EmptyMember, StoredType DEF Empty
<1>3. Reduced([obj EXCEPT ![m] = Empty], heap')
  <2>1. Reduced([obj EXCEPT ![m] = Empty],
                [b \in Blocks |-> IF b \in RemovedBlocks(obj[m], Empty.m_allocated_blocks)
                                  THEN Free ELSE heap[b]])
    BY <1>2, RemoveMemory DEF Stored
  <2> QED
    BY <1>1, <1>2, <2>1
<1>4. /\ Members(obj') /\ Memory(obj', heap', abandoned)
      /\ \A n \in Names : n # m => obj'[n] = obj[n] /\ SameElements(n)
  BY <1>1, <1>3, ReducedKeeps
<1> QED
  BY <1>1, <1>4 DEF Gone, Stored, Members

\* A copy that throws loses its blocks, the new ones too, and no others.
LEMMA CopyThrowsEffect ==
    ASSUME Stored, NEW m \in Names, CopyThrows(m)
    PROVE  Gone(m) /\ lifetime' = [lifetime EXCEPT ![m] = "none"]
<1> DEFINE o == obj[m]
           a == o.m_allocated_blocks
<1>1. PICK k \in 0 .. Needed(m) :
         /\ k <= Cardinality(FreeBlocks)
         /\ heap' = HeapWith(a, NewBlocks(k), k)
         /\ abandoned' = abandoned \cup RemovedBlocks(o, 0) \cup {NewBlocks(k)[i] : i \in 1 .. k}
  BY DEF CopyThrows
<1> DEFINE c == ListCapacity(o, a + k)
           ob1 == [obj EXCEPT ![m] = WithBlocks(@, NewBlocks(k), k, c)]
           ob2 == [ob1 EXCEPT ![m] = Empty]
           R == {ob1[m].m_block_list[i] : i \in Live(ob1[m])}
<1>2. /\ Member(o) /\ a \in Nat /\ WordBits \in Nat /\ obj \in [Names -> Lists]
  BY StoredType DEF Stored, Members
<1>3. k \in Nat /\ a + k \in Nat /\ a + k <= WordBits
  BY <1>2, Room
<1>4. c \in Capacities /\ a + k <= c /\ o.m_capacity_blocks <= c
  BY <1>2, <1>3, ListLong
<1>5. Extended(ob1, heap', m, k, c)
  BY <1>1, <1>3, <1>4, AddMemory DEF Stored
<1>6. /\ obj' = [obj EXCEPT ![m] = Empty] /\ lifetime' = [lifetime EXCEPT ![m] = "none"]
  BY DEF CopyThrows
<1>7. obj' = ob2 /\ \A n \in Names : n # m => ob1[n] = obj[n]
  BY <1>2, <1>6
<1> HIDE DEF c, ob1
<1>8. Members(ob2) /\ Memory(ob2, heap', abandoned \cup R)
  BY <1>5, LoseMemory DEF Extended
<1>9. R = RemovedBlocks(o, 0) \cup {NewBlocks(k)[i] : i \in 1 .. k}
  <2>1. /\ ob1[m].m_allocated_blocks = a + k
        /\ \A i \in Live(o) : ob1[m].m_block_list[i] = o.m_block_list[i]
        /\ \A i \in 1 .. k : ob1[m].m_block_list[a + i - 1] = NewBlocks(k)[i]
    BY <1>5 DEF Extended, Kept
  <2>2. \A i \in Live(ob1[m]) : i \in Live(o) \/ \E j \in 1 .. k : i = a + j - 1
    <3> SUFFICES ASSUME NEW i \in Live(ob1[m])
                 PROVE  i \in Live(o) \/ \E j \in 1 .. k : i = a + j - 1
      OBVIOUS
    <3>1. i \in 0 .. ob1[m].m_allocated_blocks - 1
      BY Zenon DEF Live
    <3>2. i \in Int /\ 0 <= i /\ i < a + k
      BY <1>2, <1>3, <2>1, <3>1
    <3>3. CASE i < a
      BY <1>2, <3>2, <3>3 DEF Live
    <3>4. CASE i >= a
      <4>1. i - a + 1 \in 1 .. k /\ i = a + (i - a + 1) - 1
        BY <1>2, <1>3, <3>2, <3>4
      <4> QED
        BY <4>1
    <3> QED
      BY <1>2, <3>2, <3>3, <3>4
  <2>3. /\ \A i \in Live(o) : i \in Live(ob1[m])
        /\ \A j \in 1 .. k : a + j - 1 \in Live(ob1[m])
    BY <1>2, <1>3, <2>1 DEF Live
  <2>4. RemovedBlocks(o, 0) = {o.m_block_list[i] : i \in Live(o)}
    BY DEF RemovedBlocks, Live
  <2>5. \A b \in R : b \in RemovedBlocks(o, 0) \cup {NewBlocks(k)[i] : i \in 1 .. k}
    BY <2>1, <2>2, <2>4
  <2>6. \A i \in Live(o) : o.m_block_list[i] \in R
    BY <2>1, <2>3
  <2>7. \A j \in 1 .. k : NewBlocks(k)[j] \in R
    BY <2>1, <2>3
  <2> HIDE DEF R
  <2> QED
    BY <2>4, <2>5, <2>6, <2>7
<1>10. abandoned' = abandoned \cup R
  BY <1>1, <1>9
<1> HIDE DEF ob2, R
<1>11. Members(obj') /\ Memory(obj', heap', abandoned')
  BY <1>7, <1>8, <1>10
<1>12. obj'[m] = Empty /\ \A n \in Names : n # m => obj'[n] = obj[n]
  BY <1>2, <1>6
<1>13. ASSUME NEW n \in Names, n # m PROVE SameElements(n)
  <2>1. \A i \in Nat : i < obj[n].m_size => i < capacity(obj[n])
    BY StoredType
  <2>2. \A i \in Nat : i < capacity(obj[n]) =>
           /\ ReadIn(heap', ob1[n], i) = ReadIn(heap, obj[n], i)
           /\ Address(ob1[n], i) = Address(obj[n], i)
    BY <1>5, KeptReads DEF Extended, Stored
  <2> QED
    BY <1>7, <1>12, <1>13, <2>1, <2>2 DEF SameElements
<1> QED
  BY <1>6, <1>11, <1>12, <1>13 DEF Gone

-----------------------------------------------------------------------------
(* Every step keeps the invariant.                                         *)

\* The invariant holds at first.
LEMMA InvInit == Init => Inv
<1> SUFFICES ASSUME Init PROVE Inv
  OBVIOUS
<1>1. /\ obj = [m \in Names |-> Empty] /\ heap = [b \in Blocks |-> Free]
      /\ lifetime = [m \in Names |-> "none"] /\ abandoned = {}
  BY DEF Init
<1>2. Members(obj) /\ \A m \in Names : obj[m] = Empty /\ Live(obj[m]) = {}
  BY <1>1, EmptyMember DEF Members
<1>3. Memory(obj, heap, abandoned)
  BY <1>1, <1>2 DEF Memory, Filled, Fitting, Single, Lost, Accounted
<1>4. \A m \in Names : obj[m].m_size = 0
  BY <1>2 DEF Empty
<1>5. Sized /\ Constructed
  BY <1>4, MonoqueAssumption DEF Sized, Constructed, Sizes
<1>6. Lifetimes /\ Copies
  BY <1>1, <1>2, MonoqueAssumption DEF Lifetimes, Copies
<1> QED
  BY <1>2, <1>3, <1>5, <1>6 DEF Inv, Stored

\* No monoque is called none or alive, or is a copy of itself.
LEMMA Places ==
    ASSUME Inv
    PROVE  /\ "none" \notin Names /\ "alive" \notin Names
           /\ \A m \in Names : lifetime[m] \in Names => lifetime[m] # m
BY MonoqueAssumption DEF Inv, Copies, Copying

\* The memory after a step that gives no block up.
NewStored == Members(obj') /\ Memory(obj', heap', abandoned) /\ abandoned' = abandoned

\* What the memory of the next state takes.
LEMMA StoredNext ==
    ASSUME Members(obj'), Memory(obj', heap', abandoned'),
           \A n \in Names : obj'[n].m_size \in Sizes
    PROVE  Stored'
BY DEF Stored, Sized

\* Elements that stay are still constructed.
LEMMA SameConstructed ==
    ASSUME Inv, NEW n \in Names, SameElements(n)
    PROVE  obj'[n].m_size \in Sizes /\ \A i \in Nat :
              i < obj'[n].m_size => ReadIn(heap', obj'[n], i) \in Values
BY DEF Inv, Stored, Sized, Constructed, SameElements

\* A step of a monoque while no copy is being made.
LEMMA Undisturbed ==
    ASSUME Inv, NEW m \in Names, Usable(m), Stored', Constructed', UNCHANGED lifetime,
           \A n \in Names : lifetime[n] = "none" => obj'[n] = obj[n]
    PROVE  Inv'
<1>1. \A n \in Names : lifetime'[n] \notin Names
  BY DEF Usable
<1>2. Lifetimes'
  BY DEF Inv, Lifetimes
<1>3. Copies'
  BY <1>1 DEF Copies
<1> QED
  BY <1>2, <1>3 DEF Inv

\* A step that leaves all elements keeps the invariant.
LEMMA InvSame ==
    ASSUME Inv, NEW m \in Names, Usable(m), Members(obj'), Memory(obj', heap', abandoned'),
           \A n \in Names : SameElements(n) /\ (n # m => obj'[n] = obj[n]), UNCHANGED lifetime
    PROVE  Inv'
<1>1. Stored' /\ Constructed'
  BY SameConstructed, StoredNext DEF Constructed
<1>2. \A n \in Names : lifetime[n] = "none" => obj'[n] = obj[n]
  BY DEF Usable
<1> QED
  BY <1>1, <1>2, Undisturbed

\* So does one that changes nothing but the fault.
LEMMA InvUnchanged ==
    ASSUME Inv, UNCHANGED <<obj, heap, lifetime, abandoned>>
    PROVE  Inv'
<1>1. Stored' /\ Constructed'
  BY DEF Inv, Stored, Sized, Constructed
<1>2. Lifetimes' /\ Copies'
  BY DEF Inv, Lifetimes, Copies, Copying
<1> QED
  BY <1>1, <1>2 DEF Inv

\* The constructor keeps the invariant.
LEMMA InvConstruct ==
    ASSUME Inv, NEW m \in Names, Construct(m)
    PROVE  Inv'
<1>1. /\ UNCHANGED <<obj, heap, abandoned>> /\ lifetime' = [lifetime EXCEPT ![m] = "alive"]
      /\ \A n \in Names : lifetime[n] \notin Names
  BY DEF Construct
<1>2. Stored' /\ Constructed'
  BY <1>1 DEF Inv, Stored, Sized, Constructed
<1>3. Lifetimes' /\ Copies'
  BY <1>1, Places DEF Inv, Lifetimes, Copies
<1> QED
  BY <1>2, <1>3 DEF Inv

\* So does the start of a copy, which has no elements yet.
LEMMA InvStartCopy ==
    ASSUME Inv, NEW m \in Names, NEW other \in Names, StartCopy(m, other)
    PROVE  Inv'
<1>1. /\ UNCHANGED <<obj, heap, abandoned>> /\ lifetime' = [lifetime EXCEPT ![m] = other]
      /\ lifetime[m] = "none" /\ lifetime[other] = "alive"
      /\ \A n \in Names : lifetime[n] \notin Names
  BY DEF StartCopy, Usable
<1>2. Stored' /\ Constructed'
  BY <1>1 DEF Inv, Stored, Sized, Constructed
<1>3. lifetime \in [Names -> {"none", "alive"} \cup Names] /\ obj[m] = Empty
  BY <1>1 DEF Inv, Lifetimes
<1>4. Lifetimes'
  BY <1>1, <1>3, Places DEF Inv, Lifetimes
<1>5. obj[m].m_size = 0 /\ obj[other].m_size \in Nat
  BY <1>3, StoredType DEF Empty, Inv
<1>6. /\ lifetime'[other] = "alive"
      /\ \A n \in Names : lifetime'[n] \in Names => n = m /\ lifetime'[n] = other
  BY <1>1, <1>3, Places
<1>7. Copies'
  BY <1>1, <1>5, <1>6 DEF Copies, Copying
<1> QED
  BY <1>2, <1>4, <1>7 DEF Inv

\* With one element more, all are constructed.
LEMMA OneMoreConstructed ==
    ASSUME Inv, NEW m \in Names, NEW v \in Values, OneMore(m, v), UNCHANGED abandoned
    PROVE  Stored' /\ Constructed'
<1>1. \A n \in Names : n # m => SameElements(n)
  BY DEF OneMore
<1>2. \A n \in Names : obj'[n].m_size \in Sizes
  BY <1>1, SameConstructed DEF OneMore
<1>3. Stored'
  BY <1>2, StoredNext DEF OneMore
<1>4. ASSUME NEW i \in Nat, i < obj'[m].m_size PROVE ReadIn(heap', obj'[m], i) \in Values
  <2>1. obj[m].m_size \in Nat /\ obj'[m].m_size = obj[m].m_size + 1
    BY StoredType DEF Inv, OneMore
  <2>2. i < obj[m].m_size \/ i = obj[m].m_size
    BY <1>4, <2>1
  <2>3. i < obj[m].m_size => ReadIn(heap, obj[m], i) \in Values
    BY DEF Inv, Constructed
  <2> QED
    BY <2>2, <2>3 DEF OneMore
<1>5. Constructed'
  BY <1>1, <1>4, SameConstructed DEF Constructed
<1> QED
  BY <1>3, <1>5

\* emplace_back keeps the invariant.
LEMMA InvEmplaceBack ==
    ASSUME Inv, NEW m \in Names, NEW v \in Values, EmplaceBack(m, v)
    PROVE  Inv' /\ OneMore(m, v)
<1>1. OneMore(m, v) /\ UNCHANGED <<lifetime, abandoned>> /\ Usable(m)
  BY AppendedEffect DEF EmplaceBack, Inv
<1>2. Stored' /\ Constructed'
  BY <1>1, OneMoreConstructed
<1>3. \A n \in Names : lifetime[n] = "none" => obj'[n] = obj[n]
  BY <1>1 DEF OneMore, Usable
<1> QED
  BY <1>1, <1>2, <1>3, Undisturbed

\* So does a round of the copy constructor: the copy has one more of the elements.
LEMMA InvCopyStep ==
    ASSUME Inv, NEW m \in Names, CopyStep(m)
    PROVE  /\ Inv'
           /\ \/ /\ UNCHANGED lifetime
                 /\ \A n \in Names : n # m => SameElements(n) /\ obj'[n] = obj[n]
              \/ /\ UNCHANGED <<obj, heap>> /\ lifetime' = [lifetime EXCEPT ![m] = "alive"]
                 /\ obj[m].m_size = obj[lifetime[m]].m_size
<1> DEFINE o == lifetime[m]
           s == obj[m].m_size
           v == Read(obj[o], s)
<1>1. /\ o \in Names /\ lifetime[o] = "alive" /\ UNCHANGED abandoned /\ o # m
      /\ \A n \in Names : lifetime[n] \in Names => n = m
      /\ s <= obj[o].m_size /\ s \in Nat /\ obj[o].m_size \in Nat
      /\ \A i \in Nat : i < s => ReadIn(heap, obj[m], i) = ReadIn(heap, obj[o], i)
      /\ lifetime \in [Names -> {"none", "alive"} \cup Names]
  BY Places, StoredType DEF CopyStep, Inv, Copies, Copying, Lifetimes
<1>2. CASE s < obj[o].m_size
  <2>1. Appended(m, v) /\ UNCHANGED lifetime
    BY <1>2 DEF CopyStep
  <2>2. v = ReadIn(heap, obj[o], s) /\ v \in Values
    BY <1>1, <1>2 DEF Read, ReadIn, Inv, Constructed
  <2> HIDE DEF v
  <2>3. OneMore(m, v)
    BY <2>1, <2>2, AppendedEffect DEF Inv
  <2>4. Stored' /\ Constructed'
    BY <1>1, <2>2, <2>3, OneMoreConstructed
  <2>5. \A n \in Names : n # m => SameElements(n) /\ obj'[n] = obj[n]
    BY <2>3 DEF OneMore
  <2>6. Lifetimes'
    <3>1. lifetime[m] # "none"
      BY <1>1, Places
    <3> QED
      BY <2>1, <2>5, <3>1 DEF Inv, Lifetimes
  <2>7. obj'[m].m_size = s + 1 /\ obj'[o].m_size = obj[o].m_size
    BY <1>1, <2>3, <2>5 DEF OneMore, SameElements
  <2>8. ASSUME NEW i \in Nat, i < obj'[m].m_size
        PROVE  ReadIn(heap', obj'[m], i) = ReadIn(heap', obj'[o], i)
    <3>1. i < obj[o].m_size /\ (i < s \/ i = s)
      BY <1>1, <1>2, <2>7, <2>8
    <3>2. ReadIn(heap', obj'[o], i) = ReadIn(heap, obj[o], i)
      BY <1>1, <2>5, <3>1 DEF SameElements
    <3>3. i < s => ReadIn(heap', obj'[m], i) = ReadIn(heap, obj[m], i)
      BY <2>3 DEF OneMore
    <3>4. i = s => ReadIn(heap', obj'[m], i) = v
      BY <2>3 DEF OneMore
    <3> QED
      BY <1>1, <2>2, <3>1, <3>2, <3>3, <3>4
  <2>9. obj'[m].m_size <= obj'[o].m_size
    BY <1>1, <1>2, <2>7
  <2>10. \A n \in Names : lifetime'[n] \in Names => n = m /\ lifetime'[n] = o
    BY <1>1, <2>1
  <2>11. Copies'
    BY <1>1, <2>1, <2>8, <2>9, <2>10 DEF Copies, Copying
  <2> QED
    BY <2>1, <2>4, <2>5, <2>6, <2>11 DEF Inv
<1>3. CASE ~(s < obj[o].m_size)
  <2>1. UNCHANGED <<obj, heap>> /\ lifetime' = [lifetime EXCEPT ![m] = "alive"]
    BY <1>3 DEF CopyStep
  <2>2. Stored' /\ Constructed'
    BY <1>1, <2>1 DEF Inv, Stored, Sized, Constructed
  <2>3. Lifetimes' /\ Copies'
    BY <1>1, <2>1, Places DEF Inv, Lifetimes, Copies
  <2>4. s = obj[o].m_size
    BY <1>1, <1>3
  <2> QED
    BY <2>1, <2>2, <2>3, <2>4 DEF Inv
<1> QED
  BY <1>2, <1>3

-----------------------------------------------------------------------------
\* pop_back keeps the invariant.
LEMMA InvPopBack ==
    ASSUME Inv, NEW m \in Names, PopBack(m)
    PROVE  Inv' /\ OneLess(m)
<1>1. OneLess(m) /\ UNCHANGED <<lifetime, abandoned>> /\ Usable(m)
  BY PopBackEffect DEF PopBack, Inv
<1>2. \A n \in Names : n # m => obj'[n].m_size \in Sizes /\ \A i \in Nat :
              i < obj'[n].m_size => ReadIn(heap', obj'[n], i) \in Values
  BY <1>1, SameConstructed DEF OneLess
<1>3. Stored'
  BY <1>1, <1>2, StoredNext DEF OneLess
<1>4. \A i \in Nat : i < obj'[m].m_size => ReadIn(heap', obj'[m], i) \in Values
  <2> SUFFICES ASSUME NEW i \in Nat, i < obj'[m].m_size
               PROVE  ReadIn(heap', obj'[m], i) \in Values
    OBVIOUS
  <2>1. i < obj[m].m_size /\ ReadIn(heap', obj'[m], i) = ReadIn(heap, obj[m], i)
    BY <1>1 DEF OneLess
  <2> QED
    BY <2>1 DEF Inv, Constructed
<1>5. Constructed'
  BY <1>2, <1>4 DEF Constructed
<1>6. \A n \in Names : lifetime[n] = "none" => obj'[n] = obj[n]
  BY <1>1 DEF OneLess, Usable
<1> QED
  BY <1>1, <1>3, <1>5, <1>6, Undisturbed

\* So do new blocks,
LEMMA InvAddBlocks ==
    ASSUME Inv, NEW m \in Names, Usable(m), NEW needed \in Nat,
           obj[m].m_allocated_blocks + needed <= WordBits, AddBlocks(m, needed),
           UNCHANGED <<lifetime, abandoned>>
    PROVE  Inv' /\ \A n \in Names : SameElements(n)
<1>1. /\ Members(obj') /\ Memory(obj', heap', abandoned)
      /\ \A n \in Names : SameElements(n)
      /\ \A n \in Names : n # m => obj'[n] = obj[n]
  BY AddBlocksEffect DEF Inv
<1> QED
  BY <1>1, InvSame

\* an emplace_back that fails,
LEMMA InvEmplaceBackFails ==
    ASSUME Inv, NEW m \in Names, EmplaceBackFails(m)
    PROVE  /\ Inv' /\ UNCHANGED lifetime
           /\ (\A n \in Names : SameElements(n)) \/ UNCHANGED <<obj, heap>>
<1>1. CASE UsesFreedList(m, Needed(m))
  BY <1>1, InvUnchanged DEF UsesFreedList
<1>2. CASE NotAppended(m) /\ UNCHANGED <<lifetime, abandoned, fault>>
  <2>1. Needed(m) \in Nat /\ obj[m].m_allocated_blocks + Needed(m) <= WordBits
    BY Room DEF Inv
  <2>2. Usable(m) /\ AddBlocks(m, Needed(m))
    BY <1>2 DEF NotAppended, EmplaceBackFails
  <2> HIDE DEF Inv
  <2> QED
    BY <1>2, <2>1, <2>2, InvAddBlocks
<1> QED
  BY <1>1, <1>2 DEF EmplaceBackFails

\* reserve,
LEMMA InvReserve ==
    ASSUME Inv, NEW m \in Names, NEW n \in Sizes, Reserve(m, n)
    PROVE  /\ Inv' /\ UNCHANGED lifetime
           /\ (\A x \in Names : SameElements(x)) \/ UNCHANGED <<obj, heap>>
<1> DEFINE a == obj[m].m_allocated_blocks
           needed == BlocksFor(n) - a
<1>1. Usable(m) /\ n > CapacityOf(a)
  BY DEF Reserve, capacity
<1>2. a \in Nat /\ a <= WordBits /\ WordBits \in Nat
  BY StoredType DEF Inv
<1>3. BlocksFor(n) \in a + 1 .. WordBits
  BY <1>1, <1>2, Enough
<1>4. needed \in Nat /\ a + needed <= WordBits
  BY <1>2, <1>3
<1>5. CASE UsesFreedList(m, needed)
  BY <1>5, InvUnchanged DEF UsesFreedList
<1>6. CASE AddBlocks(m, needed) /\ UNCHANGED <<lifetime, abandoned, fault>>
  <2> HIDE DEF needed
  <2> QED
    BY <1>1, <1>4, <1>6, InvAddBlocks
<1> QED
  BY <1>5, <1>6 DEF Reserve

\* a write through a reference,
LEMMA InvAssign ==
    ASSUME Inv, NEW m \in Names, NEW i \in Sizes, NEW v \in Values, Assign(m, i, v)
    PROVE  Inv' /\ Rewritten(m, i, v) /\ i < obj[m].m_size /\ UNCHANGED lifetime
<1>1. /\ Rewritten(m, i, v) /\ UNCHANGED <<lifetime, abandoned>> /\ Usable(m)
      /\ i < obj[m].m_size
  BY AssignEffect DEF Assign, Inv
<1>2. Stored'
  BY <1>1, StoredNext DEF Rewritten, Inv, Stored, Sized
<1>3. Constructed'
  <2> SUFFICES ASSUME NEW n \in Names, NEW j \in Nat, j < obj[n].m_size
               PROVE  ReadIn(heap', obj'[n], j) \in Values
    BY <1>1 DEF Constructed, Rewritten
  <2>1. CASE n = m /\ j = i
    BY <1>1, <2>1 DEF Rewritten
  <2>2. CASE n # m \/ j # i
    BY <1>1, <2>2 DEF Rewritten, Inv, Constructed
  <2> QED
    BY <2>1, <2>2
<1>4. \A n \in Names : lifetime[n] = "none" => obj'[n] = obj[n]
  BY <1>1 DEF Rewritten
<1> QED
  BY <1>1, <1>2, <1>3, <1>4, Undisturbed

\* and shrink_to_fit.
LEMMA InvShrinkToFit ==
    ASSUME Inv, NEW m \in Names, ShrinkToFit(m)
    PROVE  /\ Inv' /\ UNCHANGED lifetime
           /\ (\A x \in Names : SameElements(x)) \/ UNCHANGED <<obj, heap>>
<1>0. UNCHANGED <<lifetime, abandoned>> /\ Usable(m)
  BY DEF ShrinkToFit
<1>1. CASE fault' = "none"
  <2>1. /\ Members(obj') /\ Memory(obj', heap', abandoned)
        /\ \A n \in Names : SameElements(n)
        /\ \A n \in Names : n # m => obj'[n] = obj[n]
    BY <1>1, ShrinkEffect DEF Inv
  <2> QED
    BY <1>0, <2>1, InvSame
<1>2. CASE fault' # "none"
  <2>1. UNCHANGED <<obj, heap>>
    BY <1>0, <1>2 DEF ShrinkToFit, Usable
  <2> QED
    BY <1>0, <2>1, InvUnchanged
<1> QED
  BY <1>1, <1>2

\* A monoque that is not there, and that no other is a copy of, is gone.
LEMMA InvGone ==
    ASSUME Inv, NEW m \in Names, Gone(m), lifetime' = [lifetime EXCEPT ![m] = "none"],
           \A n \in Names : n # m => lifetime[n] \notin Names
    PROVE  Inv'
<1>1. \A n \in Names : n # m => obj'[n] = obj[n] /\ SameElements(n)
  BY DEF Gone
<1>2. obj'[m] = Empty /\ obj'[m].m_size = 0
  BY DEF Gone, Empty
<1>3. \A n \in Names : obj'[n].m_size \in Sizes
  BY <1>1, <1>2, SameConstructed, MonoqueAssumption DEF Sizes
<1>4. Stored'
  BY <1>3, StoredNext DEF Gone
<1>5. Constructed'
  BY <1>1, <1>2, SameConstructed DEF Constructed
<1>6. lifetime \in [Names -> {"none", "alive"} \cup Names]
  BY DEF Inv, Lifetimes
<1>7. Lifetimes'
  BY <1>1, <1>2, <1>6 DEF Inv, Lifetimes
<1>8. Copies'
  BY <1>6, Places DEF Copies
<1> QED
  BY <1>4, <1>5, <1>7, <1>8 DEF Inv

\* The destructor keeps the invariant.
LEMMA InvDestroy ==
    ASSUME Inv, NEW m \in Names, Destroy(m)
    PROVE  /\ Inv'
           /\ \/ UNCHANGED <<obj, heap, lifetime>>
              \/ Gone(m) /\ lifetime' = [lifetime EXCEPT ![m] = "none"] /\ lifetime[m] = "alive"
<1>0. Usable(m) /\ abandoned' = abandoned
  BY DEF Destroy
<1>1. CASE fault' = "none"
  <2>1. Gone(m) /\ lifetime' = [lifetime EXCEPT ![m] = "none"]
    BY <1>1, DestroyEffect DEF Inv
  <2> QED
    BY <1>0, <2>1, InvGone DEF Usable
<1>2. CASE fault' # "none"
  <2>1. UNCHANGED <<obj, heap, lifetime>>
    BY <1>0, <1>2 DEF Destroy, Usable
  <2> QED
    BY <1>0, <2>1, InvUnchanged
<1> QED
  BY <1>1, <1>2

\* So does a copy constructor that throws.
LEMMA InvCopyThrows ==
    ASSUME Inv, NEW m \in Names, CopyThrows(m)
    PROVE  /\ Inv' /\ Gone(m) /\ lifetime' = [lifetime EXCEPT ![m] = "none"]
           /\ lifetime[m] \in Names
<1>1. Gone(m) /\ lifetime' = [lifetime EXCEPT ![m] = "none"] /\ lifetime[m] \in Names
  BY CopyThrowsEffect DEF Inv, CopyThrows
<1>2. \A n \in Names : n # m => lifetime[n] \notin Names
  BY <1>1 DEF Inv, Copies, Copying
<1> QED
  BY <1>1, <1>2, InvGone

\* m and n have each other's elements, and the memory is what it was.
Exchanged(m, n) ==
    /\ m # n /\ UNCHANGED <<heap, lifetime>>
    /\ obj'[m] = obj[n] /\ obj'[n] = obj[m]
    /\ \A x \in Names : x \notin {m, n} => obj'[x] = obj[x]

\* Swap keeps the invariant.
LEMMA InvSwap ==
    ASSUME Inv, NEW m \in Names, NEW other \in Names, Swap(m, other)
    PROVE  Inv' /\ Exchanged(m, other)
<1>1. /\ Usable(m) /\ Usable(other) /\ m # other /\ UNCHANGED <<heap, lifetime, abandoned>>
      /\ obj' = [obj EXCEPT ![m] = obj[other], ![other] = obj[m]]
  BY DEF Swap
<1>2. Members(obj') /\ Memory(obj', heap', abandoned')
  <2>1. Members(obj) /\ Memory(obj, heap, abandoned)
    BY DEF Inv, Stored
  <2> QED
    BY <1>1, <2>1, SwapMemory
<1>3. /\ obj'[m] = obj[other] /\ obj'[other] = obj[m]
      /\ \A x \in Names : x \notin {m, other} => obj'[x] = obj[x]
  BY <1>1 DEF Inv, Stored, Members
<1>4. \A x \in Names : \E y \in Names : obj'[x] = obj[y]
  BY <1>3
<1>5. Stored'
  BY <1>2, <1>4, StoredNext DEF Inv, Stored, Sized
<1>6. Constructed'
  BY <1>1, <1>4 DEF Inv, Constructed
<1>7. \A x \in Names : lifetime[x] = "none" => obj'[x] = obj[x]
  BY <1>1, <1>3 DEF Usable
<1> QED
  BY <1>1, <1>3, <1>5, <1>6, <1>7, Undisturbed DEF Exchanged

\* Every step does.
LEMMA InvNext == Inv /\ [Next]_vars => Inv'
<1> SUFFICES ASSUME Inv, [Next]_vars PROVE Inv'
  OBVIOUS
<1>1. ASSUME NEW m \in Names, Construct(m) PROVE Inv'
  BY <1>1, InvConstruct
<1>2. ASSUME NEW m \in Names, CopyStep(m) PROVE Inv'
  BY <1>2, InvCopyStep
<1>3. ASSUME NEW m \in Names, CopyThrows(m) PROVE Inv'
  BY <1>3, InvCopyThrows
<1>4. ASSUME NEW m \in Names, Destroy(m) PROVE Inv'
  BY <1>4, InvDestroy
<1>5. ASSUME NEW m \in Names, PopBack(m) PROVE Inv'
  BY <1>5, InvPopBack
<1>6. ASSUME NEW m \in Names, EmplaceBackFails(m) PROVE Inv'
  BY <1>6, InvEmplaceBackFails
<1>7. ASSUME NEW m \in Names, ShrinkToFit(m) PROVE Inv'
  BY <1>7, InvShrinkToFit
<1>8. ASSUME NEW m \in Names, NEW v \in Values, EmplaceBack(m, v) PROVE Inv'
  BY <1>8, InvEmplaceBack
<1>9. ASSUME NEW m \in Names, NEW i \in Sizes, NEW v \in Values, Assign(m, i, v) PROVE Inv'
  BY <1>9, InvAssign
<1>10. ASSUME NEW m \in Names, NEW n \in Sizes, Reserve(m, n) PROVE Inv'
  BY <1>10, InvReserve
<1>11. ASSUME NEW m \in Names, NEW n \in Sizes, Resize(m, n) PROVE Inv'
  BY <1>11, InvUnchanged DEF Resize
<1>12. ASSUME NEW m \in Names, NEW other \in Names, StartCopy(m, other) PROVE Inv'
  BY <1>12, InvStartCopy
<1>13. ASSUME NEW m \in Names, NEW other \in Names, Swap(m, other) PROVE Inv'
  BY <1>13, InvSwap
<1>14. CASE Faulted \/ UNCHANGED vars
  BY <1>14, InvUnchanged DEF Faulted, vars
<1> QED
  BY <1>1, <1>2, <1>3, <1>4, <1>5, <1>6, <1>7, <1>8, <1>9, <1>10, <1>11, <1>12, <1>13, <1>14
     DEF Next

(* The invariant holds in every reachable state.                            *)
THEOREM Invariance == Spec => []Inv
BY InvInit, InvNext, PTL DEF Spec

-----------------------------------------------------------------------------
(* The safety invariant.                                                   *)

\* The invariant implies that every block has one owner.
LEMMA InvOwned == Inv => BlocksOwned
<1> SUFFICES ASSUME Inv PROVE BlocksOwned
  OBVIOUS
<1>1. /\ Filled(heap) /\ Fitting(obj, heap) /\ Single(obj) /\ Lost(obj, heap, abandoned)
      /\ Accounted(obj, heap, abandoned) /\ Members(obj)
  BY DEF Inv, Stored, Memory
<1>2. \A m \in Names : Owned(m) = {obj[m].m_block_list[i] : i \in Live(obj[m])}
  BY DEF Owned, Live
<1>3. TypeOK
  <2>1. ASSUME NEW m \in Names
        PROVE  /\ obj[m].m_size \in 0 .. capacity(obj[m])
               /\ obj[m].m_allocated_blocks \in 0 .. obj[m].m_capacity_blocks
               /\ obj[m].m_capacity_blocks \in Capacities
               /\ obj[m].m_block_list \in [0 .. obj[m].m_capacity_blocks - 1 -> Blocks \cup {Null}]
               /\ obj[m].freed \in BOOLEAN
    <3>1. Member(obj[m]) /\ obj[m].m_size \in Nat /\ capacity(obj[m]) \in Nat
      BY StoredType DEF Inv
    <3> QED
      BY <3>1, MemberType DEF Member, Lists
  <2>2. \A b \in Blocks : heap[b] = Free \/ \E n \in 0 .. WordBits : heap[b] \in Contents(n)
    BY <1>1 DEF Filled
  <2>3. lifetime \in [Names -> {"none", "alive"} \cup Names] /\ abandoned \subseteq Blocks
    BY <1>1 DEF Inv, Lifetimes, Lost
  <2> QED
    BY <2>1, <2>2, <2>3 DEF TypeOK
<1>4. {b \in Blocks : heap[b] # Free} = abandoned \cup UNION {Owned(m) : m \in Names}
  <2>1. \A m \in Names : \A b \in Owned(m) : b \in Blocks /\ heap[b] # Free
    BY <1>1, <1>2, LiveNotFree DEF Fitting
  <2>2. \A b \in abandoned : b \in Blocks /\ heap[b] # Free
    BY <1>1 DEF Lost
  <2>3. \A b \in Blocks : heap[b] # Free => b \in abandoned \/ \E m \in Names : b \in Owned(m)
    BY <1>1, <1>2 DEF Accounted
  <2> QED
    BY <2>1, <2>2, <2>3
<1>5. ASSUME NEW m \in Names
      PROVE  /\ Null \notin Owned(m) /\ Owned(m) \cap abandoned = {}
             /\ \A n \in Names \ {m} : Owned(m) \cap Owned(n) = {}
             /\ Cardinality(Owned(m)) = obj[m].m_allocated_blocks
             /\ \A i \in 0 .. obj[m].m_allocated_blocks - 1 :
                   DOMAIN heap[obj[m].m_block_list[i]] = 0 .. size_of_block(i) - 1
  <2>1. Null \notin Owned(m) /\ Owned(m) \cap abandoned = {}
    BY <1>1, <1>2, MonoqueAssumption DEF Fitting, Lost
  <2>2. ASSUME NEW n \in Names \ {m}, NEW b \in Owned(m), b \in Owned(n) PROVE FALSE
    <3>1. PICK i \in Live(obj[m]) : b = obj[m].m_block_list[i]
      BY <1>2
    <3>2. PICK j \in Live(obj[n]) : b = obj[n].m_block_list[j]
      BY <1>2, <2>2
    <3> QED
      BY <1>1, <3>1, <3>2, OnePlace
  <2>3. Cardinality(Owned(m)) = obj[m].m_allocated_blocks
    <3> DEFINE a == obj[m].m_allocated_blocks
               f == [i \in 0 .. a - 1 |-> obj[m].m_block_list[i]]
    <3>1. a \in Nat
      BY StoredType DEF Inv
    <3>2. \A i, j \in 0 .. a - 1 : f[i] = f[j] => i = j
      BY <1>1, OnePlace DEF Live
    <3>3. f \in [0 .. a - 1 -> Owned(m)] /\ \A b \in Owned(m) : \E i \in 0 .. a - 1 : f[i] = b
      BY <1>2 DEF Live
    <3> HIDE DEF f
    <3>4. f \in Bijection(0 .. a - 1, Owned(m))
      BY <3>2, <3>3 DEF Bijection, Injection, Surjection, IsInjective
    <3>5. IsFiniteSet(0 .. a - 1) /\ Cardinality(0 .. a - 1) = a
      <4>1. 0 \in Int /\ a - 1 \in Int
        BY <3>1
      <4>2. /\ IsFiniteSet(0 .. a - 1)
            /\ Cardinality(0 .. a - 1) = IF 0 > a - 1 THEN 0 ELSE (a - 1) - 0 + 1
        BY <4>1, FS_Interval
      <4> QED
        BY <3>1, <4>2
    <3> QED
      BY <3>4, <3>5, FS_Bijection, FS_SameCardinalityBij DEF ExistsBijection
  <2>4. \A i \in Live(obj[m]) : DOMAIN heap[obj[m].m_block_list[i]] = 0 .. size_of_block(i) - 1
    BY <1>1 DEF Fitting, Contents
  <2> QED
    BY <2>1, <2>2, <2>3, <2>4 DEF Live
<1> QED
  BY <1>3, <1>4, <1>5 DEF BlocksOwned

(* Every allocated block has one place in the list of one monoque and the   *)
(* size of that place, or was lost by a copy that threw, whatever throws in *)
(* add_block, expand_block_list, emplace_back or the copy constructor.      *)
THEOREM Ownership == Spec => []BlocksOwned
BY Invariance, InvOwned, PTL

(* No element that operator[], an iterator or the copy constructor can reach *)
(* is raw memory: each index below the size is that of a constructed value.  *)
THEOREM NoRawElements == Spec => []Constructed
<1>1. Inv => Constructed
  BY DEF Inv
<1> QED
  BY <1>1, Invariance, PTL

-----------------------------------------------------------------------------
(* Where the elements stay.                                                *)

(* shrink_to_fit leaves room for the elements, and no block they could do    *)
(* without: its loop neither stops early nor frees a block that is in use.   *)
THEOREM ShrinksTight == Spec => ShrinkLeavesTight
<1> DEFINE T == \A m \in Names :
          ShrinkToFit(m) /\ fault' = "none" =>
             /\ obj'[m].m_size <= capacity(obj'[m])
             /\ \A k \in 0 .. obj'[m].m_allocated_blocks - 1 :
                   CapacityOf(k) < obj'[m].m_size
<1>1. Inv /\ [Next]_vars => [T]_vars
  <2> SUFFICES ASSUME Inv, NEW m \in Names, ShrinkToFit(m), fault' = "none"
               PROVE  /\ obj'[m].m_size <= capacity(obj'[m])
                      /\ \A k \in 0 .. obj'[m].m_allocated_blocks - 1 :
                            CapacityOf(k) < obj'[m].m_size
    OBVIOUS
  <2>1. SameElements(m) /\ obj'[m].m_allocated_blocks = FitBlocks(obj[m])
    BY ShrinkEffect DEF Inv
  <2>2. /\ obj[m].m_allocated_blocks \in 0 .. WordBits /\ obj[m].m_size \in 0 .. capacity(obj[m])
    BY StoredType DEF Inv
  <2>3. /\ obj[m].m_size <= CapacityOf(FitBlocks(obj[m]))
        /\ \A k \in 0 .. FitBlocks(obj[m]) - 1 : CapacityOf(k) < obj[m].m_size
    BY <2>2, Fits
  <2> QED
    BY <2>1, <2>3 DEF SameElements, capacity
<1> QED
  BY <1>1, Invariance, PTL DEF Spec, ShrinkLeavesTight

\* Elements that stay have not moved.
LEMMA SameKeeps ==
    ASSUME Inv, NEW m \in Names, SameElements(m)
    PROVE  Keeps(m, m)
<1>1. obj[m].m_size \in Nat /\ obj'[m].m_size = obj[m].m_size
  BY StoredType DEF SameElements, Inv
<1>2. \A i \in 0 .. obj[m].m_size - 1 : i \in Nat /\ i < obj[m].m_size
  BY <1>1
<1> QED
  BY <1>1, <1>2 DEF Keeps, SameElements

\* Members that are handed over keep every address.
LEMMA UnchangedKeeps ==
    ASSUME Inv, NEW m \in Names, NEW n \in Names, obj'[n] = obj[m]
    PROVE  /\ obj'[n].m_size >= obj[m].m_size - 1
           /\ \A i \in 0 .. obj[m].m_size - 1 : Address(obj'[n], i) = Address(obj[m], i)
BY StoredType DEF Inv

-----------------------------------------------------------------------------
StaysOrSwapped(m) ==
    \/ Keeps(m, m)
    \/ \E n \in Names : Keeps(m, n) /\ Keeps(n, m)

\* A step that changes no members moves nothing,
LEMMA NothingKeeps ==
    ASSUME Inv, UNCHANGED obj, NEW m \in Names
    PROVE  Keeps(m, m)
BY UnchangedKeeps DEF Keeps, Address

\* nor does one that adds an element,
LEMMA OneMoreKeeps ==
    ASSUME Inv, NEW m \in Names, NEW v, OneMore(m, v), NEW n \in Names
    PROVE  Keeps(n, n)
<1>1. CASE n # m
  BY <1>1, SameKeeps DEF OneMore
<1>2. CASE n = m
  <2>1. obj[m].m_size \in Nat /\ obj'[m].m_size = obj[m].m_size + 1
    BY StoredType DEF OneMore, Inv
  <2>2. \A i \in 0 .. obj[m].m_size - 1 : i \in Nat /\ i < obj[m].m_size
    BY <2>1
  <2> QED
    BY <1>2, <2>1, <2>2 DEF Keeps, OneMore
<1> QED
  BY <1>1, <1>2

\* nor one that takes the last one.
LEMMA OneLessKeeps ==
    ASSUME Inv, NEW m \in Names, OneLess(m), NEW n \in Names
    PROVE  Keeps(n, n)
<1>1. CASE n # m
  BY <1>1, SameKeeps DEF OneLess
<1>2. CASE n = m
  <2>1. obj[m].m_size \in Nat /\ obj'[m].m_size = obj[m].m_size - 1
    BY StoredType DEF OneLess, Inv
  <2>2. \A i \in 0 .. obj[m].m_size - 1 : i \in Nat
    BY <2>1
  <2> QED
    BY <1>2, <2>1, <2>2 DEF Keeps, OneLess
<1> QED
  BY <1>1, <1>2

\* No step moves an element of a monoque, unless swap hands over all of them.
LEMMA StepKeeps ==
    ASSUME Inv, Next, NEW m \in Names, lifetime[m] = "alive", lifetime'[m] = "alive"
    PROVE  StaysOrSwapped(m)
<1>0. SameElements(m) \/ UNCHANGED obj \/ Keeps(m, m) => StaysOrSwapped(m)
  BY SameKeeps, NothingKeeps DEF StaysOrSwapped
<1>1. ASSUME NEW x \in Names, Construct(x) PROVE StaysOrSwapped(m)
  BY <1>0, <1>1 DEF Construct
<1>2. ASSUME NEW x \in Names, CopyStep(x) PROVE StaysOrSwapped(m)
  <2>1. CASE UNCHANGED lifetime /\ \A n \in Names : n # x => SameElements(n) /\ obj'[n] = obj[n]
    <3>1. m # x
      BY <1>2, Places DEF CopyStep
    <3> QED
      BY <1>0, <2>1, <3>1
  <2> QED
    BY <1>0, <1>2, <2>1, InvCopyStep
<1>3. ASSUME NEW x \in Names, CopyThrows(x) PROVE StaysOrSwapped(m)
  <2>1. Gone(x) /\ m # x
    BY <1>3, InvCopyThrows, Places
  <2> QED
    BY <1>0, <2>1 DEF Gone
<1>4. ASSUME NEW x \in Names, Destroy(x) PROVE StaysOrSwapped(m)
  <2>1. CASE Gone(x) /\ lifetime' = [lifetime EXCEPT ![x] = "none"]
    <3>1. m # x
      BY <2>1 DEF Inv, Lifetimes
    <3> QED
      BY <1>0, <2>1, <3>1 DEF Gone
  <2> QED
    BY <1>0, <1>4, <2>1, InvDestroy
<1>5. ASSUME NEW x \in Names, PopBack(x) PROVE StaysOrSwapped(m)
  BY <1>0, <1>5, InvPopBack, OneLessKeeps
<1>6. ASSUME NEW x \in Names, EmplaceBackFails(x) PROVE StaysOrSwapped(m)
  BY <1>0, <1>6, InvEmplaceBackFails
<1>7. ASSUME NEW x \in Names, ShrinkToFit(x) PROVE StaysOrSwapped(m)
  BY <1>0, <1>7, InvShrinkToFit
<1>8. ASSUME NEW x \in Names, NEW v \in Values, EmplaceBack(x, v) PROVE StaysOrSwapped(m)
  BY <1>0, <1>8, InvEmplaceBack, OneMoreKeeps
<1>9. ASSUME NEW x \in Names, NEW i \in Sizes, NEW v \in Values, Assign(x, i, v)
      PROVE  StaysOrSwapped(m)
  BY <1>0, <1>9 DEF Assign
<1>10. ASSUME NEW x \in Names, NEW n \in Sizes, Reserve(x, n) PROVE StaysOrSwapped(m)
  BY <1>0, <1>10, InvReserve
<1>11. ASSUME NEW x \in Names, NEW n \in Sizes, Resize(x, n) PROVE StaysOrSwapped(m)
  BY <1>0, <1>11 DEF Resize
<1>12. ASSUME NEW x \in Names, NEW other \in Names, StartCopy(x, other)
       PROVE  StaysOrSwapped(m)
  BY <1>0, <1>12 DEF StartCopy
<1>13. ASSUME NEW x \in Names, NEW other \in Names, Swap(x, other) PROVE StaysOrSwapped(m)
  <2>1. Exchanged(x, other)
    BY <1>13, InvSwap
  <2>2. CASE m \notin {x, other}
    <3>1. obj'[m] = obj[m]
      BY <2>1, <2>2 DEF Exchanged
    <3> QED
      BY <3>1, UnchangedKeeps DEF Keeps, Address, StaysOrSwapped
  <2>3. Keeps(x, other) /\ Keeps(other, x)
    <3>1. obj'[x] = obj[other] /\ obj'[other] = obj[x]
      BY <2>1 DEF Exchanged
    <3> QED
      BY <3>1, UnchangedKeeps DEF Keeps, Address
  <2> QED
    BY <2>2, <2>3 DEF StaysOrSwapped
<1>14. CASE Faulted
  BY <1>0, <1>14 DEF Faulted, vars
<1> QED
  BY <1>1, <1>2, <1>3, <1>4, <1>5, <1>6, <1>7, <1>8, <1>9, <1>10, <1>11, <1>12, <1>13, <1>14
     DEF Next

(* No operation moves an element: emplace_back, reserve, shrink_to_fit and   *)
(* pop_back leave the address of every element that is left as it was, and   *)
(* swap hands all of them over.                                              *)
THEOREM ElementsStay == Spec => ElementsDoNotMove
<1> DEFINE T == \A m \in Names :
          lifetime[m] = "alive" /\ lifetime'[m] = "alive" =>
             \/ Keeps(m, m)
             \/ \E n \in Names : Keeps(m, n) /\ Keeps(n, m)
<1>1. Inv /\ [Next]_vars => [T]_vars
  BY StepKeeps DEF StaysOrSwapped
<1> QED
  BY <1>1, Invariance, PTL DEF Spec, ElementsDoNotMove

-----------------------------------------------------------------------------
(* The sequence of the elements.                                           *)

Elements(ob, h, n) == [i \in 1 .. ob[n].m_size |-> ReadIn(h, ob[n], i - 1)]

\* The mapped sequences, before and after a step.
LEMMA ElemsAre ==
    /\ elems = [m \in Names |-> IF lifetime[m] # "alive" THEN Absent
                                ELSE Elements(obj, heap, m)]
    /\ elems' = [m \in Names |-> IF lifetime'[m] # "alive" THEN Absent
                                 ELSE Elements(obj', heap', m)]
BY DEF elems, Elements, ReadIn, Read

-----------------------------------------------------------------------------
\* The elements are a sequence of values as long as the size.
LEMMA ElementsSeq ==
    ASSUME Inv, NEW n \in Names
    PROVE  /\ Elements(obj, heap, n) \in [1 .. obj[n].m_size -> Values]
           /\ Elements(obj, heap, n) \in Seq(Values)
           /\ Len(Elements(obj, heap, n)) = obj[n].m_size
           /\ Elements(obj, heap, n) # Absent /\ obj[n].m_size \in Nat
<1> DEFINE e == Elements(obj, heap, n)
           s == obj[n].m_size
<1>1. s \in Nat
  BY StoredType DEF Inv
<1>2. \A i \in 1 .. s : i - 1 \in Nat /\ i - 1 < s
  BY <1>1
<1>3. e \in [1 .. s -> Values]
  BY <1>2 DEF Elements, Inv, Constructed
<1> HIDE DEF e, s
<1>4. e \in Seq(Values) /\ Len(e) = s
  BY <1>1, <1>3
<1> QED
  BY <1>1, <1>3, <1>4, AbsentAssumption DEF e, s

\* Elements that stay are the same sequence.
LEMMA SameSeq ==
    ASSUME Inv, NEW n \in Names, SameElements(n)
    PROVE  Elements(obj', heap', n) = Elements(obj, heap, n)
<1>1. obj[n].m_size \in Nat /\ obj'[n].m_size = obj[n].m_size
  BY StoredType DEF Inv, SameElements
<1>2. \A i \in 1 .. obj[n].m_size : i - 1 \in Nat /\ i - 1 < obj[n].m_size
  BY <1>1
<1> QED
  BY <1>1, <1>2 DEF Elements, SameElements

\* A step that changes neither members nor memory leaves all elements.
LEMMA NothingSame ==
    ASSUME UNCHANGED <<obj, heap>>, NEW n \in Names
    PROVE  SameElements(n)
BY DEF SameElements

\* A step that touches the elements of m alone.
LEMMA ChangesOne ==
    ASSUME Inv, NEW m \in Names,
           \A n \in Names : n # m => SameElements(n) /\ lifetime'[n] = lifetime[n]
    PROVE  elems' = [elems EXCEPT ![m] = IF lifetime'[m] # "alive" THEN Absent
                                         ELSE Elements(obj', heap', m)]
<1>1. \A n \in Names : n # m => Elements(obj', heap', n) = Elements(obj, heap, n)
  BY SameSeq
<1> QED
  BY <1>1, ElemsAre

\* A step that leaves the elements of all that are there is a stuttering step.
LEMMA ChangesNone ==
    ASSUME Inv,
           \A n \in Names : \/ SameElements(n)
                            \/ lifetime[n] # "alive" /\ lifetime'[n] # "alive",
           \A n \in Names : lifetime'[n] = "alive" <=> lifetime[n] = "alive"
    PROVE  UNCHANGED elems
<1>1. \A n \in Names : \/ Elements(obj', heap', n) = Elements(obj, heap, n)
                       \/ lifetime[n] # "alive" /\ lifetime'[n] # "alive"
  BY SameSeq
<1> QED
  BY <1>1, ElemsAre

\* The sequence of a monoque that is there.
LEMMA ElemsOne ==
    ASSUME Inv, NEW m \in Names
    PROVE  /\ elems[m] = IF lifetime[m] # "alive" THEN Absent ELSE Elements(obj, heap, m)
           /\ lifetime[m] = "alive" => elems[m] # Absent
BY ElemsAre, ElementsSeq

\* A constructed monoque is the empty sequence.
LEMMA RefinesConstruct ==
    ASSUME Inv, NEW m \in Names, Construct(m)
    PROVE  Contract!Construct(m)
<1>1. /\ UNCHANGED <<obj, heap>> /\ lifetime[m] = "none"
      /\ lifetime' = [lifetime EXCEPT ![m] = "alive"]
      /\ lifetime \in [Names -> {"none", "alive"} \cup Names]
  BY DEF Construct, Inv, Lifetimes
<1>2. elems' = [elems EXCEPT ![m] = Elements(obj', heap', m)]
  <2>1. lifetime'[m] = "alive" /\ \A n \in Names : n # m => lifetime'[n] = lifetime[n]
    BY <1>1
  <2> QED
    BY <1>1, <2>1, NothingSame, ChangesOne
<1>3. obj'[m].m_size = 0
  BY <1>1 DEF Inv, Lifetimes, Empty
<1>4. Elements(obj', heap', m) = <<>>
  BY <1>3 DEF Elements
<1>5. elems[m] = Absent
  BY <1>1, ElemsOne
<1> QED
  BY <1>2, <1>4, <1>5 DEF Contract!Construct, Contract!Change

\* A copy appears when it is complete, as the sequence it was made from.
LEMMA RefinesCopy ==
    ASSUME Inv, NEW m \in Names, CopyStep(m)
    PROVE  UNCHANGED elems \/ \E n \in Names : Contract!Copy(m, n)
<1> DEFINE o == lifetime[m]
<1>1. /\ o \in Names /\ lifetime[o] = "alive" /\ o # m /\ lifetime[m] # "alive"
      /\ \A i \in Nat : i < obj[m].m_size => ReadIn(heap, obj[m], i) = ReadIn(heap, obj[o], i)
      /\ lifetime \in [Names -> {"none", "alive"} \cup Names] /\ obj[m].m_size \in Nat
  BY Places, StoredType DEF CopyStep, Inv, Copies, Copying, Lifetimes
<1>2. CASE UNCHANGED lifetime /\ \A n \in Names : n # m => SameElements(n) /\ obj'[n] = obj[n]
  BY <1>1, <1>2, ChangesNone
<1>3. CASE /\ UNCHANGED <<obj, heap>> /\ lifetime' = [lifetime EXCEPT ![m] = "alive"]
           /\ obj[m].m_size = obj[lifetime[m]].m_size
  <2>1. elems' = [elems EXCEPT ![m] = Elements(obj', heap', m)]
    <3>1. lifetime'[m] = "alive" /\ \A n \in Names : n # m => lifetime'[n] = lifetime[n]
      BY <1>1, <1>3
    <3> QED
      BY <1>3, <3>1, NothingSame, ChangesOne
  <2>2. Elements(obj', heap', m) = Elements(obj, heap, o)
    <3>1. \A i \in 1 .. obj[m].m_size : i - 1 \in Nat /\ i - 1 < obj[m].m_size
      BY <1>1
    <3> QED
      BY <1>1, <1>3, <3>1 DEF Elements
  <2>3. elems[m] = Absent /\ elems[o] = Elements(obj, heap, o) /\ elems[o] # Absent
    BY <1>1, ElemsOne
  <2>4. Contract!Copy(m, o)
    BY <2>1, <2>2, <2>3 DEF Contract!Copy, Contract!Change
  <2> QED
    BY <1>1, <2>4
<1> QED
  BY <1>2, <1>3, InvCopyStep

\* A copy that throws was never there.
LEMMA RefinesCopyThrows ==
    ASSUME Inv, NEW m \in Names, CopyThrows(m)
    PROVE  UNCHANGED elems
<1>1. /\ Gone(m) /\ lifetime' = [lifetime EXCEPT ![m] = "none"] /\ lifetime[m] # "alive"
      /\ lifetime \in [Names -> {"none", "alive"} \cup Names]
  BY InvCopyThrows, Places DEF Inv, Lifetimes
<1> QED
  BY <1>1, ChangesNone DEF Gone

\* A destroyed monoque is there no more.
LEMMA RefinesDestroy ==
    ASSUME Inv, NEW m \in Names, Destroy(m)
    PROVE  UNCHANGED elems \/ Contract!Destroy(m)
<1>1. CASE UNCHANGED <<obj, heap, lifetime>>
  BY <1>1, NothingSame, ChangesNone
<1>2. CASE Gone(m) /\ lifetime' = [lifetime EXCEPT ![m] = "none"] /\ lifetime[m] = "alive"
  <2>1. lifetime'[m] = "none" /\ \A n \in Names : n # m => lifetime'[n] = lifetime[n]
    BY <1>2 DEF Inv, Lifetimes
  <2>2. elems' = [elems EXCEPT ![m] = Absent]
    BY <1>2, <2>1, ChangesOne DEF Gone
  <2> QED
    BY <1>2, <2>2, ElemsOne DEF Contract!Destroy, Contract!Change
<1> QED
  BY <1>1, <1>2, InvDestroy

\* pop_back is the sequence without its last element.
LEMMA RefinesPopBack ==
    ASSUME Inv, NEW m \in Names, PopBack(m)
    PROVE  Contract!PopBack(m)
<1> DEFINE e == Elements(obj, heap, m)
           s == obj[m].m_size
<1>1. OneLess(m) /\ UNCHANGED lifetime /\ lifetime[m] = "alive"
  BY InvPopBack DEF PopBack, Usable
<1>2. /\ s \in Nat /\ s # 0 /\ e \in [1 .. s -> Values] /\ e \in Seq(Values) /\ Len(e) = s
      /\ obj'[m].m_size = s - 1
  BY <1>1, ElementsSeq DEF OneLess
<1>3. elems' = [elems EXCEPT ![m] = Elements(obj', heap', m)] /\ elems[m] = e /\ e # Absent
  BY <1>1, ChangesOne, ElemsOne DEF OneLess
<1>4. \A i \in 1 .. s - 1 : i - 1 \in Nat /\ i - 1 < s - 1
  BY <1>2
<1>5. Elements(obj', heap', m) = [i \in 1 .. s - 1 |-> e[i]]
  <2>1. \A i \in 1 .. s - 1 : i \in 1 .. s /\ e[i] = ReadIn(heap, obj[m], i - 1)
    BY <1>2 DEF Elements
  <2>2. \A i \in 1 .. s - 1 : ReadIn(heap', obj'[m], i - 1) = ReadIn(heap, obj[m], i - 1)
    BY <1>1, <1>2, <1>4 DEF OneLess
  <2> HIDE DEF e
  <2> QED
    BY <1>2, <2>1, <2>2 DEF Elements
<1> HIDE DEF e, s
<1>6. SubSeq(e, 1, Len(e) - 1) = [i \in 1 .. s - 1 |-> e[i]]
  BY <1>2
<1>7. e # <<>>
  BY <1>2
<1> QED
  BY <1>3, <1>5, <1>6, <1>7 DEF Contract!PopBack, Contract!Change

\* emplace_back appends to the sequence.
LEMMA RefinesEmplaceBack ==
    ASSUME Inv, NEW m \in Names, NEW v \in Values, EmplaceBack(m, v)
    PROVE  Contract!EmplaceBack(m, v)
<1> DEFINE e == Elements(obj, heap, m)
           s == obj[m].m_size
           e2 == Elements(obj', heap', m)
<1>1. OneMore(m, v) /\ UNCHANGED lifetime /\ lifetime[m] = "alive"
  BY InvEmplaceBack DEF EmplaceBack, Usable
<1>2. /\ s \in Nat /\ e \in [1 .. s -> Values] /\ e \in Seq(Values) /\ Len(e) = s
      /\ obj'[m].m_size = s + 1
  BY <1>1, ElementsSeq DEF OneMore
<1>3. elems' = [elems EXCEPT ![m] = e2] /\ elems[m] = e /\ e # Absent
  BY <1>1, ChangesOne, ElemsOne DEF OneMore
<1>4. e2 = [i \in 1 .. s + 1 |-> IF i = s + 1 THEN v ELSE e[i]]
  <2>1. \A i \in 1 .. s : e[i] = ReadIn(heap, obj[m], i - 1)
    BY DEF Elements
  <2>2. \A i \in 1 .. s : ReadIn(heap', obj'[m], i - 1) = ReadIn(heap, obj[m], i - 1)
    <3>1. \A i \in 1 .. s : i - 1 \in Nat /\ i - 1 < s
      BY <1>2
    <3> QED
      BY <1>1, <3>1 DEF OneMore
  <2>3. ReadIn(heap', obj'[m], s) = v
    BY <1>1 DEF OneMore
  <2>4. e2 = [i \in 1 .. s + 1 |-> ReadIn(heap', obj'[m], i - 1)]
    BY <1>2 DEF Elements
  <2> HIDE DEF e, e2
  <2>5. ASSUME NEW i \in 1 .. s + 1
        PROVE  ReadIn(heap', obj'[m], i - 1) = IF i = s + 1 THEN v ELSE e[i]
    <3>1. CASE i = s + 1
      <4>1. i - 1 = s
        BY <1>2, <3>1
      <4> QED
        BY <2>3, <3>1, <4>1
    <3>2. CASE i # s + 1
      <4>1. i \in 1 .. s
        BY <1>2, <3>2
      <4> QED
        BY <2>1, <2>2, <3>2, <4>1
    <3> QED
      BY <3>1, <3>2
  <2> QED
    BY <2>4, <2>5
<1> HIDE DEF e, e2, s
<1>5. Append(e, v) = e2
  <2>1. /\ Append(e, v) \in Seq(Values) /\ Len(Append(e, v)) = s + 1
        /\ \A i \in 1 .. s + 1 : Append(e, v)[i] = IF i = s + 1 THEN v ELSE e[i]
    BY <1>2
  <2> DEFINE q == Append(e, v)
  <2> HIDE DEF q
  <2>2. q \in Seq(Values) /\ Len(q) = s + 1 /\ s + 1 \in Nat
    BY <1>2, <2>1 DEF q
  <2>3. q \in [1 .. s + 1 -> Values]
    BY <2>2
  <2>4. \A i \in 1 .. s + 1 : q[i] = IF i = s + 1 THEN v ELSE e[i]
    BY <2>1 DEF q
  <2>5. q = e2
    BY <1>4, <2>3, <2>4
  <2> QED
    BY <2>5 DEF q
<1> QED
  BY <1>3, <1>5 DEF Contract!EmplaceBack, Contract!Change

\* A write replaces one element of the sequence.
LEMMA RefinesAssign ==
    ASSUME Inv, NEW m \in Names, NEW i \in Sizes, NEW v \in Values, Assign(m, i, v)
    PROVE  Contract!Assign(m, v)
<1> DEFINE e == Elements(obj, heap, m)
           s == obj[m].m_size
           e2 == Elements(obj', heap', m)
<1>0. i \in Nat
  BY MonoqueAssumption DEF Sizes
<1>1. Rewritten(m, i, v) /\ i < s /\ UNCHANGED lifetime /\ lifetime[m] = "alive" /\ i \in Nat
  <2>1. lifetime[m] = "alive"
    BY DEF Assign, Usable
  <2> QED
    BY <1>0, <2>1, InvAssign
<1>2. s \in Nat /\ e \in [1 .. s -> Values] /\ Len(e) = s /\ obj'[m].m_size = s
  BY <1>1, ElementsSeq DEF Rewritten
<1>3. \A n \in Names : n # m => SameElements(n)
  BY <1>1 DEF Rewritten, SameElements
<1>4. elems' = [elems EXCEPT ![m] = e2] /\ elems[m] = e /\ e # Absent
  BY <1>1, <1>3, ChangesOne, ElemsOne
<1>5. e2 = [e EXCEPT ![i + 1] = v]
  <2>1. \A j \in 1 .. s : e[j] = ReadIn(heap, obj[m], j - 1)
    BY DEF Elements
  <2>2. e2 = [j \in 1 .. s |-> ReadIn(heap', obj'[m], j - 1)]
    BY <1>2 DEF Elements
  <2> HIDE DEF e, e2
  <2>3. ASSUME NEW j \in 1 .. s
        PROVE  ReadIn(heap', obj'[m], j - 1) = IF j = i + 1 THEN v ELSE e[j]
    <3>1. CASE j = i + 1
      <4>1. j - 1 = i
        BY <1>1, <3>1
      <4> QED
        BY <1>1, <3>1, <4>1 DEF Rewritten
    <3>2. CASE j # i + 1
      <4>1. j - 1 \in Nat /\ j - 1 < s /\ j - 1 # i
        BY <1>1, <1>2, <3>2
      <4>2. ReadIn(heap', obj'[m], j - 1) = ReadIn(heap, obj[m], j - 1)
        BY <1>1, <4>1 DEF Rewritten
      <4> QED
        BY <2>1, <3>2, <4>2
    <3> QED
      BY <3>1, <3>2
  <2>4. [e EXCEPT ![i + 1] = v] = [j \in 1 .. s |-> IF j = i + 1 THEN v ELSE e[j]]
    BY <1>2
  <2> QED
    BY <2>2, <2>3, <2>4
<1>6. i + 1 \in 1 .. Len(e)
  BY <1>1, <1>2
<1> HIDE DEF e, e2, s
<1> QED
  BY <1>4, <1>5, <1>6 DEF Contract!Assign, Contract!Change

\* Swap exchanges two sequences.
LEMMA RefinesSwap ==
    ASSUME Inv, NEW m \in Names, NEW other \in Names, Swap(m, other)
    PROVE  Contract!Swap(m, other)
<1>1. Exchanged(m, other) /\ lifetime[m] = "alive" /\ lifetime[other] = "alive"
  BY InvSwap DEF Swap, Usable
<1>2. /\ Elements(obj', heap', m) = Elements(obj, heap, other)
      /\ Elements(obj', heap', other) = Elements(obj, heap, m)
      /\ \A n \in Names : n \notin {m, other} => Elements(obj', heap', n) = Elements(obj, heap, n)
  BY <1>1 DEF Exchanged, Elements
<1>3. elems' = [elems EXCEPT ![m] = elems[other], ![other] = elems[m]]
  BY <1>1, <1>2, ElemsAre DEF Exchanged
<1> QED
  BY <1>1, <1>3, ElemsOne DEF Contract!Swap

-----------------------------------------------------------------------------
\* At first there is no sequence.
LEMMA RefinesInit == Init => Contract!Init
<1> SUFFICES ASSUME Init PROVE Contract!Init
  OBVIOUS
<1>1. \A m \in Names : lifetime[m] # "alive"
  BY DEF Init
<1> QED
  BY <1>1, ElemsAre DEF Contract!Init

\* Every step is one of the contract, or leaves the sequences.
LEMMA RefinesNext == Inv /\ [Next]_vars => [Contract!Next]_elems
<1> SUFFICES ASSUME Inv, [Next]_vars PROVE Contract!Next \/ UNCHANGED elems
  OBVIOUS
<1>0. UNCHANGED lifetime /\ ((\A n \in Names : SameElements(n)) \/ UNCHANGED <<obj, heap>>)
         => UNCHANGED elems
  BY NothingSame, ChangesNone
<1> DEFINE Goal == Contract!Next \/ UNCHANGED elems
<1> SUFFICES Goal
  OBVIOUS
<1>1. ASSUME NEW m \in Names, Construct(m) PROVE Goal
  BY <1>1, RefinesConstruct DEF Contract!Next
<1>2. ASSUME NEW m \in Names, CopyStep(m) PROVE Goal
  BY <1>2, RefinesCopy DEF Contract!Next
<1>3. ASSUME NEW m \in Names, CopyThrows(m) PROVE Goal
  BY <1>3, RefinesCopyThrows
<1>4. ASSUME NEW m \in Names, Destroy(m) PROVE Goal
  BY <1>4, RefinesDestroy DEF Contract!Next
<1>5. ASSUME NEW m \in Names, PopBack(m) PROVE Goal
  BY <1>5, RefinesPopBack DEF Contract!Next
<1>6. ASSUME NEW m \in Names, EmplaceBackFails(m) PROVE Goal
  BY <1>0, <1>6, InvEmplaceBackFails
<1>7. ASSUME NEW m \in Names, ShrinkToFit(m) PROVE Goal
  BY <1>0, <1>7, InvShrinkToFit
<1>8. ASSUME NEW m \in Names, NEW v \in Values, EmplaceBack(m, v) PROVE Goal
  BY <1>8, RefinesEmplaceBack DEF Contract!Next
<1>9. ASSUME NEW m \in Names, NEW i \in Sizes, NEW v \in Values, Assign(m, i, v) PROVE Goal
  BY <1>9, RefinesAssign DEF Contract!Next
<1>10. ASSUME NEW m \in Names, NEW n \in Sizes, Reserve(m, n) PROVE Goal
  BY <1>0, <1>10, InvReserve
<1>11. ASSUME NEW m \in Names, NEW n \in Sizes, Resize(m, n) PROVE Goal
  BY <1>0, <1>11 DEF Resize
<1>12. ASSUME NEW m \in Names, NEW other \in Names, StartCopy(m, other) PROVE Goal
  <2>1. /\ UNCHANGED <<obj, heap>> /\ lifetime' = [lifetime EXCEPT ![m] = other]
        /\ lifetime[m] = "none" /\ lifetime \in [Names -> {"none", "alive"} \cup Names]
    BY <1>12 DEF StartCopy, Inv, Lifetimes
  <2>2. \A n \in Names : lifetime'[n] = "alive" <=> lifetime[n] = "alive"
    BY <2>1, Places
  <2> QED
    BY <2>1, <2>2, NothingSame, ChangesNone
<1>13. ASSUME NEW m \in Names, NEW other \in Names, Swap(m, other) PROVE Goal
  BY <1>13, RefinesSwap DEF Contract!Next
<1>14. CASE Faulted \/ UNCHANGED vars
  BY <1>0, <1>14 DEF Faulted, vars
<1> HIDE DEF Goal
<1> QED
  BY <1>1, <1>2, <1>3, <1>4, <1>5, <1>6, <1>7, <1>8, <1>9, <1>10, <1>11, <1>12, <1>13, <1>14
     DEF Next

(* A monoque implements the sequence of its elements: through blocks, lists  *)
(* and exceptions every operation does to it what it does to a sequence, one *)
(* that fails does nothing, and a copy appears only when it is complete.     *)
THEOREM Refinement == Spec => KeepsSequence
BY Invariance, RefinesInit, RefinesNext, PTL DEF Spec, KeepsSequence, Contract!Spec
=============================================================================
