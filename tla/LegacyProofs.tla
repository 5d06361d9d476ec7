---------------------------- MODULE LegacyProofs ----------------------------
(***************************************************************************)
(* What the legacy monoque keeps, for any number of monoques, elements and *)
(* blocks, any width of int, and whatever throws: every block has one      *)
(* owner and the size its place says, the blocks in use are the first, and *)
(* a monoque is the sequence of its elements.                              *)
(*                                                                         *)
(* First the places of the elements; then what adding, writing and         *)
(* removing does to one monoque s.o in the memory s.h, when others hold    *)
(* the blocks R; then the operations, and the invariant they keep.         *)
(***************************************************************************)
EXTENDS LegacyProperties, PowersOfTwo

-----------------------------------------------------------------------------
(* The places of the elements, which are powers of two apart.              *)

\* The bits of an int and of a size_t.
LEMMA Bits == /\ IntBits \in Nat /\ IntBits > 2 /\ IntBits - 1 \in Nat /\ IntBits - 2 \in Nat
              /\ WordBits \in Nat /\ IntBits < WordBits
BY LegacyAssumption DEF LegacyAssumption, WordBits

\* The highest bit that is set.
LEMMA HighestBit ==
    ASSUME NEW k \in 0 .. IntBits - 1, NEW v \in Nat, 2 ^ k <= v, v < 2 ^ (k + 1)
    PROVE  Log2[v] = k
<1>0. IntBits \in Nat /\ k \in Nat /\ k + 1 \in Nat /\ k < IntBits /\ k + 1 <= IntBits
  BY Bits
<1>1. v \in 1 .. 2 ^ IntBits
  BY <1>0, NotBelow, Positive
<1> DEFINE S == {j \in 0 .. IntBits : 2 ^ j <= v}
<1>2. k \in S
  BY <1>0
<1>3. ASSUME NEW j \in S PROVE j <= k
  <2>1. j \in Nat /\ 2 ^ j <= v
    OBVIOUS
  <2>2. CASE k + 1 <= j
    BY <2>1, <2>2, <1>0, NotBelow, Positive
  <2> QED
    BY <2>1, <2>2, <1>0
<1>4. ASSUME NEW j \in S, \A i \in S : j >= i PROVE j = k
  BY <1>2, <1>3, <1>4, <1>0
<1>5. Max(S) = k
  BY <1>2, <1>3, <1>4 DEF Max
<1> QED
  BY <1>1, <1>5, Zenon DEF Log2

\* The first two are in block 0.
LEMMA Lower ==
    ASSUME NEW at \in 0 .. 1
    PROVE  index1_pv(at) = 0 /\ index2_pv(at) = at /\ sizeat_pv(at) = 2
<1>1. 0 \in 0 .. IntBits - 1 /\ 1 \in 0 .. IntBits - 1 /\ 1 < IntBits - 1
  BY Bits
<1>2. 2 ^ (0 + 1) = 2 /\ 2 ^ (1 + 1) = 4 /\ 2 ^ 0 = 1 /\ 2 ^ 1 = 2
  BY Small, Doubles
<1>3. Log2[1] = 0
  <2>1. 0 \in 0 .. IntBits - 1 /\ 1 \in Nat /\ 2 ^ 0 <= 1 /\ 1 < 2 ^ (0 + 1)
    BY <1>1, <1>2
  <2> QED
    BY <2>1, HighestBit, Zenon
<1>4. Log2[2] = 1
  <2>1. 1 \in 0 .. IntBits - 1 /\ 2 \in Nat /\ 2 ^ 1 <= 2 /\ 2 < 2 ^ (1 + 1)
    BY <1>1, <1>2
  <2> QED
    BY <2>1, HighestBit, Zenon
<1>5. Larger(at, 1) = 1 /\ Larger(at, 2) = 2 /\ Larger(at \div 2, 1) = 1
  BY DEF Larger
<1>6. index1_pv(at) = 0
  BY <1>3, <1>5 DEF index1_pv
<1>7. index2_pv(at) = at
  <2>1. index2_pv(at) = at % 2 ^ 1
    BY <1>4, <1>5, Zenon DEF index2_pv
  <2>2. at % 2 = at
    OBVIOUS
  <2> QED
    BY <2>1, <2>2, <1>2
<1>8. sizeat_pv(at) = 2
  <2>1. sizeat_pv(at) = Shift(0 + 1)
    BY <1>3, <1>5, Zenon DEF sizeat_pv
  <2>2. 0 + 1 = 1
    OBVIOUS
  <2>3. Shift(1) = 2 ^ 1
    BY <1>1, Zenon DEF Shift
  <2> QED
    BY <2>1, <2>2, <2>3, <1>2
<1> QED
  BY <1>6, <1>7, <1>8

\* The indices from 2 ^ k to 2 ^ (k + 1) are in block k, one after the other.
LEMMA Upper ==
    ASSUME NEW k \in 1 .. IntBits - 1, NEW at \in Nat, 2 ^ k <= at, at < 2 ^ (k + 1)
    PROVE  index1_pv(at) = k /\ index2_pv(at) = at - 2 ^ k /\ sizeat_pv(at) = Shift(k)
<1>0. IntBits \in Nat /\ k \in Nat /\ k >= 1 /\ k - 1 \in Nat /\ k - 1 \in 0 .. IntBits - 1
      /\ k \in 0 .. IntBits - 1
  BY Bits
<1>1. 2 ^ (k + 1) = 2 * 2 ^ k /\ 2 ^ k = 2 * 2 ^ (k - 1) /\ 2 ^ ((k - 1) + 1) = 2 * 2 ^ (k - 1)
  <2>1. 2 ^ ((k - 1) + 1) = 2 * 2 ^ (k - 1)
    BY <1>0, Doubles
  <2>2. (k - 1) + 1 = k
    BY <1>0
  <2> QED
    BY <2>1, <2>2, <1>0, Doubles
<1>2. 2 ^ k \in Nat /\ 2 ^ (k - 1) \in Nat /\ 2 ^ (k - 1) > 0
  BY <1>0, Positive
<1> DEFINE p == 2 ^ (k - 1)
<1>3. 2 ^ k = 2 * p /\ 2 ^ (k + 1) = 4 * p /\ p \in Nat /\ p > 0
  BY <1>1, <1>2
<1> HIDE DEF p
<1>4. at >= 2 * p /\ at < 4 * p
  BY <1>3
<1>5. Larger(at, 1) = at /\ Larger(at, 2) = at
  BY <1>3, <1>4 DEF Larger
<1>6. Larger(at \div 2, 1) = at \div 2 /\ at \div 2 \in Nat /\ p <= at \div 2 /\ at \div 2 < 2 * p
  BY <1>3, <1>4 DEF Larger
<1>7. Log2[at] = k
  BY <1>0, HighestBit
<1>8. Log2[at \div 2] = k - 1
  <2>1. 2 ^ (k - 1) <= at \div 2 /\ at \div 2 < 2 ^ ((k - 1) + 1)
    BY <1>6, <1>1 DEF p
  <2> QED
    BY <2>1, <1>0, <1>6, HighestBit
<1>9. at % (2 * p) = at - 2 * p
  BY <1>3, <1>4
<1>10. index1_pv(at) = k
  BY <1>5, <1>7 DEF index1_pv
<1>11. index2_pv(at) = at - 2 ^ k
  BY <1>3, <1>5, <1>7, <1>9 DEF index2_pv
<1>12. sizeat_pv(at) = Shift(k)
  <2>1. (k - 1) + 1 = k
    BY <1>0
  <2> QED
    BY <2>1, <1>6, <1>8 DEF sizeat_pv
<1> QED
  BY <1>10, <1>11, <1>12

\* Blocks that an int can say the size of, and the first index in each.
Indices == 0 .. IntBits - 2
First(k) == IF k = 0 THEN 0 ELSE 2 ^ k

\* As many elements as there are places for.
LEMMA MaxIsNumber == Max1 \in Nat /\ Max1 > 2 /\ Max1 < 2 ^ IntBits
<1>1. 2 ^ ((IntBits - 1) + 1) = 2 * 2 ^ (IntBits - 1)
  BY Bits, Doubles
<1>2. (IntBits - 1) + 1 = IntBits
  BY Bits
<1>3. Max1 \in Nat /\ Max1 > 0
  BY Bits, Positive DEF Max1
<1>4. 2 * 2 ^ 1 <= Max1
  <2>1. 1 \in Nat /\ IntBits - 1 \in Nat /\ 1 < IntBits - 1
    BY Bits
  <2> QED
    BY <2>1, Grows, Zenon DEF Max1
<1> QED
  BY <1>1, <1>2, <1>3, <1>4, Small DEF Max1

\* A block is as large when it is given back as when it was asked for.
LEMMA Sizes ==
    ASSUME NEW k \in Indices
    PROVE  /\ k \in Nat /\ k < IntBits - 1
           /\ deallocated(k) = IF k = 0 THEN 2 ELSE 2 ^ k
           /\ deallocated(k) \in Nat /\ deallocated(k) >= 2
           /\ First(k) \in Nat
           /\ First(k) + deallocated(k) = 2 ^ (k + 1)
           /\ deallocated(k) < 2 ^ IntBits
           /\ k # 0 => Shift(k) = deallocated(k)
<1>1. k \in Nat /\ k < IntBits - 1 /\ k < IntBits /\ IntBits \in Nat
  BY Bits DEF Indices
<1>2. Shift(k) = 2 ^ k
  BY <1>1 DEF Shift
<1>3. 2 ^ k \in Nat /\ 2 ^ k > 0 /\ 2 ^ (k + 1) = 2 * 2 ^ k /\ 2 ^ k < 2 ^ IntBits
  BY <1>1, Positive, Doubles, Grows
<1>4. CASE k = 0
  <2>1. 2 ^ k = 1
    BY <1>4, Small
  <2>2. deallocated(k) = 2
    BY <2>1, <1>2 DEF deallocated, Larger
  <2>3. 2 < 2 ^ IntBits
    BY MaxIsNumber, <1>1, Positive
  <2> QED
    BY <1>1, <1>3, <1>4, <2>1, <2>2, <2>3 DEF First
<1>5. CASE k # 0
  <2>1. 2 ^ 1 <= 2 ^ k
    <3>1. 1 \in Nat /\ 1 <= k
      BY <1>1, <1>5
    <3> QED
      BY <3>1, <1>1, NotBelow, Zenon
  <2>2. 2 ^ k >= 2
    BY <2>1, <1>3, Small
  <2>3. deallocated(k) = 2 ^ k
    BY <2>2, <1>2, <1>3 DEF deallocated, Larger
  <2> QED
    BY <1>1, <1>2, <1>3, <1>5, <2>2, <2>3 DEF First
<1> QED
  BY <1>4, <1>5

\* The sign bit of an int is set in the size of the block after these.
LEMMA TooLarge == Huge(Shift(IntBits - 1))
<1>1. IntBits \in Nat /\ IntBits - 1 \in Nat /\ IntBits + 1 \in Nat /\ WordBits \in Nat
      /\ IntBits + 1 < WordBits /\ (IntBits - 1) + 1 = IntBits
  BY Bits DEF WordBits
<1>2. 2 ^ (IntBits + 1) = 2 * 2 ^ IntBits /\ 2 * 2 ^ (IntBits + 1) <= 2 ^ WordBits
  BY <1>1, Doubles, Grows
<1>3. 2 ^ IntBits = 2 * 2 ^ (IntBits - 1)
  <2>1. 2 ^ ((IntBits - 1) + 1) = 2 * 2 ^ (IntBits - 1)
    BY <1>1, Doubles
  <2> QED
    BY <2>1, <1>1
<1>4. 2 ^ (IntBits - 1) \in Nat /\ 2 ^ (IntBits - 1) > 0 /\ 2 ^ WordBits \in Nat
  BY <1>1, Positive
<1>5. Shift(IntBits - 1) = 2 ^ WordBits - 2 ^ (IntBits - 1)
  BY <1>1 DEF Shift
<1> QED
  BY <1>2, <1>3, <1>4, <1>5 DEF Huge

\* Where an element goes.
Placed(n) ==
    /\ index1_pv(n) \in Indices /\ index2_pv(n) \in Nat
    /\ index2_pv(n) < deallocated(index1_pv(n))
    /\ n = First(index1_pv(n)) + index2_pv(n)
    /\ n < 2 ^ (index1_pv(n) + 1)
    /\ sizeat_pv(n) = deallocated(index1_pv(n))
    /\ ~Huge(sizeat_pv(n))

\* Every index below Max1 has a place: the one that the code computes.
LEMMA Place ==
    ASSUME NEW n \in Nat, n < Max1
    PROVE  Placed(n)
<1>1. CASE n < 2
  <2>1. n \in 0 .. 1 /\ 0 \in Indices
    BY <1>1, Bits DEF Indices
  <2>2. index1_pv(n) = 0 /\ index2_pv(n) = n /\ sizeat_pv(n) = 2
    BY <2>1, Lower
  <2>3. deallocated(0) = 2 /\ 2 < 2 ^ IntBits /\ 2 ^ IntBits \in Nat /\ First(0) = 0
        /\ 2 ^ (0 + 1) = 2
    BY <2>1, Sizes, Bits, Positive DEF First
  <2>4. ~Huge(2)
    BY <2>3 DEF Huge
  <2> QED
    BY <2>1, <2>2, <2>3, <2>4, <1>1 DEF Placed
<1>2. CASE n >= 2
  <2>1. IntBits - 1 \in Nat /\ 0 < n /\ n < 2 ^ (IntBits - 1)
    BY <1>2, Bits DEF Max1
  <2>2. PICK k \in 0 .. (IntBits - 1) - 1 : 2 ^ k <= n /\ n < 2 ^ (k + 1)
    BY <2>1, Between
  <2>3. k # 0
    <3>1. 2 ^ (0 + 1) = 2
      BY Small, Doubles
    <3>2. k = 0 => n < 2 ^ (0 + 1)
      BY <2>2, Zenon
    <3> QED
      BY <3>1, <3>2, <1>2
  <2>4. k \in 1 .. IntBits - 1 /\ k \in Indices /\ k \in Nat
    BY <2>2, <2>3, Bits DEF Indices
  <2>5. index1_pv(n) = k /\ index2_pv(n) = n - 2 ^ k /\ sizeat_pv(n) = Shift(k)
    BY <2>2, <2>4, Upper
  <2>6. 2 ^ k \in Nat /\ 2 ^ (k + 1) = 2 * 2 ^ k /\ 2 ^ IntBits \in Nat
    BY <2>4, Positive, Doubles, Bits
  <2>7. deallocated(k) = 2 ^ k /\ First(k) = 2 ^ k /\ Shift(k) = 2 ^ k /\ 2 ^ k < 2 ^ IntBits
    BY <2>3, <2>4, Sizes DEF First
  <2>8. ~Huge(2 ^ k)
    BY <2>6, <2>7 DEF Huge
  <2> QED
    BY <2>2, <2>4, <2>5, <2>6, <2>7, <2>8 DEF Placed
<1> QED
  BY <1>1, <1>2

\* There is no block for an index past the largest one.
LEMMA NoPlace == index1_pv(Max1) = IntBits - 1 /\ Huge(sizeat_pv(Max1))
<1>1. IntBits - 1 \in 1 .. IntBits - 1 /\ IntBits - 1 \in Nat /\ IntBits - 1 < (IntBits - 1) + 1
  BY Bits
<1>2. Max1 \in Nat /\ 2 ^ (IntBits - 1) <= Max1 /\ Max1 < 2 ^ ((IntBits - 1) + 1)
  BY <1>1, MaxIsNumber, Grows DEF Max1
<1> QED
  BY <1>1, <1>2, Upper, TooLarge

\* No two elements have the same place.
LEMMA Apart ==
    ASSUME NEW m \in Nat, NEW n \in Nat, m < Max1, n < Max1,
           index1_pv(m) = index1_pv(n), index2_pv(m) = index2_pv(n)
    PROVE  m = n
BY Place DEF Placed

\* Later elements are in later blocks.
LEMMA Ordered ==
    ASSUME NEW m \in Nat, NEW n \in Nat, m <= n, n < Max1
    PROVE  index1_pv(m) <= index1_pv(n)
<1>1. Placed(m) /\ Placed(n)
  BY Place, MaxIsNumber
<1> DEFINE j == index1_pv(m)
           k == index1_pv(n)
<1>2. j \in Nat /\ k \in Nat /\ j \in Indices /\ k \in Indices
  BY <1>1, Sizes DEF Placed
<1>3. n < 2 ^ (k + 1) /\ m >= First(j)
  BY <1>1, <1>2, Sizes DEF Placed
<1>4. ASSUME k < j PROVE FALSE
  <2>1. k + 1 \in Nat /\ k + 1 <= j /\ j # 0
    BY <1>2, <1>4
  <2>2. 2 ^ (k + 1) <= 2 ^ j
    BY <2>1, <1>2, NotBelow
  <2>3. First(j) = 2 ^ j
    BY <2>1 DEF First
  <2>4. 2 ^ j \in Nat /\ 2 ^ (k + 1) \in Nat
    BY <2>1, <1>2, Positive
  <2> QED
    BY <1>3, <2>2, <2>3, <2>4
<1> QED
  BY <1>2, <1>4

\* One more element takes at most the next block.
LEMMA NextBlock ==
    ASSUME NEW n \in Nat, n + 1 < Max1
    PROVE  index1_pv(n + 1) \in {index1_pv(n), index1_pv(n) + 1}
<1>1. Placed(n) /\ Placed(n + 1)
  BY Place, MaxIsNumber
<1> DEFINE j == index1_pv(n)
           k == index1_pv(n + 1)
<1>2. j \in Nat /\ k \in Nat /\ k \in Indices
  BY <1>1, Sizes DEF Placed
<1>3. n < 2 ^ (j + 1) /\ n + 1 >= First(k)
  BY <1>1, <1>2, Sizes DEF Placed
<1>4. j <= k
  BY Ordered, MaxIsNumber
<1>5. ASSUME j + 1 < k PROVE FALSE
  <2>1. 2 * 2 ^ (j + 1) <= 2 ^ k /\ 2 ^ (j + 1) > 0 /\ 2 ^ (j + 1) \in Nat /\ 2 ^ k \in Nat
    BY <1>2, <1>5, Grows, Positive
  <2>2. First(k) = 2 ^ k
    BY <1>2, <1>5 DEF First
  <2>3. 2 ^ k >= 2 ^ (j + 1) + 2 ^ (j + 1)
    BY <2>1
  <2> QED
    BY <1>3, <2>1, <2>2, <2>3
<1> QED
  BY <1>2, <1>4, <1>5

-----------------------------------------------------------------------------
(* A monoque that is in order.                                             *)

Content == Values \cup {Raw}
Filled(h) == h \in [Blocks -> Seq(Content)]
Used(h) == {b \in Blocks : h[b] # <<>>}

Member(o) ==
    /\ o \in Objects /\ o.size_pv <= Max1
    /\ \A i \in 0 .. WordBits - 1 :
          o.data_pv[i] # Null => i \in Indices /\ \A j \in 0 .. i : o.data_pv[j] # Null
    /\ o.size_pv # 0 => o.data_pv[index1_pv(o.size_pv - 1)] # Null
Fitting(o, h) ==
    \A i \in Indices : o.data_pv[i] # Null => h[o.data_pv[i]] \in [1 .. deallocated(i) -> Content]
Single(o) ==
    \A i, j \in Indices : o.data_pv[i] # Null /\ o.data_pv[i] = o.data_pv[j] => i = j
AllConstructed(o, h) == \A e \in Nat : e < o.size_pv => Element(o, h, e) \in Values
Own(o, h) == Member(o) /\ Fitting(o, h) /\ Single(o) /\ AllConstructed(o, h)

\* The pointers of a monoque that is in order.
LEMMA Table ==
    ASSUME NEW o, Member(o)
    PROVE  /\ o = [size_pv |-> o.size_pv, data_pv |-> o.data_pv]
           /\ o.size_pv \in Nat /\ o.size_pv <= Max1
           /\ o.data_pv \in [0 .. WordBits - 1 -> Blocks \cup {Null}]
           /\ Indices \subseteq 0 .. WordBits - 1
           /\ \A i \in Indices : i \in Nat /\ (o.data_pv[i] # Null => o.data_pv[i] \in Blocks)
           /\ Null \notin Blocks
<1>1. o \in Objects /\ o.size_pv <= Max1
  BY DEF Member
<1>2. \A i \in Indices : i \in 0 .. WordBits - 1 /\ i \in Nat
  BY Bits DEF Indices
<1>3. Null \notin Blocks
  BY LegacyAssumption
<1> QED
  BY <1>1, <1>2, <1>3 DEF Objects

\* The blocks a monoque holds are those its pointers name.
LEMMA HeldIs ==
    ASSUME NEW o, Member(o)
    PROVE  /\ Held(o) \subseteq Blocks
           /\ \A i \in Indices : o.data_pv[i] # Null => o.data_pv[i] \in Held(o)
           /\ \A b \in Held(o) : \E i \in Indices : o.data_pv[i] = b /\ b # Null
<1>1. o.data_pv \in [0 .. WordBits - 1 -> Blocks \cup {Null}] /\ Indices \subseteq 0 .. WordBits - 1
  BY Table
<1>2. DOMAIN o.data_pv = 0 .. WordBits - 1
  BY <1>1
<1>3. \A i \in 0 .. WordBits - 1 : o.data_pv[i] # Null => i \in Indices
  BY DEF Member
<1> QED
  BY <1>1, <1>2, <1>3 DEF Held

\* The element e has a block, and a slot in it.
LEMMA Stored ==
    ASSUME NEW o, Member(o), NEW e \in Nat, e < o.size_pv
    PROVE  /\ e < Max1 /\ Placed(e) /\ index1_pv(e) \in Indices
           /\ o.data_pv[index1_pv(e)] # Null /\ o.data_pv[index1_pv(e)] \in Blocks
           /\ o.data_pv[index1_pv(e)] \in Held(o)
<1>1. o.size_pv \in Nat /\ o.size_pv <= Max1 /\ Max1 \in Nat
  BY Table, MaxIsNumber
<1>2. o.size_pv - 1 \in Nat /\ o.size_pv - 1 < Max1 /\ e <= o.size_pv - 1 /\ o.size_pv # 0 /\ e < Max1
  BY <1>1
<1>3. Placed(e) /\ Placed(o.size_pv - 1) /\ index1_pv(e) <= index1_pv(o.size_pv - 1)
  BY <1>2, Place, Ordered
<1> DEFINE i == index1_pv(e)
           k == index1_pv(o.size_pv - 1)
<1>4. i \in Indices /\ k \in Indices /\ i <= k
  BY <1>3 DEF Placed
<1>5. o.data_pv[k] # Null
  BY <1>2 DEF Member
<1>6. k \in 0 .. WordBits - 1 /\ i \in 0 .. k
  BY <1>4, Bits DEF Indices
<1> HIDE DEF i, k
<1>7. o.data_pv[i] # Null
  BY <1>5, <1>6 DEF Member
<1> QED
  BY <1>2, <1>3, <1>4, <1>7, Table, HeldIs DEF i

\* The slot of an index, in a block that is there.
LEMMA Slot ==
    ASSUME NEW o, NEW h, Member(o), Fitting(o, h), NEW e \in Nat, e < Max1,
           o.data_pv[index1_pv(e)] # Null
    PROVE  /\ index1_pv(e) \in Indices
           /\ h[o.data_pv[index1_pv(e)]] \in [1 .. deallocated(index1_pv(e)) -> Content]
           /\ index2_pv(e) + 1 \in 1 .. deallocated(index1_pv(e))
<1>1. Placed(e)
  BY Place
<1>2. index1_pv(e) \in Indices /\ index2_pv(e) \in Nat /\ index2_pv(e) < deallocated(index1_pv(e))
  BY <1>1 DEF Placed
<1>3. deallocated(index1_pv(e)) \in Nat
  BY <1>2, Sizes
<1> QED
  BY <1>2, <1>3 DEF Fitting

\* Only the blocks of a monoque matter to it.
SameElements(o, h, q, g) ==
    /\ q.size_pv = o.size_pv
    /\ \A e \in Nat : e < o.size_pv => Element(q, g, e) = Element(o, h, e)

\* What others write to is nothing to a monoque.
LEMMA Frame ==
    ASSUME NEW o, NEW h, NEW g, Own(o, h), \A b \in Held(o) : g[b] = h[b]
    PROVE  Own(o, g) /\ SameElements(o, h, o, g)
<1>1. Member(o) /\ Fitting(o, h) /\ Single(o) /\ AllConstructed(o, h)
  BY DEF Own
<1>2. Fitting(o, g)
  BY <1>1, HeldIs DEF Fitting
<1>3. ASSUME NEW e \in Nat, e < o.size_pv PROVE Element(o, g, e) = Element(o, h, e)
  BY <1>1, <1>3, Stored DEF Element
<1> QED
  BY <1>1, <1>2, <1>3 DEF Own, AllConstructed, SameElements

\* A monoque s.o and the memory s.h, in which others have the blocks R.
Local(s, R) ==
    /\ Filled(s.h) /\ Own(s.o, s.h)
    /\ Held(s.o) \cap R = {} /\ Used(s.h) = Held(s.o) \cup R

SameFor(s, t, R) == \A b \in R : t.h[b] = s.h[b]

-----------------------------------------------------------------------------
(* What writing, adding and removing one element does.                     *)

\* One slot is written.
Written(o, h, e, v, g) ==
    /\ g = Put(o, h, e, v)
    /\ Filled(g) /\ Fitting(o, g) /\ Used(g) = Used(h)
    /\ \A b \in Blocks \ {o.data_pv[index1_pv(e)]} : g[b] = h[b]
    /\ Element(o, g, e) = v
    /\ \A j \in Nat : j < o.size_pv /\ j # e => Element(o, g, j) = Element(o, h, j)

\* A write to a slot is to that element alone.
LEMMA PutWrites ==
    ASSUME NEW o, NEW h, Member(o), Fitting(o, h), Single(o), Filled(h), NEW v \in Content,
           NEW e \in Nat, e < Max1, o.data_pv[index1_pv(e)] # Null
    PROVE  Written(o, h, e, v, Put(o, h, e, v))
<1> DEFINE i == index1_pv(e)
           k == index2_pv(e) + 1
           b == o.data_pv[i]
           g == Put(o, h, e, v)
<1>1. i \in Indices /\ h[b] \in [1 .. deallocated(i) -> Content] /\ k \in 1 .. deallocated(i)
  BY Slot
<1>2. b \in Blocks /\ deallocated(i) \in Nat /\ deallocated(i) >= 2
  BY <1>1, Table, Sizes
<1>3. h \in [Blocks -> Seq(Content)]
  BY DEF Filled
<1>4. g = [h EXCEPT ![b] = [h[b] EXCEPT ![k] = v]]
  BY DEF Put
<1> HIDE DEF g, b, k
<1>5. g[b] = [h[b] EXCEPT ![k] = v] /\ \A c \in Blocks \ {b} : g[c] = h[c]
  BY <1>2, <1>3, <1>4
<1>6. g[b] \in [1 .. deallocated(i) -> Content] /\ g[b][k] = v /\ \A l \in 1 .. deallocated(i) : l # k => g[b][l] = h[b][l]
  BY <1>1, <1>5
<1>7. [1 .. deallocated(i) -> Content] \subseteq Seq(Content)
  BY <1>2
<1>8. Filled(g)
  BY <1>2, <1>3, <1>4, <1>5, <1>6, <1>7 DEF Filled
<1>9. Used(g) = Used(h)
  <2>1. g[b] # <<>> /\ h[b] # <<>>
    <3>1. DOMAIN g[b] = 1 .. deallocated(i) /\ DOMAIN h[b] = 1 .. deallocated(i) /\ 1 \in 1 .. deallocated(i)
      BY <1>1, <1>2, <1>6
    <3>2. DOMAIN << >> = {}
      OBVIOUS
    <3> QED
      BY <3>1, <3>2
  <2> QED
    BY <2>1, <1>2, <1>5 DEF Used
<1>10. ASSUME NEW j \in Indices, o.data_pv[j] # Null
       PROVE  g[o.data_pv[j]] \in [1 .. deallocated(j) -> Content]
  <2>1. CASE o.data_pv[j] = b
    <3>1. j = i
      BY <2>1, <1>10, <1>1 DEF Single, b
    <3> QED
      BY <3>1, <2>1, <1>6
  <2>2. CASE o.data_pv[j] # b
    BY <2>2, <1>5, <1>10, Table DEF Fitting
  <2> QED
    BY <2>1, <2>2
<1>11. Element(o, g, e) = v
  BY <1>6 DEF Element, b, k
<1>12. ASSUME NEW j \in Nat, j < o.size_pv, j # e PROVE Element(o, g, j) = Element(o, h, j)
  <2>1. /\ j < Max1 /\ index1_pv(j) \in Indices
        /\ o.data_pv[index1_pv(j)] # Null /\ o.data_pv[index1_pv(j)] \in Blocks
    BY <1>12, Stored
  <2>2. index2_pv(j) + 1 \in 1 .. deallocated(index1_pv(j))
    BY <2>1, Slot
  <2>3. CASE o.data_pv[index1_pv(j)] = b
    <3>1. index1_pv(j) = i
      BY <2>1, <2>3, <1>1 DEF Single, b
    <3>2. index2_pv(j) # index2_pv(e)
      BY <3>1, <2>1, <1>12, Apart
    <3>3. index2_pv(j) + 1 # k
      <4>1. index2_pv(j) \in Nat /\ index2_pv(e) \in Nat
        BY <2>1, Place DEF Placed
      <4> QED
        BY <4>1, <3>2 DEF k
    <3>4. g[b][index2_pv(j) + 1] = h[b][index2_pv(j) + 1]
      BY <3>1, <3>3, <2>2, <1>6
    <3> QED
      BY <3>4, <2>3 DEF Element
  <2>4. CASE o.data_pv[index1_pv(j)] # b
    BY <2>1, <2>4, <1>5 DEF Element
  <2> QED
    BY <2>3, <2>4
<1> QED
  BY <1>5, <1>8, <1>9, <1>10, <1>11, <1>12 DEF Written, Fitting, g, b

\* A block for the next element.
Grown(s, t, R) ==
    /\ Local(t, R) /\ SameFor(s, t, R) /\ SameElements(s.o, s.h, t.o, t.h)
    /\ t.o.size_pv < Max1 /\ t.o.data_pv[index1_pv(t.o.size_pv)] # Null

\* Where a block is there or can be had, there is a place for the next element.
LEMMA RoomLeft ==
    ASSUME NEW s, NEW R, Local(s, R), Fits(s)
    PROVE  s.o.size_pv \in Nat /\ s.o.size_pv < Max1
<1>1. s.o.size_pv \in Nat /\ s.o.size_pv <= Max1 /\ Max1 \in Nat
  BY Table, MaxIsNumber DEF Local, Own
<1>2. ASSUME s.o.size_pv = Max1 PROVE FALSE
  <2>1. index1_pv(Max1) = IntBits - 1 /\ Huge(sizeat_pv(Max1))
    BY NoPlace
  <2>2. IntBits - 1 \in 0 .. WordBits - 1 /\ IntBits - 1 \notin Indices
    BY Bits DEF Indices
  <2>3. s.o.data_pv[IntBits - 1] = Null
    BY <2>2 DEF Local, Own, Member
  <2> QED
    BY <1>2, <2>1, <2>3 DEF Fits, NeedsBlock, MayAllocate
<1> QED
  BY <1>1, <1>2

\* Allocating adds at most the block that the next element needs.
LEMMA AllocateGrows ==
    ASSUME NEW s, NEW R, Local(s, R), Fits(s)
    PROVE  Grown(s, Allocate(s), R)
<1> DEFINE at == s.o.size_pv
           i == index1_pv(at)
<1>0. Member(s.o) /\ Fitting(s.o, s.h) /\ Single(s.o) /\ AllConstructed(s.o, s.h) /\ Filled(s.h)
      /\ Held(s.o) \cap R = {} /\ Used(s.h) = Held(s.o) \cup R
  BY DEF Local, Own
<1>1. at \in Nat /\ at < Max1
  BY RoomLeft
<1>2. Placed(at) /\ i \in Indices
  BY <1>1, Place DEF Placed
<1>3. CASE ~NeedsBlock(s)
  <2>1. Allocate(s) = s
    BY <1>3 DEF Allocate
  <2> QED
    BY <1>1, <1>3, <2>1 DEF Grown, SameFor, SameElements, NeedsBlock
<1>4. CASE NeedsBlock(s)
  <2>1. FreeBlocks(s.h) # {} /\ s.o.data_pv[i] = Null
    BY <1>4 DEF Fits, MayAllocate, NeedsBlock
  <2> DEFINE b == CHOOSE b \in FreeBlocks(s.h) : TRUE
             o == [s.o EXCEPT !.data_pv[i] = b]
             h == [s.h EXCEPT ![b] = [l \in 1 .. sizeat_pv(at) |-> Raw]]
  <2>2. b \in FreeBlocks(s.h)
    BY <2>1
  <2>3. b \in Blocks /\ s.h[b] = <<>>
    BY <2>2 DEF FreeBlocks
  <2>4. Allocate(s) = [o |-> o, h |-> h]
    BY <1>4 DEF Allocate
  <2> HIDE DEF b
  <2>5. b \notin Held(s.o) /\ b \notin R /\ b # Null
    BY <2>3, <1>0, Table DEF Used
  <2>6. sizeat_pv(at) = deallocated(i) /\ deallocated(i) \in Nat /\ deallocated(i) >= 2
    BY <1>2, Sizes DEF Placed
  <2>7. /\ o = [size_pv |-> at, data_pv |-> [s.o.data_pv EXCEPT ![i] = b]]
        /\ s.o.data_pv \in [0 .. WordBits - 1 -> Blocks \cup {Null}]
        /\ i \in 0 .. WordBits - 1
    BY <1>0, <1>2, Table
  <2>8. /\ o.size_pv = at /\ o.data_pv \in [0 .. WordBits - 1 -> Blocks \cup {Null}]
        /\ o.data_pv[i] = b /\ \A j \in 0 .. WordBits - 1 : j # i => o.data_pv[j] = s.o.data_pv[j]
    BY <2>3, <2>7
  <2>9. /\ h[b] \in [1 .. deallocated(i) -> Content] /\ h[b] # <<>>
        /\ h \in [Blocks -> Seq(Content)]
        /\ \A c \in Blocks : c # b => h[c] = s.h[c]
    <3>1. s.h \in [Blocks -> Seq(Content)]
      BY <1>0 DEF Filled
    <3>2. h[b] = [l \in 1 .. deallocated(i) |-> Raw]
      BY <2>3, <2>6, <3>1
    <3>3. h[b] \in [1 .. deallocated(i) -> Content]
      BY <3>2 DEF Content
    <3>4. h[b] \in Seq(Content)
      BY <3>3, <2>6
    <3>5. h[b] # <<>>
      <4>1. DOMAIN h[b] = 1 .. deallocated(i) /\ 1 \in 1 .. deallocated(i)
        BY <3>2, <2>6
      <4>2. DOMAIN << >> = {}
        OBVIOUS
      <4> QED
        BY <4>1, <4>2
    <3> QED
      BY <3>1, <3>3, <3>4, <3>5, <2>3
  <2> HIDE DEF o, h
  <2>10. o \in Objects
    BY <2>7, <2>8, <1>1 DEF Objects
  <2>11. \A j \in 0 .. i : o.data_pv[j] # Null
    <3>1. CASE at = 0
      <4>1. i = 0
        BY <3>1, Lower
      <4> QED
        BY <4>1, <2>5, <2>8
    <3>2. CASE at # 0
      <4>1. at - 1 \in Nat /\ (at - 1) + 1 = at
        BY <1>1, <3>2
      <4>2. i \in {index1_pv(at - 1), index1_pv(at - 1) + 1}
        BY <4>1, <1>1, NextBlock
      <4>3. s.o.data_pv[index1_pv(at - 1)] # Null
        BY <3>2, <1>0 DEF Member
      <4>4. i = index1_pv(at - 1) + 1
        BY <4>2, <4>3, <2>1
      <4>5. index1_pv(at - 1) \in Indices
        BY <4>1, <1>1, Place, MaxIsNumber DEF Placed
      <4>6. \A j \in 0 .. index1_pv(at - 1) : s.o.data_pv[j] # Null
        BY <4>3, <4>5, <1>0, Table DEF Member
      <4>7. \A j \in 0 .. i : j = i \/ j \in 0 .. index1_pv(at - 1)
        BY <4>4, <4>5, Bits DEF Indices
      <4> QED
        BY <4>6, <4>7, <2>5, <2>7, <2>8
    <3> QED
      BY <3>1, <3>2
  <2>12. Member(o)
    <3>1. ASSUME NEW j \in 0 .. WordBits - 1, o.data_pv[j] # Null
          PROVE  j \in Indices /\ \A l \in 0 .. j : o.data_pv[l] # Null
      <4>1. CASE j = i
        BY <4>1, <1>2, <2>11
      <4>2. CASE j # i
        <5>1. s.o.data_pv[j] # Null
          BY <4>2, <3>1, <2>8
        <5>2. j \in Indices /\ \A l \in 0 .. j : s.o.data_pv[l] # Null
          BY <5>1, <1>0 DEF Member
        <5>3. \A l \in 0 .. j : l \in 0 .. WordBits - 1
          BY Bits
        <5> QED
          BY <5>2, <5>3, <2>5, <2>8
      <4> QED
        BY <4>1, <4>2
    <3>2. ASSUME at # 0 PROVE o.data_pv[index1_pv(at - 1)] # Null
      <4>1. s.o.data_pv[index1_pv(at - 1)] # Null
        BY <3>2, <1>0 DEF Member
      <4>2. at - 1 \in Nat /\ at - 1 < Max1
        BY <3>2, <1>1, MaxIsNumber
      <4>3. index1_pv(at - 1) \in 0 .. WordBits - 1
        BY <4>2, <1>0, Place, Table DEF Placed
      <4> QED
        BY <4>1, <4>3, <2>5, <2>8
    <3> QED
      BY <3>1, <3>2, <2>8, <2>10, <1>1, MaxIsNumber DEF Member
  <2>13. Fitting(o, h)
    <3>1. ASSUME NEW j \in Indices, o.data_pv[j] # Null
          PROVE  h[o.data_pv[j]] \in [1 .. deallocated(j) -> Content]
      <4>1. CASE j = i
        BY <4>1, <2>8, <2>9
      <4>2. CASE j # i
        <5>1. o.data_pv[j] = s.o.data_pv[j] /\ s.o.data_pv[j] # Null
          BY <4>2, <3>1, <2>8, <1>0, Table
        <5>2. s.o.data_pv[j] \in Blocks /\ s.o.data_pv[j] # b
          BY <5>1, <2>5, <1>0, HeldIs, Table
        <5> QED
          BY <5>1, <5>2, <2>9, <1>0 DEF Fitting
      <4> QED
        BY <4>1, <4>2
    <3> QED
      BY <3>1 DEF Fitting
  <2>14. \A j \in Indices : j # i /\ o.data_pv[j] # Null => s.o.data_pv[j] = o.data_pv[j] /\ o.data_pv[j] # b
    BY <2>5, <2>8, <1>0, HeldIs, Table
  <2>15. Single(o)
    BY <2>8, <2>14, <1>0 DEF Single
  <2>16. Held(o) = Held(s.o) \cup {b}
    <3>1. ASSUME NEW c \in Held(o) PROVE c \in Held(s.o) \cup {b}
      <4>1. PICK j \in Indices : o.data_pv[j] = c /\ c # Null
        BY <2>12, HeldIs
      <4> QED
        BY <4>1, <2>8, <2>14, <1>0, HeldIs
    <3>2. ASSUME NEW c \in Held(s.o) PROVE c \in Held(o)
      <4>1. PICK j \in Indices : s.o.data_pv[j] = c /\ c # Null
        BY <1>0, HeldIs
      <4>2. j # i /\ j \in 0 .. WordBits - 1
        BY <4>1, <2>1, <1>0, Table
      <4> QED
        BY <4>1, <4>2, <2>8, <2>12, HeldIs
    <3>3. b \in Held(o)
      BY <2>5, <2>8, <1>2, <2>12, HeldIs
    <3> QED
      BY <3>1, <3>2, <3>3
  <2>17. Used(h) = Held(o) \cup R
    BY <2>3, <2>9, <2>16, <1>0 DEF Used
  <2>18. ASSUME NEW e \in Nat, e < at PROVE Element(o, h, e) = Element(s.o, s.h, e)
    <3>1. /\ index1_pv(e) \in Indices /\ s.o.data_pv[index1_pv(e)] # Null
          /\ s.o.data_pv[index1_pv(e)] \in Blocks /\ s.o.data_pv[index1_pv(e)] \in Held(s.o)
      BY <2>18, <1>0, Stored
    <3>2. o.data_pv[index1_pv(e)] = s.o.data_pv[index1_pv(e)]
      BY <3>1, <2>1, <2>8, <1>0, Table
    <3> QED
      BY <3>1, <3>2, <2>5, <2>9 DEF Element
  <2>19. AllConstructed(o, h)
    BY <2>8, <2>18, <1>0 DEF AllConstructed
  <2>20. \A c \in R : h[c] = s.h[c]
    BY <2>5, <2>9, <1>0 DEF Used
  <2> DEFINE t == [o |-> o, h |-> h]
  <2>21. t.o = o /\ t.h = h
    OBVIOUS
  <2>22. Local(t, R)
    BY <2>5, <2>9, <2>12, <2>13, <2>15, <2>16, <2>17, <2>19, <2>21, <1>0 DEF Local, Own, Filled
  <2>23. Grown(s, t, R)
    BY <2>5, <2>8, <2>18, <2>20, <2>21, <2>22, <1>1 DEF Grown, SameFor, SameElements
  <2> QED
    BY <2>4, <2>23
<1> QED
  BY <1>3, <1>4

\* t is s with n elements of vs appended.
Extends(s, t, vs, n, R) ==
    /\ Local(t, R) /\ SameFor(s, t, R)
    /\ t.o.size_pv = s.o.size_pv + n
    /\ \A e \in Nat : e < s.o.size_pv => Element(t.o, t.h, e) = Element(s.o, s.h, e)
    /\ \A k \in 1 .. n : Element(t.o, t.h, s.o.size_pv + k - 1) = vs[k]

\* push_back appends its element and keeps the others.
LEMMA PushExtends ==
    ASSUME NEW s, NEW t, NEW vs, NEW n \in Nat, NEW R, s.o.size_pv \in Nat,
           Extends(s, t, vs, n, R), Fits(t), vs[n + 1] \in Values
    PROVE  Extends(s, push_back(t, vs[n + 1]), vs, n + 1, R)
<1> DEFINE at == t.o.size_pv
           u == Allocate(t)
           v == vs[n + 1]
           o == [u.o EXCEPT !.size_pv = at + 1]
           h == Put(u.o, u.h, at, v)
<1>0. Local(t, R) /\ at = s.o.size_pv + n /\ v \in Content
  BY DEF Extends, Content
<1>1. Grown(t, u, R)
  BY <1>0, AllocateGrows
<1> HIDE DEF u
<1>2. /\ Filled(u.h) /\ Member(u.o) /\ Fitting(u.o, u.h) /\ Single(u.o) /\ AllConstructed(u.o, u.h)
      /\ Held(u.o) \cap R = {} /\ Used(u.h) = Held(u.o) \cup R
      /\ u.o.size_pv = at /\ at < Max1 /\ u.o.data_pv[index1_pv(at)] # Null
      /\ SameFor(t, u, R) /\ \A e \in Nat : e < at => Element(u.o, u.h, e) = Element(t.o, t.h, e)
  BY <1>1 DEF Grown, Local, Own, SameElements
<1>3. at \in Nat /\ at + 1 \in Nat /\ at + 1 <= Max1 /\ Max1 \in Nat
  BY <1>0, <1>2, MaxIsNumber
<1>4. Written(u.o, u.h, at, v, h)
  BY <1>0, <1>2, <1>3, PutWrites
<1> HIDE DEF h
<1>5. o = [size_pv |-> at + 1, data_pv |-> u.o.data_pv]
  <2>1. u.o = [size_pv |-> u.o.size_pv, data_pv |-> u.o.data_pv]
    BY <1>2, Table
  <2> QED
    BY <2>1
<1>6. o.size_pv = at + 1 /\ o.data_pv = u.o.data_pv /\ o \in Objects
  BY <1>2, <1>3, <1>5, Table DEF Objects
<1> HIDE DEF o
<1>7. Member(o)
  <2>1. (at + 1) - 1 = at
    BY <1>3
  <2> QED
    BY <2>1, <1>2, <1>3, <1>6 DEF Member
<1>8. Fitting(o, h) /\ Single(o) /\ Held(o) = Held(u.o)
  BY <1>2, <1>4, <1>6 DEF Written, Fitting, Single, Held
<1>9. \A e : Element(o, h, e) = Element(u.o, h, e)
  BY <1>6 DEF Element
<1>10. Element(o, h, at) = v /\ \A e \in Nat : e < at => Element(o, h, e) = Element(t.o, t.h, e)
  BY <1>2, <1>4, <1>9 DEF Written
<1>11. AllConstructed(o, h)
  <2>1. ASSUME NEW e \in Nat, e < at + 1 PROVE Element(o, h, e) \in Values
    <3>1. e = at \/ e < at
      BY <2>1, <1>3
    <3>2. e < at => Element(t.o, t.h, e) \in Values
      BY <1>0 DEF Local, Own, AllConstructed
    <3> QED
      BY <3>1, <3>2, <1>10
  <2> QED
    BY <2>1, <1>6 DEF AllConstructed
<1>12. \A b \in R : h[b] = s.h[b]
  <2>1. R \subseteq Blocks
    BY <1>2 DEF Used
  <2>2. u.o.data_pv[index1_pv(at)] \in Held(u.o)
    <3>1. index1_pv(at) \in Indices
      BY <1>2, <1>3, Place DEF Placed
    <3> QED
      BY <3>1, <1>2, HeldIs
  <2>3. \A b \in R : h[b] = u.h[b]
    BY <2>1, <2>2, <1>2, <1>4 DEF Written
  <2> QED
    BY <2>3, <1>2 DEF SameFor, Extends
<1> DEFINE w == [o |-> o, h |-> h]
<1>13. w.o = o /\ w.h = h
  OBVIOUS
<1>14. push_back(t, v) = w
  BY DEF push_back, u, o, h
<1>15. Local(w, R)
  BY <1>2, <1>4, <1>7, <1>8, <1>11, <1>13 DEF Local, Own, Written
<1>16. SameFor(s, w, R)
  BY <1>12, <1>13 DEF SameFor
<1> HIDE DEF w
<1>17. w.o.size_pv = s.o.size_pv + (n + 1)
  BY <1>0, <1>6, <1>13
<1>18. ASSUME NEW e \in Nat, e < s.o.size_pv PROVE Element(w.o, w.h, e) = Element(s.o, s.h, e)
  <2>1. e < at
    BY <1>0, <1>18
  <2> QED
    BY <2>1, <1>10, <1>13, <1>18 DEF Extends
<1>19. ASSUME NEW k \in 1 .. n + 1 PROVE Element(w.o, w.h, s.o.size_pv + k - 1) = vs[k]
  <2>1. CASE k = n + 1
    <3>1. s.o.size_pv + k - 1 = at
      BY <2>1, <1>0
    <3> QED
      BY <2>1, <3>1, <1>10, <1>13
  <2>2. CASE k # n + 1
    <3>1. k \in 1 .. n /\ s.o.size_pv + k - 1 \in Nat /\ s.o.size_pv + k - 1 < at
      BY <2>2, <1>0
    <3> QED
      BY <3>1, <1>10, <1>13 DEF Extends
  <2> QED
    BY <2>1, <2>2
<1>20. Extends(s, w, vs, n + 1, R)
  BY <1>15, <1>16, <1>17, <1>18, <1>19 DEF Extends
<1> QED
  BY <1>14, <1>20

\* One with a block more for an element that threw.
LEMMA GrowExtends ==
    ASSUME NEW s, NEW t, NEW vs, NEW n \in Nat, NEW R, s.o.size_pv \in Nat,
           Extends(s, t, vs, n, R), Fits(t)
    PROVE  Extends(s, Allocate(t), vs, n, R)
<1> DEFINE u == Allocate(t)
<1>1. Local(t, R) /\ t.o.size_pv = s.o.size_pv + n
  BY DEF Extends
<1>2. Grown(t, u, R)
  BY <1>1, AllocateGrows
<1> HIDE DEF u
<1>3. Local(u, R) /\ SameFor(s, u, R) /\ u.o.size_pv = s.o.size_pv + n
  BY <1>1, <1>2 DEF Grown, SameElements, SameFor, Extends
<1>4. \A e \in Nat : e < s.o.size_pv + n => Element(u.o, u.h, e) = Element(t.o, t.h, e)
  BY <1>1, <1>2 DEF Grown, SameElements
<1>5. ASSUME NEW e \in Nat, e < s.o.size_pv PROVE Element(u.o, u.h, e) = Element(s.o, s.h, e)
  <2>1. e < s.o.size_pv + n
    BY <1>5
  <2> QED
    BY <2>1, <1>4, <1>5 DEF Extends
<1>6. ASSUME NEW k \in 1 .. n PROVE Element(u.o, u.h, s.o.size_pv + k - 1) = vs[k]
  <2>1. s.o.size_pv + k - 1 \in Nat /\ s.o.size_pv + k - 1 < s.o.size_pv + n
    OBVIOUS
  <2> QED
    BY <2>1, <1>4 DEF Extends
<1>7. Extends(s, u, vs, n, R)
  BY <1>3, <1>5, <1>6 DEF Extends
<1> QED
  BY <1>7 DEF u

\* t is s without the elements from the nth on.
Reduces(s, t, n, R) ==
    /\ Local(t, R) /\ SameFor(s, t, R) /\ t.o.size_pv = n
    /\ \A e \in Nat : e < n => Element(t.o, t.h, e) = Element(s.o, s.h, e)

\* pop_back takes the last element and keeps the others.
LEMMA PopReduces ==
    ASSUME NEW s, NEW t, NEW n \in Nat, NEW R, Reduces(s, t, n + 1, R)
    PROVE  Reduces(s, pop_back(t), n, R)
<1> DEFINE o == [t.o EXCEPT !.size_pv = n]
           h == Put(t.o, t.h, n, Raw)
<1>1. /\ Filled(t.h) /\ Member(t.o) /\ Fitting(t.o, t.h) /\ Single(t.o) /\ AllConstructed(t.o, t.h)
      /\ Held(t.o) \cap R = {} /\ Used(t.h) = Held(t.o) \cup R
      /\ t.o.size_pv = n + 1 /\ SameFor(s, t, R)
  BY DEF Reduces, Local, Own
<1>2. n < t.o.size_pv /\ (n + 1) - 1 = n /\ Raw \in Content
  BY <1>1 DEF Content
<1>3. /\ n < Max1 /\ index1_pv(n) \in Indices
      /\ t.o.data_pv[index1_pv(n)] # Null /\ t.o.data_pv[index1_pv(n)] \in Held(t.o)
  BY <1>1, <1>2, Stored
<1>4. Written(t.o, t.h, n, Raw, h)
  BY <1>1, <1>2, <1>3, PutWrites
<1> HIDE DEF h
<1>5. o = [size_pv |-> n, data_pv |-> t.o.data_pv]
  <2>1. t.o = [size_pv |-> t.o.size_pv, data_pv |-> t.o.data_pv]
    BY <1>1, Table
  <2> QED
    BY <2>1
<1>6. o.size_pv = n /\ o.data_pv = t.o.data_pv /\ o \in Objects
  BY <1>1, <1>5, Table DEF Objects
<1> HIDE DEF o
<1>7. Member(o)
  <2>1. ASSUME n # 0 PROVE o.data_pv[index1_pv(n - 1)] # Null
    <3>1. n - 1 \in Nat /\ n - 1 < t.o.size_pv
      BY <2>1, <1>1
    <3> QED
      BY <3>1, <1>1, <1>6, Stored
  <2>2. n <= Max1
    BY <1>3, MaxIsNumber
  <2> QED
    BY <2>1, <2>2, <1>1, <1>6 DEF Member
<1>8. Fitting(o, h) /\ Single(o) /\ Held(o) = Held(t.o)
  BY <1>1, <1>4, <1>6 DEF Written, Fitting, Single, Held
<1>9. \A e \in Nat : e < n => Element(o, h, e) = Element(t.o, t.h, e)
  <2>1. \A e \in Nat : e < n => e < n + 1 /\ e # n
    OBVIOUS
  <2>2. \A e : Element(o, h, e) = Element(t.o, h, e)
    BY <1>6 DEF Element
  <2> QED
    BY <2>1, <2>2, <1>1, <1>4 DEF Written
<1>10. AllConstructed(o, h)
  <2>1. \A e \in Nat : e < n => e < n + 1
    OBVIOUS
  <2> QED
    BY <2>1, <1>1, <1>6, <1>9 DEF AllConstructed
<1>11. \A b \in R : h[b] = s.h[b]
  <2>1. R \subseteq Blocks
    BY <1>1 DEF Used
  <2> QED
    BY <2>1, <1>1, <1>3, <1>4 DEF Written, SameFor
<1> DEFINE w == [o |-> o, h |-> h]
<1>12. w.o = o /\ w.h = h
  OBVIOUS
<1>13. pop_back(t) = w
  BY <1>1, <1>2 DEF pop_back, o, h
<1>14. Local(w, R)
  BY <1>1, <1>4, <1>7, <1>8, <1>10, <1>12 DEF Local, Own, Written
<1> HIDE DEF w
<1>15. \A e \in Nat : e < n => Element(w.o, w.h, e) = Element(s.o, s.h, e)
  <2>1. \A e \in Nat : e < n => e < n + 1
    OBVIOUS
  <2> QED
    BY <2>1, <1>9, <1>12 DEF Reduces
<1>16. Reduces(s, w, n, R)
  BY <1>6, <1>11, <1>12, <1>14, <1>15 DEF Reduces, SameFor
<1> QED
  BY <1>13, <1>16

-----------------------------------------------------------------------------
(* What adding and removing several does.                                  *)

\* The functions that the calls which append and pop are defined by exist.
Pushes(s, vs, n, f) ==
    f = [k \in 0 .. n |-> IF k = 0 THEN s ELSE push_back(f[k - 1], vs[k])]
Pops(s, n, f) ==
    f = [k \in 0 .. n |-> IF k = 0 THEN s ELSE pop_back(f[k - 1])]

\* There is such a function, for any number of calls.
LEMMA PushesExist ==
    ASSUME NEW s, NEW vs, NEW n \in Nat
    PROVE  \E f : Pushes(s, vs, n, f)
<1> DEFINE T == {k \in Nat : ~\E f : Pushes(s, vs, k, f)}
<1>1. ASSUME T # {} PROVE FALSE
  <2>1. PICK k \in T : \A j \in T : k <= j
    BY <1>1, Least
  <2>2. k # 0
    <3>1. Pushes(s, vs, 0, [j \in 0 .. 0 |-> s])
      BY DEF Pushes
    <3> QED
      BY <2>1, <3>1
  <2>3. k - 1 \in Nat /\ k - 1 \notin T /\ k \in Nat
    BY <2>1, <2>2
  <2>4. PICK f : Pushes(s, vs, k - 1, f)
    BY <2>3
  <2> DEFINE g == [j \in 0 .. k |-> IF j = k THEN push_back(f[k - 1], vs[k]) ELSE f[j]]
  <2>5. \A j \in 0 .. k - 1 : f[j] = IF j = 0 THEN s ELSE push_back(f[j - 1], vs[j])
    BY <2>4 DEF Pushes
  <2>6. \A j \in 0 .. k - 1 : g[j] = f[j]
    BY <2>3
  <2>7. ASSUME NEW j \in 0 .. k PROVE g[j] = IF j = 0 THEN s ELSE push_back(g[j - 1], vs[j])
    <3>1. CASE j = k
      <4>1. g[k - 1] = f[k - 1] /\ g[k] = push_back(f[k - 1], vs[k])
        BY <2>2, <2>3, <2>6
      <4> QED
        BY <3>1, <4>1, <2>2
    <3>2. CASE j # k
      <4>1. j \in 0 .. k - 1 /\ (j # 0 => j - 1 \in 0 .. k - 1)
        BY <3>2, <2>3
      <4> QED
        BY <4>1, <2>5, <2>6
    <3> QED
      BY <3>1, <3>2
  <2>8. Pushes(s, vs, k, g)
    <3>1. g = [j \in 0 .. k |-> g[j]]
      OBVIOUS
    <3> HIDE DEF g
    <3> QED
      BY <2>7, <3>1 DEF Pushes
  <2> QED
    BY <2>1, <2>8
<1> QED
  BY <1>1

\* And for those that pop.
LEMMA PopsExist ==
    ASSUME NEW s, NEW n \in Nat
    PROVE  \E f : Pops(s, n, f)
<1> DEFINE T == {k \in Nat : ~\E f : Pops(s, k, f)}
<1>1. ASSUME T # {} PROVE FALSE
  <2>1. PICK k \in T : \A j \in T : k <= j
    BY <1>1, Least
  <2>2. k # 0
    <3>1. Pops(s, 0, [j \in 0 .. 0 |-> s])
      BY DEF Pops
    <3> QED
      BY <2>1, <3>1
  <2>3. k - 1 \in Nat /\ k - 1 \notin T /\ k \in Nat
    BY <2>1, <2>2
  <2>4. PICK f : Pops(s, k - 1, f)
    BY <2>3
  <2> DEFINE g == [j \in 0 .. k |-> IF j = k THEN pop_back(f[k - 1]) ELSE f[j]]
  <2>5. \A j \in 0 .. k - 1 : f[j] = IF j = 0 THEN s ELSE pop_back(f[j - 1])
    BY <2>4 DEF Pops
  <2>6. \A j \in 0 .. k - 1 : g[j] = f[j]
    BY <2>3
  <2>7. ASSUME NEW j \in 0 .. k PROVE g[j] = IF j = 0 THEN s ELSE pop_back(g[j - 1])
    <3>1. CASE j = k
      <4>1. g[k - 1] = f[k - 1] /\ g[k] = pop_back(f[k - 1])
        BY <2>2, <2>3, <2>6
      <4> QED
        BY <3>1, <4>1, <2>2
    <3>2. CASE j # k
      <4>1. j \in 0 .. k - 1 /\ (j # 0 => j - 1 \in 0 .. k - 1)
        BY <3>2, <2>3
      <4> QED
        BY <4>1, <2>5, <2>6
    <3> QED
      BY <3>1, <3>2
  <2>8. Pops(s, k, g)
    <3>1. g = [j \in 0 .. k |-> g[j]]
      OBVIOUS
    <3> HIDE DEF g
    <3> QED
      BY <2>7, <3>1 DEF Pops
  <2> QED
    BY <2>1, <2>8
<1> QED
  BY <1>1

\* Popping down to a size leaves the first elements.
LEMMA Popped ==
    ASSUME NEW s, NEW n \in Nat, NEW R, Local(s, R)
    PROVE  Reduces(s, Popping(s, n), IF s.o.size_pv <= n THEN s.o.size_pv ELSE n, R)
<1> DEFINE z == s.o.size_pv
           f == CHOOSE g : Pops(s, z, g)
<1>1. z \in Nat
  BY Table DEF Local, Own
<1>2. Popping(s, n) = f[Larger(z - n, 0)]
  BY DEF Popping, Pops
<1>3. Pops(s, z, f)
  BY <1>1, PopsExist
<1> HIDE DEF f
<1>4. f[0] = s /\ \A k \in 0 .. z - 1 : f[k + 1] = pop_back(f[k])
  <2>1. \A k \in 0 .. z : f[k] = IF k = 0 THEN s ELSE pop_back(f[k - 1])
    BY <1>3 DEF Pops
  <2>2. ASSUME NEW k \in 0 .. z - 1 PROVE f[k + 1] = pop_back(f[k])
    <3>1. k + 1 \in 0 .. z /\ k + 1 # 0 /\ (k + 1) - 1 = k
      BY <1>1
    <3> QED
      BY <2>1, <3>1
  <2> QED
    BY <2>1, <2>2, <1>1
<1> DEFINE T == {k \in Nat : k <= z /\ ~Reduces(s, f[k], z - k, R)}
<1>5. ASSUME T # {} PROVE FALSE
  <2>1. PICK k \in T : \A j \in T : k <= j
    BY <1>5, Least
  <2>2. k # 0
    <3>1. Reduces(s, s, z, R)
      BY DEF Reduces, SameFor
    <3> QED
      BY <2>1, <3>1, <1>1, <1>4
  <2>3. k - 1 \in Nat /\ k - 1 \notin T /\ k \in Nat /\ k <= z
    BY <2>1, <2>2
  <2>4. Reduces(s, f[k - 1], z - (k - 1), R)
    BY <2>3, <1>1
  <2>5. z - (k - 1) = (z - k) + 1 /\ z - k \in Nat /\ k - 1 \in 0 .. z - 1 /\ (k - 1) + 1 = k
    BY <2>3, <1>1
  <2>6. f[k] = pop_back(f[k - 1])
    BY <2>5, <1>4
  <2>7. Reduces(s, f[k - 1], (z - k) + 1, R)
    BY <2>4, <2>5
  <2>8. Reduces(s, f[k], z - k, R)
    BY <2>5, <2>6, <2>7, PopReduces
  <2> QED
    BY <2>1, <2>8
<1>6. CASE z <= n
  <2>1. Larger(z - n, 0) = 0
    BY <1>1, <1>6 DEF Larger
  <2> QED
    BY <2>1, <1>2, <1>4, <1>6 DEF Reduces, SameFor
<1>7. CASE ~(z <= n)
  <2>1. Larger(z - n, 0) = z - n /\ z - n \in Nat /\ z - n <= z /\ z - (z - n) = n
    BY <1>1, <1>7 DEF Larger
  <2>2. Reduces(s, f[z - n], z - (z - n), R)
    BY <2>1, <1>5
  <2> QED
    BY <2>1, <2>2, <1>2, <1>7
<1> QED
  BY <1>6, <1>7

\* Appending, whatever throws, has appended some first part of the elements.
LEMMA Appended ==
    ASSUME NEW s, NEW vs \in Seq(Values), NEW R, Local(s, R), NEW r \in Appending(s, vs)
    PROVE  \E n \in 0 .. Len(vs) : Extends(s, r.s, vs, n, R) /\ (r.done => n = Len(vs))
<1> DEFINE N == Len(vs)
           f == CHOOSE g : Pushes(s, vs, N, g)
           Reached == {n \in 0 .. N : \A k \in 0 .. n - 1 : Fits(f[k])}
           Throws == {n \in Reached \ {N} : MayThrow /\ Fits(f[n])}
           Ends == {n \in Reached : n < N => MayThrow \/ ~Fits(f[n])}
<1>1. N \in Nat /\ s.o.size_pv \in Nat
  BY Table DEF Local, Own
<1>2. Appending(s, vs) = {[s |-> f[n], done |-> n = N] : n \in Ends}
                         \cup {[s |-> Allocate(f[n]), done |-> FALSE] : n \in Throws}
  BY DEF Appending, Pushes
<1>3. Pushes(s, vs, N, f)
  BY <1>1, PushesExist
<1> HIDE DEF f
<1>4. f[0] = s /\ \A k \in 0 .. N - 1 : f[k + 1] = push_back(f[k], vs[k + 1])
  <2>1. \A k \in 0 .. N : f[k] = IF k = 0 THEN s ELSE push_back(f[k - 1], vs[k])
    BY <1>3 DEF Pushes
  <2>2. ASSUME NEW k \in 0 .. N - 1 PROVE f[k + 1] = push_back(f[k], vs[k + 1])
    <3>1. k + 1 \in 0 .. N /\ k + 1 # 0 /\ (k + 1) - 1 = k
      BY <1>1
    <3> QED
      BY <2>1, <3>1
  <2> QED
    BY <2>1, <2>2, <1>1
<1> DEFINE T == {k \in Nat : k \in Reached /\ ~Extends(s, f[k], vs, k, R)}
<1>5. ASSUME T # {} PROVE FALSE
  <2>1. PICK k \in T : \A j \in T : k <= j
    BY <1>5, Least
  <2>2. k # 0
    <3>1. Extends(s, s, vs, 0, R)
      BY <1>1 DEF Extends, SameFor
    <3> QED
      BY <2>1, <3>1, <1>4
  <2>3. k - 1 \in Nat /\ k - 1 \notin T /\ k \in Nat /\ k <= N /\ k \in Reached
    BY <2>1, <2>2
  <2>4. k - 1 \in 0 .. N - 1 /\ (k - 1) + 1 = k /\ k - 1 \in 0 .. N /\ k \in 1 .. N
        /\ \A j \in 0 .. (k - 1) - 1 : j \in 0 .. k - 1
    BY <2>3, <1>1
  <2>5. k - 1 \in Reached /\ Fits(f[k - 1])
    <3>1. k - 1 \in 0 .. k - 1
      BY <2>3
    <3> QED
      BY <3>1, <2>3, <2>4
  <2>6. Extends(s, f[k - 1], vs, k - 1, R)
    BY <2>3, <2>5
  <2>7. f[k] = push_back(f[k - 1], vs[k])
    BY <2>4, <1>4
  <2>8. vs[(k - 1) + 1] \in Values
    BY <2>4
  <2>9. Extends(s, push_back(f[k - 1], vs[(k - 1) + 1]), vs, (k - 1) + 1, R)
    BY <1>1, <2>3, <2>5, <2>6, <2>8, PushExtends
  <2>10. Extends(s, f[k], vs, k, R)
    BY <2>4, <2>7, <2>9
  <2> QED
    BY <2>1, <2>10
<1>6. ASSUME NEW n \in Reached PROVE n \in 0 .. N /\ n \in Nat /\ Extends(s, f[n], vs, n, R)
  BY <1>5
<1>7. CASE \E n \in Ends : r = [s |-> f[n], done |-> n = N]
  <2>1. PICK n \in Ends : r = [s |-> f[n], done |-> n = N]
    BY <1>7
  <2>2. n \in Reached /\ r.s = f[n] /\ (r.done <=> n = N)
    BY <2>1
  <2> QED
    BY <2>2, <1>6
<1>8. CASE \E n \in Throws : r = [s |-> Allocate(f[n]), done |-> FALSE]
  <2>1. PICK n \in Throws : r = [s |-> Allocate(f[n]), done |-> FALSE]
    BY <1>8
  <2>2. n \in Reached /\ r.s = Allocate(f[n]) /\ ~r.done /\ Fits(f[n])
    BY <2>1
  <2>3. Extends(s, Allocate(f[n]), vs, n, R)
    BY <2>2, <1>1, <1>6, GrowExtends
  <2> QED
    BY <2>2, <2>3, <1>6
<1> QED
  BY <1>2, <1>7, <1>8

(* The inductive invariant: each monoque is in order, and they share out    *)
(* the memory.                                                              *)
Inv ==
    /\ obj \in [Names -> Objects \cup {Absent}]
    /\ Filled(heap)
    /\ \A m \in Alive : Own(obj[m], heap)
    /\ \A m \in Alive, n \in Alive : m # n => Held(obj[m]) \cap Held(obj[n]) = {}
    /\ Used(heap) = UNION {Held(obj[m]) : m \in Alive}

Others(m) == UNION {Held(obj[n]) : n \in Alive \ {m}}

\* The same elements make the same sequence.
LEMMA ElementsSame ==
    ASSUME NEW o, NEW h, NEW q, NEW g, SameElements(o, h, q, g), o.size_pv \in Nat
    PROVE  Elements(q, g) = Elements(o, h)
<1>1. ASSUME NEW i \in 1 .. o.size_pv PROVE Element(q, g, i - 1) = Element(o, h, i - 1)
  <2>1. i - 1 \in Nat /\ i - 1 < o.size_pv
    OBVIOUS
  <2> QED
    BY <2>1 DEF SameElements
<1>2. q.size_pv = o.size_pv
  BY DEF SameElements
<1> QED
  BY <1>1, <1>2 DEF Elements

\* The elements of a monoque that is in order are a sequence of values.
LEMMA ElementsType ==
    ASSUME NEW o, NEW h, Own(o, h)
    PROVE  /\ Elements(o, h) \in Seq(Values) /\ Len(Elements(o, h)) = o.size_pv
           /\ Elements(o, h) \in [1 .. o.size_pv -> Values]
           /\ o.size_pv \in Nat
           /\ Elements(o, h) # Absent
<1>1. o.size_pv \in Nat
  BY Table DEF Own
<1>2. ASSUME NEW i \in 1 .. o.size_pv PROVE Element(o, h, i - 1) \in Values
  <2>1. i - 1 \in Nat /\ i - 1 < o.size_pv
    BY <1>1
  <2> QED
    BY <2>1 DEF Own, AllConstructed
<1>3. Elements(o, h) \in [1 .. o.size_pv -> Values]
  BY <1>2 DEF Elements
<1>4. Elements(o, h) \in Seq(Values) /\ Len(Elements(o, h)) = o.size_pv
  BY <1>1, <1>3
<1> QED
  BY <1>1, <1>3, <1>4, SequenceAssumption

\* The elements after n of vs have been appended.
AppendedTo(es, vs, n) ==
    [i \in 1 .. Len(es) + n |-> IF i <= Len(es) THEN es[i] ELSE vs[i - Len(es)]]

\* The sequence after appending.
LEMMA ElementsAppended ==
    ASSUME NEW s, NEW t, NEW vs, NEW n \in Nat, NEW R, Own(s.o, s.h), Extends(s, t, vs, n, R)
    PROVE  Elements(t.o, t.h) = AppendedTo(Elements(s.o, s.h), vs, n)
<1> DEFINE z == s.o.size_pv
           es == Elements(s.o, s.h)
<1>1. z \in Nat /\ Len(es) = z
  BY ElementsType
<1>2. t.o.size_pv = z + n
  BY DEF Extends
<1>3. ASSUME NEW i \in 1 .. z + n
      PROVE  Element(t.o, t.h, i - 1) = IF i <= z THEN es[i] ELSE vs[i - z]
  <2>1. CASE i <= z
    <3>1. i - 1 \in Nat /\ i - 1 < z /\ i \in 1 .. z
      BY <1>1, <2>1
    <3>2. es[i] = Element(s.o, s.h, i - 1)
      BY <3>1 DEF Elements
    <3>3. Element(t.o, t.h, i - 1) = Element(s.o, s.h, i - 1)
      BY <3>1 DEF Extends
    <3> QED
      BY <2>1, <3>2, <3>3
  <2>2. CASE ~(i <= z)
    <3>1. i - z \in 1 .. n /\ z + (i - z) - 1 = i - 1
      BY <1>1, <2>2
    <3>2. Element(t.o, t.h, z + (i - z) - 1) = vs[i - z]
      BY <3>1 DEF Extends
    <3> QED
      BY <2>2, <3>1, <3>2
  <2> QED
    BY <2>1, <2>2
<1>4. Elements(t.o, t.h) = [i \in 1 .. z + n |-> Element(t.o, t.h, i - 1)]
  BY <1>2 DEF Elements
<1> HIDE DEF es
<1>5. Elements(t.o, t.h) = [i \in 1 .. z + n |-> IF i <= z THEN es[i] ELSE vs[i - z]]
  BY <1>3, <1>4
<1> QED
  BY <1>1, <1>5 DEF AppendedTo, es

-----------------------------------------------------------------------------
\* An empty monoque is in order, whatever the memory.
LEMMA NoneOwns ==
    /\ None \in Objects /\ None.size_pv = 0 /\ Held(None) = {} /\ \A h : Own(None, h)
    /\ \A h : Elements(None, h) = << >>
<1>1. None = [size_pv |-> 0, data_pv |-> [i \in 0 .. WordBits - 1 |-> Null]]
  BY DEF None
<1>2. None.size_pv = 0 /\ None.data_pv = [i \in 0 .. WordBits - 1 |-> Null]
  BY <1>1
<1>3. None \in Objects
  BY <1>1 DEF Objects
<1>4. \A i \in 0 .. WordBits - 1 : None.data_pv[i] = Null
  BY <1>2
<1>5. \A i \in Indices : i \in 0 .. WordBits - 1
  BY Bits DEF Indices
<1>6. Held(None) = {}
  BY <1>2, <1>4 DEF Held
<1>7. Member(None)
  BY <1>2, <1>3, <1>4, MaxIsNumber DEF Member
<1>8. \A h : Fitting(None, h) /\ AllConstructed(None, h) /\ Single(None)
  BY <1>2, <1>4, <1>5 DEF Fitting, AllConstructed, Single
<1>9. \A h : Elements(None, h) = << >>
  BY <1>2 DEF Elements
<1> QED
  BY <1>2, <1>3, <1>6, <1>7, <1>8, <1>9 DEF Own

\* A monoque among the others.
LEMMA LocalAt ==
    ASSUME Inv, NEW m \in Alive
    PROVE  /\ Local(At(m), Others(m)) /\ At(m).o = obj[m] /\ At(m).h = heap
           /\ Used(heap) = Held(obj[m]) \cup Others(m) /\ Held(obj[m]) \cap Others(m) = {}
<1>1. At(m).o = obj[m] /\ At(m).h = heap
  BY DEF At
<1>2. Used(heap) = Held(obj[m]) \cup Others(m) /\ Held(obj[m]) \cap Others(m) = {}
  BY DEF Inv, Others
<1> QED
  BY <1>1, <1>2 DEF Local, Inv

\* One that is being built aside.
Aside == [o |-> None, h |-> heap]

\* The one built aside holds nothing to begin with.
LEMMA LocalAside ==
    ASSUME Inv
    PROVE  Local(Aside, Used(heap)) /\ Aside.o = None /\ Aside.h = heap
<1>1. Aside.o = None /\ Aside.h = heap
  BY DEF Aside
<1> QED
  BY <1>1, NoneOwns DEF Local, Inv

\* To one that does not exist yet, all blocks are those of others.
LEMMA OthersAll ==
    ASSUME Inv, NEW m, m \notin Alive
    PROVE  Others(m) = Used(heap)
<1>1. Alive \ {m} = Alive
  OBVIOUS
<1> QED
  BY <1>1 DEF Inv, Others

\* Those whose blocks an operation leaves alone keep their elements.
LEMMA OthersKept ==
    ASSUME Inv, NEW m, NEW h, \A b \in Others(m) : h[b] = heap[b]
    PROVE  \A n \in Alive \ {m} : Own(obj[n], h) /\ Elements(obj[n], h) = Elements(obj[n], heap)
<1> SUFFICES ASSUME NEW n \in Alive \ {m}
             PROVE  Own(obj[n], h) /\ Elements(obj[n], h) = Elements(obj[n], heap)
  OBVIOUS
<1>1. Own(obj[n], heap)
  BY DEF Inv
<1>2. \A b \in Held(obj[n]) : h[b] = heap[b]
  BY DEF Others
<1>3. Own(obj[n], h) /\ SameElements(obj[n], heap, obj[n], h)
  BY <1>1, <1>2, Frame
<1> QED
  BY <1>1, <1>3, ElementsSame, ElementsType

\* Blocks of others are given back.
LEMMA ReleaseLocal ==
    ASSUME NEW s, NEW R, Local(s, R), NEW S \in SUBSET R, NEW Q, Q = R \ S, NEW t,
           t.o = s.o, t.h = Release(s.h, S)
    PROVE  Local(t, Q) /\ SameFor(s, t, Q) /\ SameElements(s.o, s.h, t.o, t.h)
<1>1. s.h \in [Blocks -> Seq(Content)] /\ Own(s.o, s.h) /\ Held(s.o) \cap R = {}
      /\ Used(s.h) = Held(s.o) \cup R
  BY DEF Local, Filled
<1>2. t.h = [b \in Blocks |-> IF b \in S THEN <<>> ELSE s.h[b]]
  BY DEF Release
<1>3. R \subseteq Blocks /\ Held(s.o) \subseteq Blocks
  BY <1>1 DEF Used
<1>4. << >> \in Seq(Content)
  OBVIOUS
<1>5. Filled(t.h)
  BY <1>1, <1>2, <1>4 DEF Filled
<1>6. Used(t.h) = Held(s.o) \cup Q
  BY <1>1, <1>2, <1>3 DEF Used
<1>7. \A b \in Held(s.o) : t.h[b] = s.h[b]
  BY <1>1, <1>2, <1>3
<1>8. Own(s.o, t.h) /\ SameElements(s.o, s.h, s.o, t.h)
  BY <1>1, <1>7, Frame
<1>9. SameFor(s, t, Q)
  BY <1>2, <1>3 DEF SameFor
<1> QED
  BY <1>1, <1>5, <1>6, <1>8, <1>9 DEF Local

-----------------------------------------------------------------------------
(* What an operation on m leaves.                                           *)
Leaves(m, es) == Inv' /\ elems' = [elems EXCEPT ![m] = es]

\* An operation that leaves m in order, and the blocks of others alone.
LEMMA Replaced ==
    ASSUME Inv, NEW m \in Names, NEW t, Local(t, Others(m)),
           \A b \in Others(m) : t.h[b] = heap[b], Becomes(m, t)
    PROVE  Leaves(m, Elements(t.o, t.h))
<1>1. obj \in [Names -> Objects \cup {Absent}] /\ Alive \subseteq Names
  BY DEF Inv, Alive
<1>2. /\ Filled(t.h) /\ Own(t.o, t.h) /\ t.o \in Objects /\ t.o # Absent
      /\ Held(t.o) \cap Others(m) = {} /\ Used(t.h) = Held(t.o) \cup Others(m)
  BY AbsentAssumption DEF Local, Own, Member
<1>3. heap' = t.h /\ obj' = [obj EXCEPT ![m] = t.o]
  BY DEF Becomes
<1>4. obj'[m] = t.o /\ \A n \in Names \ {m} : obj'[n] = obj[n]
  BY <1>1, <1>3
<1>5. Alive' = Alive \cup {m}
  BY <1>1, <1>2, <1>4 DEF Alive
<1>6. \A n \in Alive \ {m} : Own(obj[n], t.h) /\ Elements(obj[n], t.h) = Elements(obj[n], heap)
  BY OthersKept
<1>7. \A n \in Alive' : n = m \/ n \in Alive \ {m}
  BY <1>5
<1>8. obj' \in [Names -> Objects \cup {Absent}]
  BY <1>1, <1>2, <1>3
<1>9. \A n \in Alive' : Own(obj'[n], heap')
  BY <1>1, <1>2, <1>3, <1>4, <1>6, <1>7
<1>10. ASSUME NEW n \in Alive', NEW k \in Alive', n # k
       PROVE  Held(obj'[n]) \cap Held(obj'[k]) = {}
  <2>1. \A l \in Alive \ {m} : Held(obj'[l]) = Held(obj[l]) /\ Held(obj[l]) \subseteq Others(m)
    BY <1>1, <1>4 DEF Others
  <2>2. CASE n = m
    BY <2>1, <2>2, <1>2, <1>4, <1>7, <1>10
  <2>3. CASE k = m
    BY <2>1, <2>3, <1>2, <1>4, <1>7, <1>10
  <2>4. CASE n # m /\ k # m
    BY <2>1, <2>4, <1>7, <1>10 DEF Inv
  <2> QED
    BY <2>2, <2>3, <2>4
<1>11. UNION {Held(obj'[n]) : n \in Alive'} = Held(t.o) \cup Others(m)
  <2>1. ASSUME NEW b \in Held(t.o) \cup Others(m) PROVE \E n \in Alive' : b \in Held(obj'[n])
    BY <1>1, <1>4, <1>5 DEF Others
  <2>2. ASSUME NEW n \in Alive', NEW b \in Held(obj'[n]) PROVE b \in Held(t.o) \cup Others(m)
    BY <1>1, <1>4, <1>7 DEF Others
  <2> QED
    BY <2>1, <2>2
<1>12. Inv'
  <2>1. Filled(heap') /\ Used(heap') = UNION {Held(obj'[n]) : n \in Alive'}
    BY <1>2, <1>3, <1>11
  <2> QED
    BY <2>1, <1>8, <1>9, <1>10 DEF Inv, Filled, Used
<1>13. elems' = [n \in Names |-> IF n \in Alive' THEN Elements(obj'[n], heap') ELSE Absent]
  BY DEF elems, Elements, Element
<1>14. ASSUME NEW n \in Names
       PROVE  (IF n \in Alive' THEN Elements(obj'[n], heap') ELSE Absent)
                 = IF n = m THEN Elements(t.o, t.h) ELSE elems[n]
  BY <1>3, <1>4, <1>5, <1>6 DEF elems
<1>15. elems' = [elems EXCEPT ![m] = Elements(t.o, t.h)]
  <2>1. DOMAIN elems = Names
    BY DEF elems
  <2> QED
    BY <2>1, <1>13, <1>14
<1> QED
  BY <1>12, <1>15 DEF Leaves

-----------------------------------------------------------------------------
(* The operations: what each leaves of the monoque and of the others.      *)

\* Appending everything to an empty sequence.
LEMMA AppendedToNone ==
    ASSUME NEW vs \in Seq(Values)
    PROVE  AppendedTo(<< >>, vs, Len(vs)) = vs
<1>1. Len(vs) \in Nat /\ vs = [i \in 1 .. Len(vs) |-> vs[i]] /\ Len(<< >>) = 0
  OBVIOUS
<1>2. \A i \in 1 .. Len(vs) : ~(i <= 0) /\ i - 0 = i
  OBVIOUS
<1>3. AppendedTo(<< >>, vs, Len(vs)) = [i \in 1 .. Len(vs) |-> vs[i]]
  BY <1>1, <1>2 DEF AppendedTo
<1> QED
  BY <1>1, <1>3

\* A monoque that has been built aside, completely or not.
LEMMA BuiltAside ==
    ASSUME Inv, NEW vs \in Seq(Values), NEW r \in Constructed(vs)
    PROVE  /\ Local(r.s, Used(heap)) /\ \A b \in Used(heap) : r.s.h[b] = heap[b]
           /\ r.done => Elements(r.s.o, r.s.h) = vs
<1>1. r \in Appending(Aside, vs) /\ Local(Aside, Used(heap)) /\ Aside.o = None /\ Aside.h = heap
  BY LocalAside DEF Constructed, Aside
<1>2. PICK n \in 0 .. Len(vs) : Extends(Aside, r.s, vs, n, Used(heap)) /\ (r.done => n = Len(vs))
  BY <1>1, Appended
<1>3. Own(Aside.o, Aside.h) /\ Elements(Aside.o, Aside.h) = << >>
  BY <1>1, NoneOwns
<1>4. n \in Nat /\ Elements(r.s.o, r.s.h) = AppendedTo(<< >>, vs, n)
  BY <1>2, <1>3, ElementsAppended
<1>5. r.done => Elements(r.s.o, r.s.h) = vs
  BY <1>2, <1>4, AppendedToNone
<1> QED
  BY <1>1, <1>2, <1>5 DEF Extends, SameFor

\* A constructor makes the whole monoque or nothing.
LEMMA ConstructKeeps ==
    ASSUME Inv, NEW m \in Names, NEW vs \in Seq(Values), Construct(m, vs)
    PROVE  m \notin Alive /\ (UNCHANGED vars \/ Leaves(m, vs))
<1>1. m \notin Alive
  BY DEF Construct
<1>2. PICK r \in Constructed(vs) : IF r.done THEN Becomes(m, r.s) ELSE UNCHANGED vars
  BY DEF Construct
<1>3. CASE r.done
  <2>1. Local(r.s, Others(m)) /\ (\A b \in Others(m) : r.s.h[b] = heap[b])
        /\ Elements(r.s.o, r.s.h) = vs
    BY <1>1, <1>3, BuiltAside, OthersAll
  <2>2. Becomes(m, r.s)
    BY <1>2, <1>3
  <2>3. Leaves(m, Elements(r.s.o, r.s.h))
    BY <2>1, <2>2, Replaced
  <2> QED
    BY <1>1, <2>1, <2>3
<1> QED
  BY <1>1, <1>2, <1>3

\* An assignment replaces all elements or none.
LEMMA AssignKeeps ==
    ASSUME Inv, NEW m \in Names, NEW vs \in Seq(Values), assign(m, vs)
    PROVE  m \in Alive /\ (UNCHANGED vars \/ Leaves(m, vs))
<1>1. m \in Alive
  BY DEF assign
<1>2. PICK r \in Constructed(vs) :
         IF r.done THEN Becomes(m, [o |-> r.s.o, h |-> Release(r.s.h, Held(obj[m]))])
         ELSE UNCHANGED vars
  BY DEF assign
<1>3. CASE r.done
  <2> DEFINE t == [o |-> r.s.o, h |-> Release(r.s.h, Held(obj[m]))]
  <2>0. t.o = r.s.o /\ t.h = Release(r.s.h, Held(obj[m]))
    OBVIOUS
  <2>1. /\ Local(r.s, Used(heap)) /\ \A b \in Used(heap) : r.s.h[b] = heap[b]
        /\ Elements(r.s.o, r.s.h) = vs
    BY <1>3, BuiltAside
  <2>2. /\ Used(heap) \ Held(obj[m]) = Others(m) /\ Held(obj[m]) \subseteq Used(heap)
        /\ Others(m) \subseteq Used(heap)
    BY <1>1, LocalAt
  <2> HIDE DEF t
  <2>3. /\ Local(t, Others(m)) /\ SameFor(r.s, t, Others(m))
        /\ SameElements(r.s.o, r.s.h, t.o, t.h)
    BY <2>0, <2>1, <2>2, ReleaseLocal
  <2>4. \A b \in Others(m) : t.h[b] = heap[b]
    BY <2>1, <2>2, <2>3 DEF SameFor
  <2>5. Elements(t.o, t.h) = vs
    <3>1. r.s.o.size_pv \in Nat
      BY <2>1, Table DEF Local, Own
    <3> QED
      BY <3>1, <2>1, <2>3, ElementsSame
  <2>6. Becomes(m, t)
    BY <1>2, <1>3 DEF t
  <2>7. Leaves(m, Elements(t.o, t.h))
    BY <2>3, <2>4, <2>6, Replaced
  <2> QED
    BY <1>1, <2>5, <2>7
<1> QED
  BY <1>1, <1>2, <1>3

\* clear leaves an empty monoque and gives its blocks back.
LEMMA ClearKeeps ==
    ASSUME Inv, NEW m \in Names, clear(m)
    PROVE  m \in Alive /\ Leaves(m, << >>)
<1> DEFINE t == [o |-> None, h |-> Release(heap, Held(obj[m]))]
<1>0. t.o = None /\ t.h = Release(heap, Held(obj[m]))
  OBVIOUS
<1>1. m \in Alive /\ Becomes(m, t)
  BY DEF clear
<1> HIDE DEF t
<1>2. /\ Used(heap) \ Held(obj[m]) = Others(m) /\ Held(obj[m]) \subseteq Used(heap)
  BY <1>1, LocalAt
<1>3. Local(Aside, Used(heap)) /\ Aside.o = None /\ Aside.h = heap
  BY LocalAside
<1>4. Local(t, Others(m)) /\ SameFor(Aside, t, Others(m))
  BY <1>0, <1>2, <1>3, ReleaseLocal
<1>5. \A b \in Others(m) : t.h[b] = heap[b]
  BY <1>3, <1>4 DEF SameFor
<1>6. Elements(t.o, t.h) = << >>
  BY <1>0, NoneOwns
<1> QED
  BY <1>1, <1>4, <1>5, <1>6, Replaced

\* Assigning copies of a value ends with some number of them.
LEMMA AssignCountKeeps ==
    ASSUME Inv, NEW m \in Names, NEW n \in Nat, NEW v \in Values, assign_count(m, n, v)
    PROVE  m \in Alive /\ \E k \in Nat : Leaves(m, [i \in 1 .. k |-> v])
<1> DEFINE s == [o |-> None, h |-> Release(heap, Held(obj[m]))]
           vs == [i \in 1 .. n |-> v]
<1>0. s.o = None /\ s.h = Release(heap, Held(obj[m]))
  OBVIOUS
<1>1. m \in Alive
  BY DEF assign_count
<1>2. PICK r \in Appending(s, vs) : Becomes(m, r.s)
  BY DEF assign_count
<1> HIDE DEF s
<1>3. /\ Used(heap) \ Held(obj[m]) = Others(m) /\ Held(obj[m]) \subseteq Used(heap)
  BY <1>1, LocalAt
<1>4. Local(Aside, Used(heap)) /\ Aside.o = None /\ Aside.h = heap
  BY LocalAside
<1>5. Local(s, Others(m)) /\ SameFor(Aside, s, Others(m))
  BY <1>0, <1>3, <1>4, ReleaseLocal
<1>6. \A b \in Others(m) : s.h[b] = heap[b]
  BY <1>4, <1>5 DEF SameFor
<1>7. vs \in Seq(Values) /\ Len(vs) = n
  OBVIOUS
<1>8. PICK k \in 0 .. Len(vs) : Extends(s, r.s, vs, k, Others(m))
  BY <1>2, <1>5, <1>7, Appended
<1>9. Own(s.o, s.h) /\ Elements(s.o, s.h) = << >>
  BY <1>0, NoneOwns
<1>10. k \in Nat /\ Elements(r.s.o, r.s.h) = AppendedTo(<< >>, vs, k)
  BY <1>8, <1>9, ElementsAppended
<1>11. AppendedTo(<< >>, vs, k) = [i \in 1 .. k |-> v]
  <2>1. Len(<< >>) = 0 /\ \A i \in 1 .. k : ~(i <= 0) /\ i - 0 = i /\ vs[i] = v
    BY <1>7, <1>8
  <2> HIDE DEF vs
  <2>2. AppendedTo(<< >>, vs, k) = [i \in 1 .. 0 + k |-> IF i <= 0 THEN << >>[i] ELSE vs[i - 0]]
    BY <2>1 DEF AppendedTo
  <2>3. 0 + k = k
    BY <1>10
  <2> QED
    BY <2>1, <2>2, <2>3
<1>12. Local(r.s, Others(m)) /\ \A b \in Others(m) : r.s.h[b] = heap[b]
  BY <1>6, <1>8 DEF Extends, SameFor
<1> QED
  BY <1>1, <1>2, <1>10, <1>11, <1>12, Replaced

\* One more element, or the ones there were.
LEMMA EmplaceBackKeeps ==
    ASSUME Inv, NEW m \in Names, NEW v \in Values, EmplaceBack(m, v)
    PROVE  m \in Alive /\ \E k \in 0 .. 1 : Leaves(m, AppendedTo(Elements(obj[m], heap), <<v>>, k))
<1>1. m \in Alive
  BY DEF EmplaceBack
<1>2. PICK r \in Appending(At(m), <<v>>) : Becomes(m, r.s)
  BY DEF EmplaceBack
<1>3. Local(At(m), Others(m)) /\ At(m).o = obj[m] /\ At(m).h = heap
  BY <1>1, LocalAt
<1>4. <<v>> \in Seq(Values) /\ Len(<<v>>) = 1
  OBVIOUS
<1>5. PICK k \in 0 .. 1 : Extends(At(m), r.s, <<v>>, k, Others(m))
  BY <1>2, <1>3, <1>4, Appended
<1>6. k \in Nat /\ Elements(r.s.o, r.s.h) = AppendedTo(Elements(obj[m], heap), <<v>>, k)
  BY <1>3, <1>5, ElementsAppended DEF Local
<1>7. Local(r.s, Others(m)) /\ \A b \in Others(m) : r.s.h[b] = heap[b]
  BY <1>3, <1>5 DEF Extends, SameFor
<1>8. Leaves(m, Elements(r.s.o, r.s.h))
  BY <1>2, <1>7, Replaced
<1> QED
  BY <1>1, <1>6, <1>8

\* The sequence after popping.
LEMMA ReducedElements ==
    ASSUME NEW o, NEW h, NEW s, s.o = o, s.h = h,
           NEW t, NEW n \in Nat, NEW R, Own(o, h), n <= o.size_pv, Reduces(s, t, n, R)
    PROVE  Elements(t.o, t.h) = [i \in 1 .. n |-> Elements(o, h)[i]]
<1>1. t.o.size_pv = n /\ o.size_pv \in Nat
  BY ElementsType DEF Reduces
<1>2. ASSUME NEW i \in 1 .. n PROVE Element(t.o, t.h, i - 1) = Elements(o, h)[i]
  <2>1. i - 1 \in Nat /\ i - 1 < n /\ i \in 1 .. o.size_pv
    BY <1>1
  <2> QED
    BY <2>1 DEF Reduces, Elements
<1> QED
  BY <1>1, <1>2 DEF Elements

\* One element fewer.
LEMMA PopBackKeeps ==
    ASSUME Inv, NEW m \in Names, PopBack(m)
    PROVE  /\ m \in Alive /\ Len(Elements(obj[m], heap)) >= 1
           /\ Leaves(m, [i \in 1 .. Len(Elements(obj[m], heap)) - 1 |-> Elements(obj[m], heap)[i]])
<1>1. m \in Alive /\ obj[m].size_pv >= 1 /\ Becomes(m, pop_back(At(m)))
  BY DEF PopBack
<1>2. Local(At(m), Others(m)) /\ At(m).o = obj[m] /\ At(m).h = heap
  BY <1>1, LocalAt
<1>3. Own(obj[m], heap) /\ obj[m].size_pv \in Nat /\ Len(Elements(obj[m], heap)) = obj[m].size_pv
  BY <1>2, ElementsType DEF Local
<1> DEFINE n == obj[m].size_pv - 1
           t == pop_back(At(m))
<1>4. n \in Nat /\ n + 1 = obj[m].size_pv /\ n <= obj[m].size_pv
  BY <1>1, <1>3
<1>5. Reduces(At(m), At(m), n + 1, Others(m))
  BY <1>2, <1>4 DEF Reduces, SameFor
<1>6. Reduces(At(m), t, n, Others(m))
  BY <1>4, <1>5, PopReduces
<1> HIDE DEF t
<1>7. Elements(t.o, t.h) = [i \in 1 .. n |-> Elements(obj[m], heap)[i]]
  BY <1>2, <1>3, <1>4, <1>6, ReducedElements
<1>8. Local(t, Others(m)) /\ \A b \in Others(m) : t.h[b] = heap[b]
  BY <1>2, <1>6 DEF Reduces, SameFor
<1>9. Leaves(m, Elements(t.o, t.h))
  BY <1>1, <1>8, Replaced DEF t
<1> QED
  BY <1>1, <1>3, <1>7, <1>9

\* The elements after a resize that leaves k of them.
Resized(es, k, v) == [i \in 1 .. k |-> IF i <= Len(es) THEN es[i] ELSE v]

\* resize ends with some number of elements: of the old ones first, then copies.
LEMMA ResizeKeeps ==
    ASSUME Inv, NEW m \in Names, NEW n \in Nat, NEW v \in Values, resize(m, n, v)
    PROVE  m \in Alive /\ \E k \in Nat : Leaves(m, Resized(Elements(obj[m], heap), k, v))
<1> DEFINE z == obj[m].size_pv
           es == Elements(obj[m], heap)
           t == Popping(At(m), n)
           l == IF z <= n THEN z ELSE n
           vs == [i \in 1 .. n - z |-> v]
<1>1. m \in Alive
  BY DEF resize
<1>2. PICK r \in Appending(t, vs) : Becomes(m, r.s)
  BY DEF resize
<1>3. Local(At(m), Others(m)) /\ At(m).o = obj[m] /\ At(m).h = heap
  BY <1>1, LocalAt
<1>4. Own(obj[m], heap) /\ z \in Nat /\ Len(es) = z
  BY <1>3, ElementsType DEF Local
<1>5. Reduces(At(m), t, l, Others(m)) /\ l \in Nat /\ l <= z
  BY <1>3, <1>4, Popped
<1> HIDE DEF t
<1>6. Elements(t.o, t.h) = [i \in 1 .. l |-> es[i]]
  BY <1>3, <1>4, <1>5, ReducedElements
<1>7. Local(t, Others(m)) /\ t.o.size_pv = l /\ Own(t.o, t.h)
  BY <1>5 DEF Reduces, Local
<1>8. vs \in Seq(Values) /\ Len(vs) = IF z <= n THEN n - z ELSE 0
  <2> DEFINE d == n - z
  <2>0. d \in Int /\ (d \in Nat <=> z <= n)
    BY <1>4
  <2>1. CASE d \in Nat
    <3> HIDE DEF d
    <3>1. [i \in 1 .. d |-> v] \in Seq(Values) /\ Len([i \in 1 .. d |-> v]) = d
      BY <2>1
    <3> QED
      BY <3>1, <2>0, <2>1 DEF d
  <2>2. CASE d \notin Nat
    <3>1. 1 .. d = {}
      BY <2>0, <2>2
    <3>2. [i \in 1 .. d |-> v] = << >>
      BY <3>1
    <3>3. << >> \in Seq(Values) /\ Len(<< >>) = 0
      OBVIOUS
    <3>4. vs = << >> /\ ~(z <= n)
      BY <3>2, <2>0, <2>2
    <3> HIDE DEF vs
    <3> QED
      BY <3>3, <3>4
  <2> QED
    BY <2>1, <2>2
<1>9. PICK j \in 0 .. Len(vs) : Extends(t, r.s, vs, j, Others(m))
  BY <1>2, <1>7, <1>8, Appended
<1>10. j \in Nat /\ (j # 0 => z <= n /\ l = z) /\ (j # 0 => j <= n - z)
  <2> HIDE DEF vs
  <2>1. j \in 0 .. IF z <= n THEN n - z ELSE 0
    BY <1>8, <1>9
  <2>2. CASE z <= n
    BY <2>1, <2>2, <1>4
  <2>3. CASE ~(z <= n)
    BY <2>1, <2>3, <1>4
  <2> QED
    BY <2>2, <2>3
<1>11. Elements(r.s.o, r.s.h) = AppendedTo(Elements(t.o, t.h), vs, j)
  BY <1>7, <1>9, <1>10, ElementsAppended
<1>12. Len(Elements(t.o, t.h)) = l
  BY <1>7, ElementsType
<1>13. AppendedTo(Elements(t.o, t.h), vs, j) = Resized(es, l + j, v)
  <2>1. ASSUME NEW i \in 1 .. l + j
        PROVE  (IF i <= l THEN Elements(t.o, t.h)[i] ELSE vs[i - l]) = IF i <= z THEN es[i] ELSE v
    <3>1. CASE i <= l
      <4>1. i \in 1 .. l /\ i <= z
        BY <3>1, <1>4, <1>5
      <4>2. Elements(t.o, t.h)[i] = es[i]
        BY <4>1, <1>6
      <4> QED
        BY <3>1, <4>1, <4>2
    <3>2. CASE ~(i <= l)
      <4>1. j # 0 /\ i - l \in 1 .. n - z /\ ~(i <= z)
        <5> HIDE DEF vs, es, l
        <5>1. l \in Nat /\ z \in Nat /\ i \in Int /\ 1 <= i /\ i <= l + j /\ i > l
          BY <3>2, <1>4, <1>5, <1>10
        <5>2. j # 0
          BY <5>1, <1>10
        <5>3. l = z /\ z <= n /\ j <= n - z
          BY <5>2, <1>10
        <5> QED
          BY <5>1, <5>2, <5>3
      <4> QED
        BY <3>2, <4>1
    <3> QED
      BY <3>1, <3>2
  <2> HIDE DEF vs, es, l
  <2> QED
    BY <2>1, <1>4, <1>12 DEF AppendedTo, Resized
<1>14. Local(r.s, Others(m)) /\ \A b \in Others(m) : r.s.h[b] = heap[b]
  BY <1>3, <1>5, <1>9 DEF Extends, Reduces, SameFor
<1>15. Leaves(m, Elements(r.s.o, r.s.h))
  BY <1>2, <1>14, Replaced
<1>16. l + j \in Nat
  BY <1>5, <1>10
<1> QED
  BY <1>1, <1>11, <1>13, <1>15, <1>16

\* A write through an index is to that element.
LEMMA WriteKeeps ==
    ASSUME Inv, NEW m \in Names, NEW i \in Nat, NEW v \in Values, Write(m, i, v)
    PROVE  /\ m \in Alive /\ i + 1 \in 1 .. Len(Elements(obj[m], heap))
           /\ Leaves(m, [Elements(obj[m], heap) EXCEPT ![i + 1] = v])
<1> DEFINE es == Elements(obj[m], heap)
           h == Put(obj[m], heap, i, v)
           t == [o |-> obj[m], h |-> h]
<1>1. m \in Alive /\ i < obj[m].size_pv /\ heap' = h /\ obj' = obj
  BY DEF Write
<1>2. Local(At(m), Others(m)) /\ At(m).o = obj[m] /\ At(m).h = heap
  BY <1>1, LocalAt
<1>3. /\ Filled(heap) /\ Own(obj[m], heap) /\ Member(obj[m]) /\ Fitting(obj[m], heap)
      /\ Single(obj[m]) /\ AllConstructed(obj[m], heap)
      /\ Held(obj[m]) \cap Others(m) = {} /\ Used(heap) = Held(obj[m]) \cup Others(m)
  BY <1>2 DEF Local, Own
<1>4. obj[m].size_pv \in Nat /\ Len(es) = obj[m].size_pv /\ es \in [1 .. obj[m].size_pv -> Values]
  BY <1>3, ElementsType
<1>5. /\ i < Max1 /\ obj[m].data_pv[index1_pv(i)] # Null
      /\ obj[m].data_pv[index1_pv(i)] \in Held(obj[m])
  BY <1>1, <1>3, Stored
<1>6. Written(obj[m], heap, i, v, h)
  BY <1>3, <1>5, PutWrites DEF Content
<1> HIDE DEF h
<1>7. t.o = obj[m] /\ t.h = h
  OBVIOUS
<1>8. ASSUME NEW e \in Nat, e < obj[m].size_pv
      PROVE  Element(obj[m], h, e) = IF e = i THEN v ELSE Element(obj[m], heap, e)
  BY <1>6, <1>8 DEF Written
<1>9. AllConstructed(obj[m], h)
  BY <1>3, <1>8 DEF AllConstructed
<1>10. \A b \in Others(m) : h[b] = heap[b]
  BY <1>3, <1>5, <1>6 DEF Written, Used
<1>11. Local(t, Others(m))
  BY <1>3, <1>6, <1>7, <1>9 DEF Local, Own, Written
<1>12. Becomes(m, t)
  <2>1. obj = [obj EXCEPT ![m] = obj[m]]
    BY DEF Inv
  <2> QED
    BY <2>1, <1>1, <1>7 DEF Becomes
<1> HIDE DEF t
<1>13. Leaves(m, Elements(t.o, t.h))
  BY <1>7, <1>10, <1>11, <1>12, Replaced
<1>14. Elements(obj[m], h) = [es EXCEPT ![i + 1] = v]
  <2>1. ASSUME NEW k \in 1 .. obj[m].size_pv
        PROVE  Element(obj[m], h, k - 1) = IF k = i + 1 THEN v ELSE es[k]
    <3>1. k - 1 \in Nat /\ k - 1 < obj[m].size_pv /\ (k - 1 = i <=> k = i + 1)
      BY <1>4
    <3>2. es[k] = Element(obj[m], heap, k - 1)
      BY DEF Elements
    <3> QED
      BY <3>1, <3>2, <1>8
  <2> HIDE DEF es
  <2>2. Elements(obj[m], h) = [k \in 1 .. obj[m].size_pv |-> Element(obj[m], h, k - 1)]
    BY DEF Elements
  <2>3. [es EXCEPT ![i + 1] = v] = [k \in 1 .. obj[m].size_pv |-> IF k = i + 1 THEN v ELSE es[k]]
    BY <1>4
  <2> QED
    BY <2>1, <2>2, <2>3
<1>15. i + 1 \in 1 .. obj[m].size_pv
  BY <1>1, <1>4
<1> QED
  BY <1>1, <1>4, <1>7, <1>13, <1>14, <1>15

\* shink_to_fit, in a monoque of its own: what lies in the spare places is given up.
Given(o, spare) == {o.data_pv[i] : i \in spare}
Without(o, spare) ==
    [o EXCEPT !.data_pv = [i \in DOMAIN o.data_pv |-> IF i \in spare THEN Null ELSE o.data_pv[i]]]

\* shink_to_fit, in a monoque of its own: what lies in the spare places is given up.
LEMMA SpareGivenUp ==
    ASSUME NEW s, NEW R, Local(s, R), NEW x \in Nat, NEW spare, spare = Spare(s.o, x),
           \A e \in Nat : e < s.o.size_pv => index1_pv(e) < x,
           NEW S, S = Given(s.o, spare),
           NEW t, t.h = Release(s.h, S), t.o = Without(s.o, spare)
    PROVE  Local(t, R) /\ SameFor(s, t, R) /\ SameElements(s.o, s.h, t.o, t.h)
<1> DEFINE d == s.o.data_pv
           g == [i \in 0 .. WordBits - 1 |-> IF i \in spare THEN Null ELSE d[i]]
<1>0. Member(s.o) /\ Fitting(s.o, s.h) /\ Single(s.o) /\ AllConstructed(s.o, s.h) /\ Filled(s.h)
      /\ Held(s.o) \cap R = {} /\ Used(s.h) = Held(s.o) \cup R
  BY DEF Local, Own
<1>1. /\ d \in [0 .. WordBits - 1 -> Blocks \cup {Null}] /\ DOMAIN d = 0 .. WordBits - 1
      /\ s.o = [size_pv |-> s.o.size_pv, data_pv |-> d]
      /\ s.o.size_pv \in Nat /\ s.o.size_pv <= Max1
  BY <1>0, Table
<1>2. t.o = [size_pv |-> s.o.size_pv, data_pv |-> g] /\ S = {d[i] : i \in spare}
  BY <1>1 DEF Without, Given
<1>3. t.o.size_pv = s.o.size_pv /\ t.o.data_pv = g
  BY <1>2
<1>4. ASSUME NEW i \in 0 .. WordBits - 1, d[i] # Null
      PROVE  i \in Indices /\ d[i] \in Held(s.o) /\ (i \in spare <=> x <= i)
  <2>1. i \in Indices /\ \A j \in 0 .. i : d[j] # Null
    BY <1>0, <1>4 DEF Member
  <2>2. d[i] \in Held(s.o)
    BY <1>0, <1>4, <2>1, HeldIs
  <2>3. i \in x .. WordBits - 1 <=> x <= i
    OBVIOUS
  <2>4. \A j \in x .. i : j \in 0 .. i
    OBVIOUS
  <2> QED
    BY <2>1, <2>2, <2>3, <2>4 DEF Spare
<1>5. \A i \in spare : i \in 0 .. WordBits - 1 /\ x <= i /\ d[i] # Null /\ i \in Indices
  <2>1. ASSUME NEW i \in spare PROVE i \in 0 .. WordBits - 1 /\ x <= i /\ d[i] # Null
    <3>1. i \in x .. WordBits - 1 /\ \A j \in x .. i : d[j] # Null
      BY DEF Spare
    <3>2. i \in x .. i /\ i \in 0 .. WordBits - 1 /\ x <= i
      BY <3>1
    <3> QED
      BY <3>1, <3>2
  <2> QED
    BY <2>1, <1>4
<1>6. S \subseteq Held(s.o) /\ S \subseteq Blocks
  BY <1>0, <1>2, <1>4, <1>5, HeldIs
<1>7. \A i \in 0 .. WordBits - 1 : g[i] = IF i \in spare THEN Null ELSE d[i]
  OBVIOUS
<1>8. g \in [0 .. WordBits - 1 -> Blocks \cup {Null}]
  BY <1>1
<1> HIDE DEF g
<1>9. \A i \in 0 .. WordBits - 1 : g[i] # Null => g[i] = d[i] /\ i \notin spare /\ i < x /\ i \in Indices
  BY <1>4, <1>7
<1>10. \A i \in 0 .. WordBits - 1 : d[i] # Null /\ i < x => g[i] = d[i] /\ g[i] \notin S
  <2>1. ASSUME NEW i \in 0 .. WordBits - 1, d[i] # Null, i < x PROVE g[i] = d[i] /\ g[i] \notin S
    <3>1. i \notin spare /\ i \in Indices
      BY <2>1, <1>4, <1>5
    <3>2. \A j \in spare : d[j] # d[i]
      BY <2>1, <3>1, <1>0, <1>5 DEF Single
    <3> QED
      BY <1>2, <2>1, <3>1, <3>2, <1>7
  <2> QED
    BY <2>1
<1>11. t.o \in Objects
  BY <1>1, <1>2, <1>8 DEF Objects
<1>12. Member(t.o)
  <2>1. ASSUME NEW i \in 0 .. WordBits - 1, g[i] # Null
        PROVE  i \in Indices /\ \A j \in 0 .. i : g[j] # Null
    <3>1. d[i] # Null /\ i < x /\ i \in Indices
      BY <2>1, <1>9
    <3>2. \A j \in 0 .. i : d[j] # Null
      BY <3>1, <1>0 DEF Member
    <3>3. \A j \in 0 .. i : j \in 0 .. WordBits - 1 /\ j < x
      BY <3>1, Bits
    <3> QED
      BY <3>1, <3>2, <3>3, <1>10
  <2>2. ASSUME s.o.size_pv # 0 PROVE g[index1_pv(s.o.size_pv - 1)] # Null
    <3>1. s.o.size_pv - 1 \in Nat /\ s.o.size_pv - 1 < s.o.size_pv
      BY <2>2, <1>1
    <3>2. d[index1_pv(s.o.size_pv - 1)] # Null /\ index1_pv(s.o.size_pv - 1) \in 0 .. WordBits - 1
      BY <3>1, <1>0, Stored, Table
    <3> QED
      BY <3>1, <3>2, <1>10
  <2> QED
    BY <2>1, <2>2, <1>1, <1>3, <1>11 DEF Member
<1>13. Held(t.o) = Held(s.o) \ S
  <2>0. /\ \A i \in Indices : g[i] # Null => g[i] \in Held(t.o)
        /\ \A b \in Held(t.o) : \E i \in Indices : g[i] = b /\ b # Null
    <3>1. /\ \A i \in Indices : t.o.data_pv[i] # Null => t.o.data_pv[i] \in Held(t.o)
          /\ \A b \in Held(t.o) : \E i \in Indices : t.o.data_pv[i] = b /\ b # Null
      BY <1>12, HeldIs
    <3>2. t.o.data_pv = g
      BY <1>3
    <3> QED
      BY <3>1, <3>2
  <2>1. ASSUME NEW b \in Held(t.o) PROVE b \in Held(s.o) \ S
    <3>1. PICK i \in Indices : g[i] = b /\ b # Null
      BY <2>0
    <3>2. i \in 0 .. WordBits - 1
      BY <1>0, Table
    <3> QED
      BY <3>1, <3>2, <1>4, <1>9, <1>10
  <2>2. ASSUME NEW b \in Held(s.o) \ S PROVE b \in Held(t.o)
    <3>1. PICK i \in Indices : d[i] = b /\ b # Null
      BY <1>0, HeldIs
    <3>2. i \in 0 .. WordBits - 1 /\ i \notin spare
      BY <1>2, <3>1, <1>0, Table
    <3>3. g[i] = b
      BY <3>1, <3>2, <1>7
    <3> QED
      BY <3>1, <3>3, <2>0
  <2> QED
    BY <2>1, <2>2
<1>14. s.h \in [Blocks -> Seq(Content)] /\ t.h = [b \in Blocks |-> IF b \in S THEN <<>> ELSE s.h[b]]
       /\ << >> \in Seq(Content)
  BY <1>0 DEF Filled, Release
<1>15. Filled(t.h) /\ Used(t.h) = Held(t.o) \cup R
  <2>1. R \subseteq Blocks /\ Held(s.o) \subseteq Blocks
    BY <1>0 DEF Used
  <2>2. Filled(t.h)
    BY <1>14 DEF Filled
  <2>3. Used(t.h) = Used(s.h) \ S
    BY <1>14 DEF Used
  <2> QED
    BY <2>1, <2>2, <2>3, <1>0, <1>6, <1>13
<1>16. \A b \in Blocks : b \notin S => t.h[b] = s.h[b]
  BY <1>14
<1>17. Fitting(t.o, t.h) /\ Single(t.o)
  <2>1. ASSUME NEW i \in Indices, g[i] # Null
        PROVE  t.h[g[i]] \in [1 .. deallocated(i) -> Content] /\ g[i] = d[i] /\ d[i] # Null
    <3>1. i \in 0 .. WordBits - 1
      BY <1>0, Table
    <3>2. g[i] = d[i] /\ d[i] # Null /\ g[i] \notin S /\ d[i] \in Blocks
      BY <2>1, <3>1, <1>0, <1>9, <1>10, Table
    <3> QED
      BY <3>2, <1>0, <1>16 DEF Fitting
  <2> QED
    BY <2>1, <1>0, <1>3 DEF Fitting, Single
<1>18. ASSUME NEW e \in Nat, e < s.o.size_pv PROVE Element(t.o, t.h, e) = Element(s.o, s.h, e)
  <2>1. d[index1_pv(e)] # Null /\ index1_pv(e) \in 0 .. WordBits - 1 /\ d[index1_pv(e)] \in Blocks
        /\ index1_pv(e) < x
    BY <1>18, <1>0, Stored, Table
  <2> QED
    BY <2>1, <1>3, <1>10, <1>16 DEF Element
<1>19. AllConstructed(t.o, t.h)
  BY <1>0, <1>3, <1>18 DEF AllConstructed
<1>20. SameFor(s, t, R)
  BY <1>0, <1>6, <1>16 DEF SameFor, Used
<1> QED
  BY <1>0, <1>3, <1>6, <1>12, <1>13, <1>15, <1>17, <1>18, <1>19, <1>20 DEF Local, Own, SameElements

\* shink_to_fit keeps the elements.
LEMMA ShrinkKeeps ==
    ASSUME Inv, NEW m \in Names, shink_to_fit(m)
    PROVE  m \in Alive /\ Leaves(m, Elements(obj[m], heap))
<1> DEFINE n == obj[m].size_pv
           x == IF n = 0 THEN 0 ELSE index1_pv(n - 1) + 1
           spare == Spare(obj[m], x)
           S == Given(obj[m], spare)
           t == [o |-> Without(obj[m], spare), h |-> Release(heap, S)]
<1>1. m \in Alive /\ FreeSpare(m, spare)
  BY DEF shink_to_fit
<1>2. Local(At(m), Others(m)) /\ At(m).o = obj[m] /\ At(m).h = heap
  BY <1>1, LocalAt
<1>3. Member(obj[m]) /\ n \in Nat /\ n <= Max1 /\ Max1 \in Nat
  BY <1>2, Table, MaxIsNumber DEF Local, Own
<1>4. x \in Nat /\ \A e \in Nat : e < n => index1_pv(e) < x
  <2>1. CASE n = 0
    BY <2>1
  <2>2. CASE n # 0
    <3>1. n - 1 \in Nat /\ n - 1 < Max1 /\ \A e \in Nat : e < n => e <= n - 1 /\ e < Max1
      BY <2>2, <1>3
    <3>2. index1_pv(n - 1) \in Nat
      BY <3>1, Place, Sizes DEF Placed
    <3>3. \A e \in Nat : e < n => index1_pv(e) \in Nat /\ index1_pv(e) <= index1_pv(n - 1)
      BY <3>1, Place, Sizes, Ordered DEF Placed
    <3> QED
      BY <2>2, <3>2, <3>3
  <2> QED
    BY <2>1, <2>2
<1> HIDE DEF x
<1>5. t.o = Without(obj[m], spare) /\ t.h = Release(heap, S)
  OBVIOUS
<1>6. Becomes(m, t)
  <2>1. obj' = [obj EXCEPT ![m].data_pv =
                   [i \in DOMAIN obj[m].data_pv |-> IF i \in spare THEN Null ELSE obj[m].data_pv[i]]]
        /\ heap' = Release(heap, S)
    BY <1>1 DEF FreeSpare, Given
  <2> HIDE DEF S, spare
  <2> QED
    BY <2>1, <1>5 DEF Becomes, Without
<1> HIDE DEF t
<1>7. Local(t, Others(m)) /\ SameFor(At(m), t, Others(m)) /\ SameElements(obj[m], heap, t.o, t.h)
  <2> DEFINE s == At(m)
  <2>1. Local(s, Others(m)) /\ s.o = obj[m] /\ s.h = heap
    BY <1>2
  <2> HIDE DEF s
  <2>2. /\ spare = Spare(s.o, x) /\ S = Given(s.o, spare)
        /\ t.h = Release(s.h, S) /\ t.o = Without(s.o, spare)
        /\ \A e \in Nat : e < s.o.size_pv => index1_pv(e) < x
    BY <2>1, <1>4, <1>5
  <2> HIDE DEF S, spare
  <2>3. Local(t, Others(m)) /\ SameFor(s, t, Others(m)) /\ SameElements(s.o, s.h, t.o, t.h)
    BY <2>1, <2>2, <1>4, SpareGivenUp
  <2> QED
    BY <2>1, <2>3 DEF s
<1>8. \A b \in Others(m) : t.h[b] = heap[b]
  BY <1>2, <1>7 DEF SameFor
<1>9. Leaves(m, Elements(t.o, t.h))
  BY <1>6, <1>7, <1>8, Replaced
<1> QED
  BY <1>1, <1>3, <1>7, <1>9, ElementsSame

\* The destructor gives every block of the monoque back, and no other.
LEMMA DestroyKeeps ==
    ASSUME Inv, NEW m \in Names, Destroy(m)
    PROVE  m \in Alive /\ Leaves(m, Absent)
<1>1. m \in Alive /\ obj' = [obj EXCEPT ![m] = Absent] /\ heap' = Release(heap, Held(obj[m]))
  BY DEF Destroy
<1>2. obj \in [Names -> Objects \cup {Absent}] /\ Alive \subseteq Names
  BY DEF Inv, Alive
<1>3. Alive' = Alive \ {m} /\ \A n \in Names : n # m => obj'[n] = obj[n]
  BY <1>1, <1>2 DEF Alive
<1>4. Used(heap) = Held(obj[m]) \cup Others(m) /\ Held(obj[m]) \cap Others(m) = {}
  BY <1>1, LocalAt
<1>5. heap \in [Blocks -> Seq(Content)]
      /\ heap' = [b \in Blocks |-> IF b \in Held(obj[m]) THEN <<>> ELSE heap[b]]
      /\ << >> \in Seq(Content)
  BY <1>1 DEF Inv, Filled, Release
<1>6. Filled(heap') /\ Used(heap') = Others(m) /\ \A b \in Others(m) : heap'[b] = heap[b]
  <2>1. Others(m) \subseteq Blocks
    BY <1>4 DEF Used
  <2>2. Filled(heap')
    BY <1>5 DEF Filled
  <2>3. Used(heap') = Used(heap) \ Held(obj[m])
    BY <1>5 DEF Used
  <2> QED
    BY <2>1, <2>2, <2>3, <1>4, <1>5
<1>7. \A n \in Alive \ {m} : Own(obj[n], heap') /\ Elements(obj[n], heap') = Elements(obj[n], heap)
  <2> DEFINE h == heap'
  <2>1. \A b \in Others(m) : h[b] = heap[b]
    BY <1>6
  <2> HIDE DEF h
  <2>2. \A n \in Alive \ {m} : Own(obj[n], h) /\ Elements(obj[n], h) = Elements(obj[n], heap)
    BY <2>1, OthersKept
  <2> QED
    BY <2>2 DEF h
<1>8. Inv'
  <2>1. obj' \in [Names -> Objects \cup {Absent}]
    BY <1>1, <1>2
  <2>2. \A n \in Alive' : Own(obj'[n], heap')
    BY <1>2, <1>3, <1>7
  <2>3. \A n \in Alive', k \in Alive' : n # k => Held(obj'[n]) \cap Held(obj'[k]) = {}
    BY <1>2, <1>3 DEF Inv
  <2>4. UNION {Held(obj'[n]) : n \in Alive'} = Others(m)
    BY <1>2, <1>3 DEF Others
  <2> QED
    BY <2>1, <2>2, <2>3, <2>4, <1>6 DEF Inv, Filled, Used
<1>9. elems' = [elems EXCEPT ![m] = Absent]
  <2>1. elems' = [n \in Names |-> IF n \in Alive' THEN Elements(obj'[n], heap') ELSE Absent]
    BY DEF elems, Elements, Element
  <2>2. DOMAIN elems = Names
    BY DEF elems
  <2>3. ASSUME NEW n \in Names
        PROVE  (IF n \in Alive' THEN Elements(obj'[n], heap') ELSE Absent)
                  = IF n = m THEN Absent ELSE elems[n]
    BY <1>3, <1>7 DEF elems
  <2> QED
    BY <2>1, <2>2, <2>3
<1> QED
  BY <1>1, <1>8, <1>9 DEF Leaves

\* Monoques that hand their tables on and leave the memory alone.
LEMMA SwapKeeps ==
    ASSUME Inv, NEW m \in Names, NEW n \in Names, m # n, swap(m, n)
    PROVE  /\ {m, n} \subseteq Alive /\ Inv'
           /\ elems' = [elems EXCEPT ![m] = elems[n], ![n] = elems[m]]
<1>1. m \in Alive /\ n \in Alive /\ obj' = [obj EXCEPT ![m] = obj[n], ![n] = obj[m]] /\ heap' = heap
  BY DEF swap
<1>2. obj \in [Names -> Objects \cup {Absent}] /\ Alive \subseteq Names
  BY DEF Inv, Alive
<1>3. obj'[m] = obj[n] /\ obj'[n] = obj[m] /\ \A k \in Names \ {m, n} : obj'[k] = obj[k]
  BY <1>1, <1>2
<1>4. Alive' = Alive
  BY <1>1, <1>2, <1>3 DEF Alive
<1>5. Inv'
  <2>1. obj' \in [Names -> Objects \cup {Absent}]
    BY <1>1, <1>2
  <2>2. \A k \in Alive : Own(obj'[k], heap)
    BY <1>1, <1>2, <1>3 DEF Inv
  <2>3. \A k \in Alive, l \in Alive : k # l => Held(obj'[k]) \cap Held(obj'[l]) = {}
    <3> SUFFICES ASSUME NEW k \in Alive, NEW l \in Alive, k # l
                 PROVE  Held(obj'[k]) \cap Held(obj'[l]) = {}
      OBVIOUS
    <3>1. PICK a \in Alive : obj'[k] = obj[a] /\ a = IF k = m THEN n ELSE IF k = n THEN m ELSE k
      BY <1>1, <1>2, <1>3
    <3>2. PICK b \in Alive : obj'[l] = obj[b] /\ b = IF l = m THEN n ELSE IF l = n THEN m ELSE l
      BY <1>1, <1>2, <1>3
    <3>3. a # b
      BY <3>1, <3>2
    <3> QED
      BY <3>1, <3>2, <3>3 DEF Inv
  <2>4. UNION {Held(obj'[k]) : k \in Alive} = UNION {Held(obj[k]) : k \in Alive}
    <3>1. \A k \in Alive : \E l \in Alive : obj'[l] = obj[k]
      BY <1>1, <1>2, <1>3
    <3>2. \A k \in Alive : \E l \in Alive : obj'[k] = obj[l]
      BY <1>1, <1>2, <1>3
    <3> QED
      BY <3>1, <3>2
  <2>5. /\ \A k \in Alive' : Own(obj'[k], heap')
        /\ \A k \in Alive', l \in Alive' : k # l => Held(obj'[k]) \cap Held(obj'[l]) = {}
    BY <2>2, <2>3, <1>1, <1>4
  <2>6. UNION {Held(obj'[k]) : k \in Alive'} = UNION {Held(obj[k]) : k \in Alive}
    BY <2>4, <1>4
  <2>7. Filled(heap') /\ Used(heap') = UNION {Held(obj'[k]) : k \in Alive'}
    BY <2>6, <1>1 DEF Inv
  <2> QED
    BY <2>1, <2>5, <2>7 DEF Inv, Filled, Used
<1>6. elems' = [elems EXCEPT ![m] = elems[n], ![n] = elems[m]]
  <2>1. elems' = [k \in Names |-> IF k \in Alive' THEN Elements(obj'[k], heap') ELSE Absent]
    BY DEF elems, Elements, Element
  <2>2. DOMAIN elems = Names
    BY DEF elems
  <2>3. ASSUME NEW k \in Names
        PROVE  (IF k \in Alive' THEN Elements(obj'[k], heap') ELSE Absent)
                  = IF k = n THEN elems[m] ELSE IF k = m THEN elems[n] ELSE elems[k]
    <3>1. CASE k = n
      BY <3>1, <1>1, <1>3, <1>4 DEF elems
    <3>2. CASE k = m /\ k # n
      BY <3>2, <1>1, <1>3, <1>4 DEF elems
    <3>3. CASE k # m /\ k # n
      <4>1. obj'[k] = obj[k] /\ heap' = heap /\ Alive' = Alive
        BY <3>3, <1>1, <1>3, <1>4
      <4>2. elems[k] = IF k \in Alive THEN Elements(obj[k], heap) ELSE Absent
        BY DEF elems
      <4> QED
        BY <3>3, <4>1, <4>2
    <3> QED
      BY <3>1, <3>2, <3>3
  <2> QED
    BY <2>1, <2>2, <2>3
<1> QED
  BY <1>1, <1>5, <1>6

\* The moved-from monoque is empty, the new one has its elements.
LEMMA MoveKeeps ==
    ASSUME Inv, NEW m \in Names, NEW n \in Names, m # n, MoveConstruct(m, n)
    PROVE  /\ m \notin Alive /\ n \in Alive /\ Inv'
           /\ elems' = [elems EXCEPT ![m] = elems[n], ![n] = << >>]
<1>1. m \notin Alive /\ n \in Alive /\ obj' = [obj EXCEPT ![m] = obj[n], ![n] = None] /\ heap' = heap
  BY DEF MoveConstruct
<1>2. obj \in [Names -> Objects \cup {Absent}] /\ Alive \subseteq Names
  BY DEF Inv, Alive
<1>3. obj'[m] = obj[n] /\ obj'[n] = None /\ \A k \in Names \ {m, n} : obj'[k] = obj[k]
  BY <1>1, <1>2
<1>4. None \in Objects /\ None # Absent /\ Held(None) = {} /\ Own(None, heap)
      /\ Elements(None, heap) = << >>
  BY NoneOwns, AbsentAssumption
<1>5. Alive' = Alive \cup {m}
  BY <1>1, <1>2, <1>3, <1>4 DEF Alive
<1>6. Inv'
  <2>1. obj' \in [Names -> Objects \cup {Absent}]
    BY <1>1, <1>2, <1>4
  <2>2. \A k \in Alive' : Own(obj'[k], heap)
    BY <1>1, <1>2, <1>3, <1>4, <1>5 DEF Inv
  <2>3. \A k \in Alive', l \in Alive' : k # l => Held(obj'[k]) \cap Held(obj'[l]) = {}
    <3> SUFFICES ASSUME NEW k \in Alive', NEW l \in Alive', k # l
                 PROVE  Held(obj'[k]) \cap Held(obj'[l]) = {}
      OBVIOUS
    <3>1. CASE k = n \/ l = n
      BY <3>1, <1>3, <1>4
    <3>2. CASE k # n /\ l # n
      <4>1. PICK a \in Alive : obj'[k] = obj[a] /\ a = IF k = m THEN n ELSE k
        BY <3>2, <1>1, <1>2, <1>3, <1>5
      <4>2. PICK b \in Alive : obj'[l] = obj[b] /\ b = IF l = m THEN n ELSE l
        BY <3>2, <1>1, <1>2, <1>3, <1>5
      <4>3. a # b
        BY <3>2, <4>1, <4>2
      <4> QED
        BY <4>1, <4>2, <4>3 DEF Inv
    <3> QED
      BY <3>1, <3>2
  <2>4. UNION {Held(obj'[k]) : k \in Alive'} = UNION {Held(obj[k]) : k \in Alive}
    <3>1. \A k \in Alive : \E l \in Alive' : obj'[l] = obj[k]
      BY <1>1, <1>2, <1>3, <1>5
    <3>2. \A k \in Alive' : Held(obj'[k]) = {} \/ \E l \in Alive : obj'[k] = obj[l]
      BY <1>1, <1>2, <1>3, <1>4, <1>5
    <3> QED
      BY <3>1, <3>2
  <2> QED
    BY <2>1, <2>2, <2>3, <2>4, <1>1 DEF Inv, Filled, Used
<1>7. elems' = [elems EXCEPT ![m] = elems[n], ![n] = << >>]
  <2>1. elems' = [k \in Names |-> IF k \in Alive' THEN Elements(obj'[k], heap') ELSE Absent]
    BY DEF elems, Elements, Element
  <2>2. DOMAIN elems = Names
    BY DEF elems
  <2>3. ASSUME NEW k \in Names
        PROVE  (IF k \in Alive' THEN Elements(obj'[k], heap') ELSE Absent)
                  = IF k = n THEN << >> ELSE IF k = m THEN elems[n] ELSE elems[k]
    <3>1. CASE k = n
      BY <3>1, <1>1, <1>3, <1>4, <1>5
    <3>2. CASE k = m /\ k # n
      BY <3>2, <1>1, <1>3, <1>5 DEF elems
    <3>3. CASE k # m /\ k # n
      <4>1. obj'[k] = obj[k] /\ heap' = heap /\ (k \in Alive' <=> k \in Alive)
        BY <3>3, <1>1, <1>3, <1>5
      <4>2. elems[k] = IF k \in Alive THEN Elements(obj[k], heap) ELSE Absent
        BY DEF elems
      <4> QED
        BY <3>3, <4>1, <4>2
    <3> QED
      BY <3>1, <3>2, <3>3
  <2> QED
    BY <2>1, <2>2, <2>3
<1> QED
  BY <1>1, <1>6, <1>7

-----------------------------------------------------------------------------
(* The invariant and the contract.                                         *)

\* A call that changes nothing.
LEMMA UnchangedKeeps ==
    ASSUME Inv, UNCHANGED vars
    PROVE  Inv' /\ UNCHANGED elems
<1>1. obj' = obj /\ heap' = heap
  BY DEF vars
<1>2. Alive' = Alive
  BY <1>1 DEF Alive
<1> QED
  BY <1>1, <1>2 DEF Inv, Filled, Used, elems, Elements, Element

\* The elements, as the contract sees them.
LEMMA ElemsOf ==
    ASSUME Inv, NEW m \in Names
    PROVE  /\ DOMAIN elems = Names /\ elems = [n \in Names |-> elems[n]]
           /\ m \in Alive => /\ elems[m] = Elements(obj[m], heap)
                             /\ elems[m] \in Seq(Values) /\ elems[m] # Absent
                             /\ Len(elems[m]) \in Nat
           /\ m \notin Alive => elems[m] = Absent
<1>1. /\ DOMAIN elems = Names
      /\ elems[m] = IF m \in Alive THEN Elements(obj[m], heap) ELSE Absent
      /\ elems = [n \in Names |-> elems[n]]
  BY DEF elems
<1>2. ASSUME m \in Alive
      PROVE  Elements(obj[m], heap) \in Seq(Values) /\ Elements(obj[m], heap) # Absent
             /\ Len(Elements(obj[m], heap)) \in Nat
  BY <1>2, ElementsType DEF Inv
<1> QED
  BY <1>1, <1>2

\* What an operation leaves is a change of the contract.
LEMMA ContractChange ==
    ASSUME Inv, NEW m \in Names, NEW es, Leaves(m, es)
    PROVE  Inv' /\ Contract!Change(m, es) /\ elems'[m] = es
<1>1. Inv' /\ elems' = [elems EXCEPT ![m] = es]
  BY DEF Leaves
<1>2. DOMAIN elems = Names
  BY ElemsOf
<1> QED
  BY <1>1, <1>2 DEF Contract!Change

\* A step keeps the invariant and is one of the contract, or leaves the elements.
Kept == Inv' /\ (Contract!LegacyNext \/ UNCHANGED elems)

\* Construction, of an empty monoque or of two elements.
LEMMA KeptConstruct ==
    ASSUME Inv, NEW m \in Names,
           Construct(m, <<>>) \/ \E v \in Values : Construct(m, <<v, v>>)
    PROVE  Kept
<1>1. CASE Construct(m, <<>>)
  <2>1. << >> \in Seq(Values)
    OBVIOUS
  <2>2. m \notin Alive /\ (UNCHANGED vars \/ Leaves(m, << >>))
    BY <2>1, <1>1, ConstructKeeps
  <2>3. CASE UNCHANGED vars
    BY <2>3, UnchangedKeeps DEF Kept
  <2>4. CASE Leaves(m, << >>)
    <3>1. Inv' /\ Contract!Construct(m)
      BY <2>2, <2>4, ContractChange, ElemsOf DEF Contract!Construct
    <3> QED
      BY <3>1 DEF Kept, Contract!LegacyNext, Contract!Next
  <2> QED
    BY <2>2, <2>3, <2>4
<1>2. ASSUME NEW v \in Values, Construct(m, <<v, v>>) PROVE Kept
  <2>1. <<v, v>> \in Seq(Values) /\ <<v, v>> = [i \in 1 .. 2 |-> v]
    OBVIOUS
  <2>2. m \notin Alive /\ (UNCHANGED vars \/ Leaves(m, <<v, v>>))
    BY <2>1, <1>2, ConstructKeeps
  <2>3. CASE UNCHANGED vars
    BY <2>3, UnchangedKeeps DEF Kept
  <2>4. CASE Leaves(m, <<v, v>>)
    <3>1. Inv' /\ Contract!Change(m, <<v, v>>) /\ elems[m] = Absent
      BY <2>2, <2>4, ContractChange, ElemsOf
    <3>2. Contract!New(m, v)
      BY <2>1, <3>1 DEF Contract!New, Contract!Copies
    <3> QED
      BY <3>1, <3>2 DEF Kept, Contract!LegacyNext
  <2> QED
    BY <2>2, <2>3, <2>4
<1> QED
  BY <1>1, <1>2

\* Copies, constructed or assigned.
LEMMA KeptCopy ==
    ASSUME Inv, NEW m \in Names, NEW n \in Names, CopyConstruct(m, n) \/ CopyAssign(m, n)
    PROVE  Kept
<1> DEFINE es == Elements(obj[n], heap)
<1>1. n \in Alive
  BY DEF CopyConstruct, CopyAssign
<1>2. es \in Seq(Values) /\ elems[n] = es /\ elems[n] # Absent
  BY <1>1, ElemsOf
<1>3. CASE CopyConstruct(m, n)
  <2>1. Construct(m, es)
    BY <1>3 DEF CopyConstruct
  <2> HIDE DEF es
  <2>2. m \notin Alive /\ (UNCHANGED vars \/ Leaves(m, es))
    BY <2>1, <1>2, ConstructKeeps
  <2>3. CASE UNCHANGED vars
    BY <2>3, UnchangedKeeps DEF Kept
  <2>4. CASE Leaves(m, es)
    <3>1. Inv' /\ Contract!Change(m, es) /\ elems[m] = Absent
      BY <2>2, <2>4, ContractChange, ElemsOf
    <3>2. Contract!Copy(m, n)
      BY <1>2, <3>1 DEF Contract!Copy
    <3> QED
      BY <3>1, <3>2 DEF Kept, Contract!LegacyNext, Contract!Next
  <2> QED
    BY <2>2, <2>3, <2>4
<1>4. CASE CopyAssign(m, n)
  <2>1. assign(m, es)
    BY <1>4 DEF CopyAssign
  <2> HIDE DEF es
  <2>2. m \in Alive /\ (UNCHANGED vars \/ Leaves(m, es))
    BY <2>1, <1>2, AssignKeeps
  <2>3. CASE UNCHANGED vars
    BY <2>3, UnchangedKeeps DEF Kept
  <2>4. CASE Leaves(m, es)
    <3>1. Inv' /\ Contract!Change(m, es) /\ elems[m] # Absent
      BY <2>2, <2>4, ContractChange, ElemsOf
    <3>2. Contract!CopyAssign(m, n)
      BY <1>2, <3>1 DEF Contract!CopyAssign
    <3> QED
      BY <3>1, <3>2 DEF Kept, Contract!LegacyNext
  <2> QED
    BY <2>2, <2>3, <2>4
<1> QED
  BY <1>3, <1>4

\* The assignment of three elements.
LEMMA KeptAssign ==
    ASSUME Inv, NEW m \in Names, NEW v \in Values, assign(m, <<v, v, v>>)
    PROVE  Kept
<1>1. <<v, v, v>> \in Seq(Values) /\ <<v, v, v>> = [i \in 1 .. 3 |-> v]
  OBVIOUS
<1>2. m \in Alive /\ (UNCHANGED vars \/ Leaves(m, <<v, v, v>>))
  BY <1>1, AssignKeeps
<1>3. CASE UNCHANGED vars
  BY <1>3, UnchangedKeeps DEF Kept
<1>4. CASE Leaves(m, <<v, v, v>>)
  <2>1. Inv' /\ Contract!Change(m, <<v, v, v>>) /\ elems[m] # Absent
    BY <1>2, <1>4, ContractChange, ElemsOf
  <2>2. Contract!AssignAll(m, v)
    BY <1>1, <2>1 DEF Contract!AssignAll, Contract!Copies
  <2> QED
    BY <2>1, <2>2 DEF Kept, Contract!LegacyNext
<1> QED
  BY <1>2, <1>3, <1>4

\* clear().
LEMMA KeptClear ==
    ASSUME Inv, NEW m \in Names, clear(m)
    PROVE  Kept
<1>1. m \in Alive /\ Leaves(m, << >>)
  BY ClearKeeps
<1>2. Inv' /\ Contract!Change(m, << >>) /\ elems[m] # Absent
  BY <1>1, ContractChange, ElemsOf
<1>3. Contract!Clear(m)
  BY <1>2 DEF Contract!Clear
<1> QED
  BY <1>2, <1>3 DEF Kept, Contract!LegacyNext

\* The destructor.
LEMMA KeptDestroy ==
    ASSUME Inv, NEW m \in Names, Destroy(m)
    PROVE  Kept
<1>1. m \in Alive /\ Leaves(m, Absent)
  BY DestroyKeeps
<1>2. Inv' /\ Contract!Change(m, Absent) /\ elems[m] # Absent
  BY <1>1, ContractChange, ElemsOf
<1>3. Contract!Destroy(m)
  BY <1>2 DEF Contract!Destroy
<1> QED
  BY <1>2, <1>3 DEF Kept, Contract!LegacyNext, Contract!Next

\* shink_to_fit() is a stutter of the contract.
LEMMA KeptShrink ==
    ASSUME Inv, NEW m \in Names, shink_to_fit(m)
    PROVE  Kept
<1>1. m \in Alive /\ Leaves(m, Elements(obj[m], heap))
  BY ShrinkKeeps
<1>2. elems[m] = Elements(obj[m], heap) /\ DOMAIN elems = Names /\ elems = [n \in Names |-> elems[n]]
  BY <1>1, ElemsOf
<1>3. elems' = [elems EXCEPT ![m] = elems[m]]
  BY <1>1, <1>2 DEF Leaves
<1>4. UNCHANGED elems
  BY <1>2, <1>3
<1> QED
  BY <1>1, <1>4 DEF Kept, Leaves

\* emplace_back, which may throw.
LEMMA KeptEmplaceBack ==
    ASSUME Inv, NEW m \in Names, NEW v \in Values, EmplaceBack(m, v)
    PROVE  Kept
<1> DEFINE es == Elements(obj[m], heap)
<1>1. PICK k \in 0 .. 1 : m \in Alive /\ Leaves(m, AppendedTo(es, <<v>>, k))
  BY EmplaceBackKeeps
<1>2. elems[m] = es /\ es \in Seq(Values) /\ es # Absent
      /\ DOMAIN elems = Names /\ elems = [n \in Names |-> elems[n]]
  BY <1>1, ElemsOf
<1> HIDE DEF es
<1>3. CASE k = 0
  <2>1. AppendedTo(es, <<v>>, 0) = es
    <3>1. Len(es) \in Nat /\ 1 .. Len(es) + 0 = 1 .. Len(es) /\ es = [i \in 1 .. Len(es) |-> es[i]]
      BY <1>2
    <3>2. \A i \in 1 .. Len(es) : i <= Len(es)
      BY <3>1
    <3> QED
      BY <3>1, <3>2 DEF AppendedTo
  <2>2. elems' = [elems EXCEPT ![m] = es]
    BY <1>1, <1>3, <2>1 DEF Leaves
  <2>3. UNCHANGED elems
    BY <1>2, <2>2
  <2> QED
    BY <1>1, <2>3 DEF Kept, Leaves
<1>4. CASE k = 1
  <2>1. AppendedTo(es, <<v>>, 1) = Append(es, v)
    <3>1. Len(es) \in Nat
      BY <1>2
    <3>2. Append(es, v) = [i \in 1 .. Len(es) + 1 |-> IF i <= Len(es) THEN es[i] ELSE v]
      <4>1. /\ Append(es, v) \in Seq(Values) /\ Len(Append(es, v)) = Len(es) + 1
        BY <1>2
      <4>2. ASSUME NEW i \in 1 .. Len(es) + 1
            PROVE  Append(es, v)[i] = IF i <= Len(es) THEN es[i] ELSE v
        BY <1>2, <3>1
      <4> DEFINE q == Append(es, v)
      <4> HIDE DEF q
      <4>3. q = [i \in 1 .. Len(es) + 1 |-> q[i]]
        <5>1. q \in Seq(Values) /\ Len(q) = Len(es) + 1
          BY <4>1 DEF q
        <5> QED
          BY <5>1
      <4> QED
        BY <4>2, <4>3 DEF q
    <3>3. \A i \in 1 .. Len(es) + 1 : ~(i <= Len(es)) => <<v>>[i - Len(es)] = v
      BY <3>1
    <3> QED
      BY <3>2, <3>3 DEF AppendedTo
  <2>2. Inv' /\ Contract!Change(m, Append(es, v))
    BY <1>1, <1>4, <2>1, ContractChange
  <2>3. Contract!EmplaceBack(m, v)
    BY <1>2, <2>2 DEF Contract!EmplaceBack
  <2> QED
    BY <2>2, <2>3 DEF Kept, Contract!LegacyNext, Contract!Next
<1> QED
  BY <1>3, <1>4

\* pop_back().
LEMMA KeptPopBack ==
    ASSUME Inv, NEW m \in Names, PopBack(m)
    PROVE  Kept
<1> DEFINE es == Elements(obj[m], heap)
<1>1. m \in Alive /\ Len(es) >= 1 /\ Leaves(m, [i \in 1 .. Len(es) - 1 |-> es[i]])
  BY PopBackKeeps
<1>2. elems[m] = es /\ es \in Seq(Values) /\ es # Absent
  BY <1>1, ElemsOf
<1> HIDE DEF es
<1>3. [i \in 1 .. Len(es) - 1 |-> es[i]] = SubSeq(es, 1, Len(es) - 1) /\ es # << >>
  BY <1>1, <1>2
<1>4. Inv' /\ Contract!Change(m, SubSeq(es, 1, Len(es) - 1))
  BY <1>1, <1>3, ContractChange
<1>5. Contract!PopBack(m)
  BY <1>2, <1>3, <1>4 DEF Contract!PopBack
<1> QED
  BY <1>4, <1>5 DEF Kept, Contract!LegacyNext, Contract!Next

\* assign(n, v), which may throw part of the way.
LEMMA KeptAssignCount ==
    ASSUME Inv, NEW m \in Names, NEW n \in Nat, NEW v \in Values, assign_count(m, n, v)
    PROVE  Kept
<1>1. PICK k \in Nat : m \in Alive /\ Leaves(m, [i \in 1 .. k |-> v])
  BY AssignCountKeeps
<1> DEFINE vs == [i \in 1 .. k |-> v]
<1>2. vs \in Seq(Values) /\ Len(vs) = k
  OBVIOUS
<1>3. vs = [i \in 1 .. Len(vs) |-> v]
  BY <1>2
<1> HIDE DEF vs
<1>4. Inv' /\ Contract!Change(m, vs) /\ elems'[m] = vs /\ elems[m] # Absent
  BY <1>1, ContractChange, ElemsOf DEF vs
<1>5. vs # Absent
  BY <1>2, SequenceAssumption
<1>6. Contract!Copies(Len(vs), v) = vs
  BY <1>3 DEF Contract!Copies
<1>7. Contract!AssignCount(m, v)
  BY <1>4, <1>5, <1>6 DEF Contract!AssignCount
<1> QED
  BY <1>4, <1>7 DEF Kept, Contract!LegacyNext

\* resize(n, v), which may throw part of the way.
LEMMA KeptResize ==
    ASSUME Inv, NEW m \in Names, NEW n \in Nat, NEW v \in Values, resize(m, n, v)
    PROVE  Kept
<1> DEFINE es == Elements(obj[m], heap)
<1>1. PICK k \in Nat : m \in Alive /\ Leaves(m, Resized(es, k, v))
  BY ResizeKeeps
<1>2. elems[m] = es /\ es \in Seq(Values) /\ es # Absent
  BY <1>1, ElemsOf
<1> HIDE DEF es
<1> DEFINE vs == Resized(es, k, v)
<1>3. vs \in Seq(Values) /\ Len(vs) = k
  <2>1. \A i \in 1 .. k : (IF i <= Len(es) THEN es[i] ELSE v) \in Values
    BY <1>2
  <2> QED
    BY <2>1 DEF Resized
<1>4. vs = [i \in 1 .. Len(vs) |-> IF i <= Len(es) THEN es[i] ELSE v]
  BY <1>3 DEF Resized
<1> HIDE DEF vs
<1>5. Inv' /\ Contract!Change(m, vs) /\ elems'[m] = vs
  BY <1>1, ContractChange DEF vs
<1>6. vs # Absent
  BY <1>3, SequenceAssumption
<1>7. Contract!Resize(m, v)
  <2>1. Contract!Change(m, [i \in 1 .. Len(elems'[m]) |-> IF i <= Len(elems[m]) THEN elems[m][i] ELSE v])
    BY <1>2, <1>4, <1>5
  <2> QED
    BY <1>2, <1>5, <1>6, <2>1 DEF Contract!Resize
<1> QED
  BY <1>5, <1>7 DEF Kept, Contract!LegacyNext

\* An assignment through operator[].
LEMMA KeptWrite ==
    ASSUME Inv, NEW m \in Names, NEW i \in Nat, NEW v \in Values, Write(m, i, v)
    PROVE  Kept
<1> DEFINE es == Elements(obj[m], heap)
<1>1. m \in Alive /\ i + 1 \in 1 .. Len(es) /\ Leaves(m, [es EXCEPT ![i + 1] = v])
  BY WriteKeeps
<1>2. elems[m] = es /\ es # Absent
  BY <1>1, ElemsOf
<1> HIDE DEF es
<1>3. Inv' /\ Contract!Change(m, [es EXCEPT ![i + 1] = v])
  BY <1>1, ContractChange
<1>4. Contract!Assign(m, v)
  BY <1>1, <1>2, <1>3 DEF Contract!Assign
<1> QED
  BY <1>3, <1>4 DEF Kept, Contract!LegacyNext, Contract!Next

\* Move construction and swap.
LEMMA KeptMove ==
    ASSUME Inv, NEW m \in Names, NEW n \in Names, m # n, MoveConstruct(m, n) \/ swap(m, n)
    PROVE  Kept
<1>1. CASE MoveConstruct(m, n)
  <2>1. m \notin Alive /\ n \in Alive /\ Inv' /\ elems' = [elems EXCEPT ![m] = elems[n], ![n] = << >>]
    BY <1>1, MoveKeeps
  <2>2. Contract!MoveConstruct(m, n)
    BY <2>1, ElemsOf DEF Contract!MoveConstruct
  <2> QED
    BY <2>1, <2>2 DEF Kept, Contract!LegacyNext
<1>2. CASE swap(m, n)
  <2>1. {m, n} \subseteq Alive /\ Inv' /\ elems' = [elems EXCEPT ![m] = elems[n], ![n] = elems[m]]
    BY <1>2, SwapKeeps
  <2>2. elems[m] # Absent /\ elems[n] # Absent
    BY <2>1, ElemsOf
  <2>3. Contract!Swap(m, n)
    BY <2>1, <2>2 DEF Contract!Swap
  <2> QED
    BY <2>1, <2>3 DEF Kept, Contract!LegacyNext, Contract!Next
<1> QED
  BY <1>1, <1>2

-----------------------------------------------------------------------------
\* One step of a program that uses monoques.
LEMMA NextKeeps == Inv /\ [Next]_vars => Kept
<1> SUFFICES ASSUME Inv, [Next]_vars PROVE Kept
  OBVIOUS
<1>1. ASSUME NEW m \in Names, Construct(m, <<>>) PROVE Kept
  BY <1>1, KeptConstruct
<1>2. ASSUME NEW m \in Names, Destroy(m) PROVE Kept
  BY <1>2, KeptDestroy
<1>3. ASSUME NEW m \in Names, PopBack(m) PROVE Kept
  BY <1>3, KeptPopBack
<1>4. ASSUME NEW m \in Names, clear(m) PROVE Kept
  BY <1>4, KeptClear
<1>5. ASSUME NEW m \in Names, shink_to_fit(m) PROVE Kept
  BY <1>5, KeptShrink
<1>6. ASSUME NEW m \in Names, NEW v \in Values, EmplaceBack(m, v) PROVE Kept
  BY <1>6, KeptEmplaceBack
<1>7. ASSUME NEW m \in Names, NEW v \in Values, Construct(m, <<v, v>>) PROVE Kept
  BY <1>7, KeptConstruct
<1>8. ASSUME NEW m \in Names, NEW v \in Values, assign(m, <<v, v, v>>) PROVE Kept
  BY <1>8, KeptAssign
<1>9. ASSUME NEW m \in Names, NEW v \in Values, NEW i \in 0 .. Max1, Write(m, i, v) PROVE Kept
  <2>1. i \in Nat
    BY MaxIsNumber
  <2> QED
    BY <2>1, <1>9, KeptWrite
<1>10. ASSUME NEW m \in Names, NEW v \in Values, NEW n \in Counts, resize(m, n, v) PROVE Kept
  <2>1. n \in Nat
    BY LegacyAssumption
  <2> QED
    BY <2>1, <1>10, KeptResize
<1>11. ASSUME NEW m \in Names, NEW v \in Values, NEW n \in Counts, assign_count(m, n, v) PROVE Kept
  <2>1. n \in Nat
    BY LegacyAssumption
  <2> QED
    BY <2>1, <1>11, KeptAssignCount
<1>12. ASSUME NEW m \in Names, NEW n \in Names \ {m}, MoveConstruct(m, n) \/ swap(m, n) PROVE Kept
  BY <1>12, KeptMove
<1>13. ASSUME NEW m \in Names, NEW n \in Names \ {m}, CopyConstruct(m, n) \/ CopyAssign(m, n)
       PROVE  Kept
  BY <1>13, KeptCopy
<1>14. CASE UNCHANGED vars
  BY <1>14, UnchangedKeeps DEF Kept
<1> QED
  BY <1>1, <1>2, <1>3, <1>4, <1>5, <1>6, <1>7, <1>8, <1>9, <1>10, <1>11, <1>12, <1>13, <1>14
     DEF Next

\* Before the first monoque is constructed.
LEMMA InitKeeps == Init => Inv /\ Contract!Init
<1> SUFFICES ASSUME Init PROVE Inv /\ Contract!Init
  OBVIOUS
<1>1. obj = [m \in Names |-> Absent] /\ heap = [b \in Blocks |-> << >>]
  BY DEF Init
<1>2. Alive = {}
  BY <1>1 DEF Alive
<1>3. << >> \in Seq(Content)
  OBVIOUS
<1>4. Filled(heap) /\ Used(heap) = {}
  BY <1>1, <1>3 DEF Filled, Used
<1>5. Inv
  BY <1>1, <1>2, <1>4 DEF Inv
<1>6. elems = [m \in Names |-> Absent]
  BY <1>2 DEF elems
<1> QED
  BY <1>5, <1>6 DEF Contract!Init

(* The monoques stay in order: each element has a constructed value in the   *)
(* slot that the code computes for its index, the pointers in use are the    *)
(* first ones and have blocks of the right sizes, and the monoques share out *)
(* the memory, for any number of them and any width of int.                  *)
THEOREM Invariance == Spec => []Inv
<1>1. Inv /\ [Next]_vars => Inv'
  BY NextKeeps DEF Kept
<1> QED
  BY <1>1, InitKeeps, PTL DEF Spec

(* A legacy monoque implements the sequence of its elements, whatever throws: *)
(* the calls that build the new contents aside replace all of it or nothing,  *)
(* and resize and assign(n, v) end with a first part of what they were to do. *)
THEOREM Refinement == Spec => KeepsSequences
<1>1. Inv /\ [Next]_vars => [Contract!LegacyNext]_elems
  BY NextKeeps DEF Kept
<1> QED
  BY <1>1, InitKeeps, Invariance, PTL DEF Spec, KeepsSequences, Contract!LegacySpec

-----------------------------------------------------------------------------
(* What the invariant says of blocks and places.                           *)

\* The pointers in use are the first ones.
LEMMA PlacesOf ==
    ASSUME NEW o, Member(o)
    PROVE  /\ Places(o) \subseteq Indices
           /\ \A i \in Indices : i \in Places(o) <=> o.data_pv[i] # Null
           /\ \A i \in Places(o) : 0 .. i \subseteq Places(o)
<1>1. DOMAIN o.data_pv = 0 .. WordBits - 1 /\ Indices \subseteq 0 .. WordBits - 1
  BY Table
<1>2. Places(o) = {i \in 0 .. WordBits - 1 : o.data_pv[i] # Null}
  BY <1>1 DEF Places
<1>3. ASSUME NEW i \in 0 .. WordBits - 1, o.data_pv[i] # Null
      PROVE  i \in Indices /\ \A j \in 0 .. i : j \in 0 .. WordBits - 1 /\ o.data_pv[j] # Null
  <2>1. i \in Indices /\ \A j \in 0 .. i : o.data_pv[j] # Null
    BY <1>3 DEF Member
  <2>2. WordBits \in Int
    BY Bits DEF WordBits
  <2> QED
    BY <2>1, <2>2
<1> QED
  BY <1>1, <1>2, <1>3

\* As many blocks as places.
LEMMA OnePlaceEach ==
    ASSUME NEW o, Member(o), Single(o)
    PROVE  Cardinality(Places(o)) = Cardinality(Held(o))
<1> DEFINE d == o.data_pv
           f == [i \in Places(o) |-> d[i]]
<1>1. Places(o) \subseteq Indices /\ \A i \in Indices : i \in Places(o) <=> d[i] # Null
  BY PlacesOf
<1>2. /\ \A i \in Places(o) : d[i] \in Held(o)
      /\ \A b \in Held(o) : \E i \in Places(o) : d[i] = b
  BY <1>1, HeldIs
<1>3. \A i \in Places(o), j \in Places(o) : d[i] = d[j] => i = j
  BY <1>1 DEF Single
<1>4. /\ DOMAIN f = Places(o) /\ f \in [Places(o) -> Held(o)]
      /\ \A i \in Places(o) : f[i] = d[i]
  BY <1>2
<1> HIDE DEF f
<1>5. f \in Bijection(Places(o), Held(o))
  <2>1. IsInjective(f)
    BY <1>3, <1>4 DEF IsInjective
  <2>2. f \in Injection(Places(o), Held(o))
    BY <2>1, <1>4 DEF Injection
  <2>3. f \in Surjection(Places(o), Held(o))
    BY <1>2, <1>4 DEF Surjection
  <2> QED
    BY <2>2, <2>3 DEF Bijection
<1>6. ExistsBijection(Places(o), Held(o))
  BY <1>5 DEF ExistsBijection
<1>7. IsFiniteSet(Places(o))
  <2>1. 0 \in Int /\ IntBits - 2 \in Int
    BY Bits
  <2>2. IsFiniteSet(Indices)
    BY <2>1, FS_Interval DEF Indices
  <2> QED
    BY <2>2, <1>1, FS_Subset
<1> QED
  BY <1>6, <1>7, FS_Bijection

\* What the invariant says of owners.
LEMMA InvOwned == Inv => BlocksOwned
<1> SUFFICES ASSUME Inv PROVE BlocksOwned
  OBVIOUS
<1>1. {b \in Blocks : heap[b] # <<>>} = UNION {Held(obj[m]) : m \in Alive}
  BY DEF Inv, Used
<1>2. ASSUME NEW m \in Alive
      PROVE  /\ Cardinality(Places(obj[m])) = Cardinality(Held(obj[m]))
             /\ \A n \in Alive \ {m} : Held(obj[m]) \cap Held(obj[n]) = {}
             /\ \A i \in Places(obj[m]) : Len(heap[obj[m].data_pv[i]]) = deallocated(i)
  <2>1. Member(obj[m]) /\ Fitting(obj[m], heap) /\ Single(obj[m])
    BY DEF Inv, Own
  <2>2. ASSUME NEW i \in Places(obj[m])
        PROVE  Len(heap[obj[m].data_pv[i]]) = deallocated(i)
    <3>1. i \in Indices /\ obj[m].data_pv[i] # Null
      BY <2>1, PlacesOf
    <3>2. heap[obj[m].data_pv[i]] \in [1 .. deallocated(i) -> Content] /\ deallocated(i) \in Nat
      BY <2>1, <3>1, Sizes DEF Fitting
    <3> QED
      BY <3>2
  <2> QED
    BY <2>1, <2>2, OnePlaceEach DEF Inv
<1> QED
  BY <1>1, <1>2 DEF BlocksOwned

\* What it says of places.
LEMMA InvNoHoles == Inv => NoHoles
<1> SUFFICES ASSUME Inv, NEW m \in Alive
             PROVE  /\ \A i \in Places(obj[m]) : 0 .. i \subseteq Places(obj[m])
                    /\ \A i \in 0 .. obj[m].size_pv - 1 :
                          /\ index1_pv(i) \in Places(obj[m])
                          /\ index2_pv(i) < Len(heap[obj[m].data_pv[index1_pv(i)]])
                          /\ \A j \in 0 .. i - 1 :
                                <<index1_pv(i), index2_pv(i)>> # <<index1_pv(j), index2_pv(j)>>
  BY DEF NoHoles
<1>1. Member(obj[m]) /\ Fitting(obj[m], heap)
  BY DEF Inv, Own
<1>2. obj[m].size_pv \in Nat
  BY <1>1, Table
<1>3. \A i \in Places(obj[m]) : 0 .. i \subseteq Places(obj[m])
  BY <1>1, PlacesOf
<1>4. ASSUME NEW i \in 0 .. obj[m].size_pv - 1
      PROVE  /\ index1_pv(i) \in Places(obj[m])
             /\ index2_pv(i) < Len(heap[obj[m].data_pv[index1_pv(i)]])
             /\ \A j \in 0 .. i - 1 :
                   <<index1_pv(i), index2_pv(i)>> # <<index1_pv(j), index2_pv(j)>>
  <2> DEFINE k == index1_pv(i)
  <2>1. i \in Nat /\ i < obj[m].size_pv
    BY <1>2
  <2>2. Placed(i) /\ k \in Indices /\ obj[m].data_pv[k] # Null
    BY <2>1, <1>1, Stored
  <2>3. k \in Places(obj[m])
    BY <2>2, <1>1, PlacesOf
  <2>4. /\ index2_pv(i) \in Nat /\ index2_pv(i) < deallocated(k) /\ deallocated(k) \in Nat
        /\ i = First(k) + index2_pv(i)
    BY <2>2, Sizes DEF Placed
  <2>5. Len(heap[obj[m].data_pv[k]]) = deallocated(k)
    <3>1. heap[obj[m].data_pv[k]] \in [1 .. deallocated(k) -> Content]
      BY <2>2, <1>1 DEF Fitting
    <3> QED
      BY <3>1, <2>4
  <2>6. ASSUME NEW j \in 0 .. i - 1, <<k, index2_pv(i)>> = <<index1_pv(j), index2_pv(j)>>
        PROVE  FALSE
    <3>1. j \in Nat /\ j < obj[m].size_pv /\ j < i
      BY <2>1, <1>2
    <3>2. Placed(j)
      BY <3>1, <1>1, Stored
    <3>3. j = First(index1_pv(j)) + index2_pv(j)
      BY <3>2 DEF Placed
    <3> QED
      BY <3>1, <3>3, <2>4, <2>6
  <2> QED
    BY <2>3, <2>4, <2>5, <2>6
<1> QED
  BY <1>3, <1>4

(* No call leaks a block, lets two monoques or two pointers share one, or     *)
(* leaves a block whose size the destructor gets wrong.                       *)
THEOREM Ownership == Spec => []BlocksOwned
BY Invariance, InvOwned, PTL

(* The pointers in use are the first ones, so that shink_to_fit finds every   *)
(* block that is spare, and each element has a slot of its own.               *)
THEOREM Contiguity == Spec => []NoHoles
BY Invariance, InvNoHoles, PTL
=============================================================================
