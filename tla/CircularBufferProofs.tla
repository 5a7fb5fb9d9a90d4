------------------------ MODULE CircularBufferProofs ------------------------
(***************************************************************************)
(* Proofs about CircularBuffer, for every width of size_t and every depth  *)
(* of the store buffers: the indices, for every capacity below the range   *)
(* of size_t; the bytes, for every capacity that is a power of two; and    *)
(* that no other capacity gives each unread byte a cell of its own.        *)
(***************************************************************************)
EXTENDS CircularBuffer, FiniteSetTheorems, WellFoundedInduction, SequenceTheorems, TLAPS

(* Sizes and offsets that are in range, whatever the capacity. *)
SizesFit ==
  /\ IndexRange \in Nat /\ Capacity \in Nat /\ 0 < Capacity /\ Capacity < IndexRange
  /\ \A p \in Index : Offset(p) \in Cells

(* Capacity consecutive indices fall on different cells. *)
OffsetsDiffer ==
  \A p \in Index, i \in 1 .. Capacity - 1 : Offset(Wrap(p + i)) # Offset(p)

(* What buffer_pos and the mirrored mapping must give: consecutive indices *)
(* fall on consecutive addresses of the doubled mapping as well.           *)
SoundGeometry ==
  /\ \A p \in Index, i \in Cells : Cell(Offset(p) + i) = Offset(Wrap(p + i))
  /\ OffsetsDiffer

(* What that needs of the capacity, and nothing checks: masking with       *)
(* capacity - 1 is a remainder for a power of two only.                    *)
PowerOfTwoCapacity == \E k \in 0 .. IndexBits - 1 : Capacity = 2 ^ k

-----------------------------------------------------------------------------
(* The inductive invariant.  Every index is measured from r in memory, the *)
(* oldest index anybody still uses.  What it says of the indices holds for *)
(* every capacity, what it says of the bytes where the geometry is sound.  *)

From(x) == Distance(r, x)

(* The four views of the two indices never cross, and the piece being      *)
(* written ends before the oldest byte that is not released.               *)
Order ==
  /\ From(cr) <= From(w)
  /\ From(w) <= From(pw)
  /\ From(pw) + piece.size <= Capacity
  /\ piece.written <= piece.size

Pieces ==
  /\ ~piece.held => piece.size = 0
  /\ piece.held => piece.data = Offset(pw)
  /\ got.held => got.data = Offset(cr) /\ From(cr) + got.size <= From(w)

(* Stores to r wait in increasing order. *)
ReleasesPending ==
  /\ \A i \in 1 .. Len(cbuf) : From(cbuf[i]) <= From(cr)
  /\ \A i, j \in 1 .. Len(cbuf) : i <= j => From(cbuf[i]) <= From(cbuf[j])

IsByte(s) == s.to # HeaderW

(* A waiting byte belongs to the piece or to a waiting publication, and no *)
(* publication waits before a byte it covers.                              *)
PublicationsPending ==
  /\ \A i \in 1 .. Len(pbuf) :
        /\ From(w) <= From(pbuf[i].val)
        /\ IsByte(pbuf[i]) => From(pbuf[i].val) < From(pw) + piece.written
        /\ ~IsByte(pbuf[i]) => From(pbuf[i].val) <= From(pw)
  /\ \A i, j \in 1 .. Len(pbuf) :
        i < j /\ ~IsByte(pbuf[i]) => From(pbuf[i].val) <= From(pbuf[j].val)

IndexInv == TypeOK /\ Order /\ Pieces /\ ReleasesPending /\ PublicationsPending

(* A waiting byte is on its way to the cell of its index. *)
BytesPending ==
  \A i \in 1 .. Len(pbuf) : IsByte(pbuf[i]) => pbuf[i].to = Offset(pbuf[i].val)

(* What is published is in memory; what is written and not published is in *)
(* memory or waits.                                                        *)
Contents ==
  \A p \in Index :
    /\ From(p) < From(w) => data[Offset(p)] = p
    /\ From(p) < From(pw) + piece.written =>
         \/ data[Offset(p)] = p
         \/ \E i \in 1 .. Len(pbuf) : IsByte(pbuf[i]) /\ pbuf[i].val = p

BytesInv == BytesPending /\ Contents

RingInv == IndexInv /\ (SoundGeometry => BytesInv)

-----------------------------------------------------------------------------
(* The geometry of a ring whose capacity is a power of two. *)

LEMMA Division ==
  ASSUME NEW c \in Nat \ {0}, NEW n \in Nat
  PROVE  (n \div c) * c + (n % c) = n /\ n \div c \in Nat /\ n % c \in 0 .. c - 1
<1>1. (n \div c) * c + (n % c) = n
  OBVIOUS
<1>2. n \div c \in Nat
  OBVIOUS
<1>3. n % c \in 0 .. c - 1
  OBVIOUS
<1> QED BY <1>1, <1>2, <1>3

(* Quotient and remainder are determined by what they add up to. *)
LEMMA QuotientAndRemainder ==
  ASSUME NEW c \in Nat \ {0}, NEW q \in Int, NEW e \in 0 .. c - 1, NEW n \in Nat, n = q * c + e
  PROVE  n % c = e /\ n \div c = q
<1>1. PICK s \in Nat, t \in 0 .. c - 1 : s * c + t = n /\ t = n % c /\ s = n \div c
  BY Division
<1>2. PICK d \in Int : d = q - s
  OBVIOUS
<1>3. PICK u \in Int, v \in Int : u = q * c /\ v = s * c /\ u + e = n /\ v + t = n
  BY <1>1
<1>4. q * c - s * c = (q - s) * c
  OBVIOUS
<1>5. d * c = t - e
  <2>1. d * c = u - v
    BY <1>2, <1>3, <1>4
  <2>2. u - v = t - e
    BY <1>3
  <2> QED BY <2>1, <2>2
<1>6. d = 0
  <2>1. CASE d >= 1
    <3>1. d * c >= 1 * c
      BY <2>1
    <3> QED BY <1>5, <3>1
  <2>2. CASE d <= -1
    <3>1. d * c <= (-1) * c
      BY <2>2
    <3> QED BY <1>5, <3>1
  <2> QED BY <2>1, <2>2
<1>7. q = s
  <2>1. q - s = 0
    BY <1>2, <1>6
  <2>2. \A i, j \in Int : i - j = 0 => i = j
    OBVIOUS
  <2> QED BY <2>1, <2>2
<1>8. t = e
  <2>1. d * c = 0
    BY <1>6
  <2> QED BY <1>5, <2>1
<1> QED BY <1>1, <1>7, <1>8

(* Induction: a set of sets of a finite set has a smallest member, and so  *)
(* has a set of numbers.                                                   *)
LEMMA SmallestSubset ==
  ASSUME NEW S, IsFiniteSet(S), NEW T, T \subseteq SUBSET S, T # {}
  PROVE  \E X \in T : \A Y \in T : ~(Y \subseteq X /\ Y # X)
<1>1. IsWellFoundedOn(StrictSubsetOrdering(S), SUBSET S)
  BY FS_StrictSubsetOrderingWellFounded, FS_FiniteSubsetsOfFinite
<1>2. \E X \in T : \A Y \in T : ~(<<Y, X>> \in StrictSubsetOrdering(S))
  BY <1>1, WFMin
<1> QED BY <1>2 DEF StrictSubsetOrdering

LEMMA SmallestNumber ==
  ASSUME NEW T, T \subseteq Nat, T # {}
  PROVE  \E n \in T : \A m \in T : n <= m
<1> PICK k \in T : TRUE
  OBVIOUS
<1> DEFINE W == {0 .. n : n \in {j \in T : j <= k}}
           I == 0 .. k
<1>1. IsFiniteSet(I)
  BY FS_Interval
<1>2. W \subseteq SUBSET I /\ W # {}
  OBVIOUS
<1>3. \A X \in W : \E n \in T : n <= k /\ X = 0 .. n
  OBVIOUS
<1>4. \A m \in T : m <= k => (0 .. m) \in W
  OBVIOUS
<1> HIDE DEF W, I
<1>5. PICK X \in W : \A Y \in W : ~(Y \subseteq X /\ Y # X)
  BY <1>1, <1>2, SmallestSubset
<1>6. PICK n \in T : n <= k /\ X = 0 .. n
  BY <1>3
<1>7. ASSUME NEW m \in T, m < n PROVE FALSE
  <2>1. (0 .. m) \in W
    BY <1>4, <1>6, <1>7
  <2>2. (0 .. m) \subseteq X /\ (0 .. m) # X
    BY <1>6, <1>7
  <2> QED BY <1>5, <2>1, <2>2
<1> QED BY <1>6, <1>7

(* A power of two divides every greater one. *)
LEMMA PowersDivide ==
  ASSUME NEW j \in 0 .. IndexBits, NEW k \in 0 .. IndexBits, j <= k
  PROVE  \E m \in Nat \ {0} : 2 ^ k = m * 2 ^ j
<1> DEFINE Divided(n) == \E m \in Nat \ {0} : 2 ^ n = m * 2 ^ j
           Bad == {n \in j .. IndexBits : ~Divided(n)}
<1>1. ASSUME Bad # {} PROVE FALSE
  <2>1. PICK n \in Bad : \A i \in Bad : n <= i
    <3>1. Bad \subseteq Nat
      BY IndexBitsAssumption
    <3> QED BY <1>1, <3>1, SmallestNumber
  <2>2. n \in Nat /\ n \in j .. IndexBits /\ n \in 0 .. IndexBits /\ ~Divided(n)
    BY <2>1, IndexBitsAssumption
  <2>3. Divided(j)
    <3>1. PICK p \in Nat : p = 2 ^ j
      BY PowersOfTwo
    <3>2. p = 1 * p
      OBVIOUS
    <3> QED BY <3>1, <3>2
  <2>4. n - 1 \in j .. IndexBits /\ n - 1 \in 0 .. IndexBits /\ (n - 1) + 1 = n
    <3> HIDE DEF Divided, Bad
    <3>1. n # j
      BY <2>2, <2>3
    <3>2. n \in Nat /\ j \in Nat /\ IndexBits \in Nat /\ j <= n /\ n <= IndexBits
      BY <2>2, IndexBitsAssumption
    <3> QED BY <3>1, <3>2
  <2>5. Divided(n - 1)
    <3> HIDE DEF Divided
    <3> QED BY <2>1, <2>4
  <2>6. PICK m \in Nat \ {0} : 2 ^ (n - 1) = m * 2 ^ j
    BY <2>5
  <2>7. 2 ^ n = 2 * 2 ^ (n - 1)
    BY <2>4, PowersOfTwo
  <2>8. PICK p \in Nat : p = 2 ^ j
    BY PowersOfTwo
  <2>9. 2 * (m * p) = (2 * m) * p /\ 2 * m \in Nat \ {0}
    OBVIOUS
  <2> QED BY <2>2, <2>6, <2>7, <2>8, <2>9
<1>2. k \in j .. IndexBits
  BY IndexBitsAssumption
<1> QED BY <1>1, <1>2

(* The bits of a number. *)
Bit(n, i) == (n \div 2 ^ i) % 2

(* One more bit. *)
LEMMA NextBit ==
  ASSUME NEW x \in Nat, NEW j \in 0 .. IndexBits
  PROVE  x % 2 ^ (j + 1) = (x % 2 ^ j) + 2 ^ j * Bit(x, j)
<1>1. PICK p \in Nat \ {0} : p = 2 ^ j /\ 2 ^ (j + 1) = 2 * p
  BY PowersOfTwo
<1>2. PICK a \in Nat, e \in 0 .. p - 1 : a * p + e = x /\ e = x % p /\ a = x \div p
  BY Division
<1>3. PICK b \in Nat, c \in 0 .. 1 : b * 2 + c = a /\ c = a % 2
  <2>1. PICK two \in Nat \ {0} : two = 2
    OBVIOUS
  <2>2. (a \div two) * two + (a % two) = a /\ a \div two \in Nat /\ a % two \in 0 .. two - 1
    BY Division
  <2> QED BY <2>1, <2>2
<1>4. x % (2 * p) = c * p + e
  <2>1. (b * 2 + c) * p = b * (2 * p) + c * p
    OBVIOUS
  <2>2. x = b * (2 * p) + (c * p + e)
    <3>1. (b * 2 + c) * p + e = x
      BY <1>2, <1>3
    <3>2. PICK u \in Int, v \in Int : u = b * (2 * p) /\ v = c * p
      OBVIOUS
    <3> QED BY <2>1, <3>1, <3>2
  <2>3. c * p + e \in 0 .. 2 * p - 1 /\ 2 * p \in Nat \ {0}
    <3>1. CASE c = 0
      BY <3>1
    <3>2. CASE c = 1
      BY <3>2
    <3> QED BY <3>1, <3>2
  <2>4. PICK m \in Nat \ {0}, v \in Nat : m = 2 * p /\ v = c * p + e
    BY <2>3
  <2>5. v \in 0 .. m - 1 /\ x = b * m + v
    BY <2>2, <2>3, <2>4
  <2>6. x % m = v
    BY <2>5, QuotientAndRemainder
  <2> QED BY <2>4, <2>6
<1>5. Bit(x, j) = c
  BY <1>1, <1>2, <1>3 DEF Bit
<1>6. c * p + e = e + p * c
  OBVIOUS
<1> QED BY <1>1, <1>2, <1>4, <1>5, <1>6

(* The bits of the mask: the k lowest ones. *)
LEMMA MaskBits ==
  ASSUME NEW k \in 0 .. IndexBits, NEW j \in 0 .. IndexBits - 1
  PROVE  Bit(2 ^ k - 1, j) = IF j < k THEN 1 ELSE 0
<1>1. k \in Nat /\ j \in Nat /\ j \in 0 .. IndexBits /\ j + 1 \in 0 .. IndexBits
  BY IndexBitsAssumption
<1>2. PICK p \in Nat \ {0} : p = 2 ^ j /\ 2 ^ (j + 1) = 2 * p
  BY <1>1, PowersOfTwo
<1>3. PICK q \in Nat \ {0} : q = 2 ^ k
  BY PowersOfTwo
<1>4. CASE j < k
  <2>1. PICK m \in Nat \ {0} : q = m * (2 * p)
    <3>1. j + 1 <= k
      BY <1>1, <1>4
    <3> QED BY <1>1, <1>2, <1>3, <3>1, PowersDivide
  <2>2. m * (2 * p) = (2 * m - 1) * p + p
    OBVIOUS
  <2>3. PICK a \in Nat : a = 2 * m - 1
    OBVIOUS
  <2>4. q - 1 = a * p + (p - 1) /\ q - 1 \in Nat /\ p - 1 \in 0 .. p - 1
    BY <2>1, <2>2, <2>3
  <2>5. (q - 1) \div p = a
    <3>1. PICK v \in Nat : v = q - 1
      BY <2>4
    <3>2. PICK e \in 0 .. p - 1 : e = p - 1
      BY <2>4
    <3>3. v \div p = a
      BY <2>4, <3>1, <3>2, QuotientAndRemainder
    <3> QED BY <3>1, <3>3
  <2>6. a % 2 = 1
    BY <2>3
  <2> QED BY <1>2, <1>3, <1>4, <2>5, <2>6 DEF Bit
<1>5. CASE ~(j < k)
  <2>1. PICK m \in Nat \ {0} : p = m * q
    <3>1. k <= j
      BY <1>1, <1>5
    <3>2. \E m \in Nat \ {0} : 2 ^ j = m * 2 ^ k
      BY <1>1, <3>1, PowersDivide
    <3> QED BY <1>2, <1>3, <3>2
  <2>2. m * q >= 1 * q
    OBVIOUS
  <2>3. q - 1 \in 0 .. p - 1 /\ q - 1 \in Nat
    BY <2>1, <2>2
  <2>4. (q - 1) \div p = 0
    <3>1. PICK v \in Nat : v = q - 1
      BY <2>3
    <3>2. v \in 0 .. p - 1 /\ v = 0 * p + v
      BY <2>3, <3>1
    <3>3. v \div p = 0
      BY <3>2, QuotientAndRemainder
    <3> QED BY <3>1, <3>3
  <2> QED BY <1>2, <1>3, <1>5, <2>4 DEF Bit
<1> QED BY <1>4, <1>5

LEMMA BitType ==
  ASSUME NEW x \in Nat, NEW j \in 0 .. IndexBits
  PROVE  Bit(x, j) \in 0 .. 1
<1>1. 2 ^ j \in Nat \ {0}
  BY PowersOfTwo
<1>2. x \div 2 ^ j \in Nat
  BY <1>1, Division
<1>3. PICK a \in Nat : a = x \div 2 ^ j
  BY <1>2
<1>4. a % 2 \in 0 .. 1
  OBVIOUS
<1> QED BY <1>3, <1>4 DEF Bit

(* The sums BitAnd goes through, bit by bit. *)
Sums(low, x, y) ==
  /\ low[0] = 0
  /\ \A j \in 0 .. IndexBits - 1 : low[j + 1] = low[j] + 2 ^ j * Bit(x, j) * Bit(y, j)
  /\ low[IndexBits] = BitAnd(x, y)

(* The function that BitAnd defines by recursion exists. *)
LEMMA BitAndSums ==
  ASSUME NEW x \in Nat, NEW y \in Nat
  PROVE  \E low : Sums(low, x, y)
<1> DEFINE N == IndexBits
           Step(v, j) == v + 2 ^ j * Bit(x, j) * Bit(y, j)
           Rec(f, m) == f = [n \in 0 .. m |-> IF n = 0 THEN 0 ELSE Step(f[n - 1], n - 1)]
           Bad == {m \in 0 .. N : ~\E f : Rec(f, m)}
<1>1. N \in Nat
  BY IndexBitsAssumption
<1>2. BitAnd(x, y) = (CHOOSE f : Rec(f, N))[N]
  BY DEF BitAnd, Bit
<1>3. ASSUME NEW f, NEW m \in Nat, Rec(f, m)
      PROVE  \A n \in 0 .. m : f[n] = IF n = 0 THEN 0 ELSE Step(f[n - 1], n - 1)
  BY <1>3
<1>4. ASSUME NEW g, NEW m \in Nat, g = [n \in 0 .. m |-> g[n]],
             \A n \in 0 .. m : g[n] = IF n = 0 THEN 0 ELSE Step(g[n - 1], n - 1)
      PROVE  Rec(g, m)
  <2> HIDE DEF Step
  <2> DEFINE h == [n \in 0 .. m |-> IF n = 0 THEN 0 ELSE Step(g[n - 1], n - 1)]
  <2>1. \A n \in 0 .. m : h[n] = g[n]
    BY <1>4
  <2>2. h = [n \in 0 .. m |-> h[n]]
    OBVIOUS
  <2> HIDE DEF h
  <2>3. g = h
    BY <2>1, <2>2, <1>4
  <2> QED BY <2>3 DEF h
<1> HIDE DEF Step, Rec
<1>5. ASSUME Bad # {} PROVE FALSE
  <2>1. PICK m \in Bad : \A i \in Bad : m <= i
    <3>1. Bad \subseteq Nat
      BY <1>1
    <3> QED BY <1>5, <3>1, SmallestNumber
  <2>2. m \in Nat /\ m \in 0 .. N /\ ~\E f : Rec(f, m)
    BY <2>1, <1>1
  <2>3. CASE m = 0
    <3> DEFINE g == [n \in 0 .. m |-> 0]
    <3>1. g = [n \in 0 .. m |-> g[n]] /\ \A n \in 0 .. m : n = 0 /\ g[n] = 0
      BY <2>3
    <3> HIDE DEF g
    <3>2. Rec(g, m)
      BY <2>2, <3>1, <1>4
    <3> QED BY <2>2, <3>2
  <2>4. CASE m # 0
    <3>1. m - 1 \in Nat /\ m - 1 \in 0 .. N /\ ~(m <= m - 1)
      BY <2>2, <2>4, <1>1
    <3>2. PICK f : Rec(f, m - 1)
      BY <2>1, <3>1
    <3> DEFINE g == [n \in 0 .. m |-> IF n = m THEN Step(f[m - 1], m - 1) ELSE f[n]]
    <3>3. g = [n \in 0 .. m |-> g[n]] /\ g[m] = Step(f[m - 1], m - 1)
      BY <2>2
    <3>4. \A n \in 0 .. m - 1 : g[n] = f[n]
      BY <2>2
    <3> HIDE DEF g
    <3>5. \A n \in 0 .. m - 1 : f[n] = IF n = 0 THEN 0 ELSE Step(f[n - 1], n - 1)
      BY <1>3, <3>1, <3>2
    <3>6. ASSUME NEW n \in 0 .. m PROVE g[n] = IF n = 0 THEN 0 ELSE Step(g[n - 1], n - 1)
      <4>1. CASE n = m
        BY <2>2, <2>4, <3>1, <3>3, <3>4, <4>1
      <4>2. CASE n = 0
        <5>1. 0 \in 0 .. m - 1
          BY <3>1
        <5> QED BY <3>4, <3>5, <4>2, <5>1
      <4>3. CASE n # m /\ n # 0
        <5>1. n \in 0 .. m - 1 /\ n - 1 \in 0 .. m - 1
          BY <2>2, <4>3
        <5> QED BY <3>4, <3>5, <4>3, <5>1
      <4> QED BY <4>1, <4>2, <4>3
    <3>7. Rec(g, m)
      BY <2>2, <3>3, <3>6, <1>4
    <3> QED BY <2>2, <3>7
  <2> QED BY <2>3, <2>4
<1>6. PICK low : low = CHOOSE f : Rec(f, N)
  OBVIOUS
<1>7. Rec(low, N) /\ BitAnd(x, y) = low[N]
  <2>1. \E f : Rec(f, N)
    BY <1>1, <1>5
  <2> QED BY <2>1, <1>2, <1>6
<1>8. \A n \in 0 .. N : low[n] = IF n = 0 THEN 0 ELSE Step(low[n - 1], n - 1)
  BY <1>1, <1>3, <1>7
<1>9. ASSUME NEW j \in 0 .. N - 1 PROVE low[j + 1] = Step(low[j], j)
  <2>1. j + 1 \in 0 .. N /\ j + 1 # 0 /\ (j + 1) - 1 = j
    BY <1>1
  <2> QED BY <1>8, <2>1
<1>10. low[0] = 0
  BY <1>1, <1>8
<1> QED BY <1>7, <1>9, <1>10 DEF Sums, Step

(* Masking with a power of two less one is taking the remainder: the sum   *)
(* that BitAnd computes is, bit by bit, the remainder of x so far, up to   *)
(* the bit where the mask ends.                                            *)
THEOREM MaskIsRemainder ==
  ASSUME NEW x \in Index, NEW k \in 0 .. IndexBits
  PROVE  BitAnd(x, 2 ^ k - 1) = x % 2 ^ k
<1> DEFINE N == IndexBits
           Sum(n) == x % 2 ^ (IF n < k THEN n ELSE k)
<1>1. N \in Nat /\ k \in Nat /\ k <= N /\ x \in Nat
  BY IndexBitsAssumption DEF Index
<1>2. PICK y \in Nat : y = 2 ^ k - 1
  <2>1. 2 ^ k \in Nat \ {0}
    BY PowersOfTwo
  <2>2. PICK q \in Nat \ {0} : q = 2 ^ k
    BY <2>1
  <2>3. q - 1 \in Nat
    OBVIOUS
  <2> QED BY <2>2, <2>3
<1>3. PICK low : Sums(low, x, y)
  BY <1>1, BitAndSums
<1>4. Sum(0) = 0
  <2>1. Sum(0) = x % 1
    <3>1. (IF 0 < k THEN 0 ELSE k) = 0
      BY <1>1
    <3> QED BY <3>1, PowersOfTwo
  <2>2. x % 1 = 0
    BY <1>1
  <2> QED BY <2>1, <2>2
<1>5. Sum(N) = x % 2 ^ k
  <2>1. (IF N < k THEN N ELSE k) = k
    BY <1>1
  <2> QED BY <2>1
<1>6. ASSUME NEW j \in 0 .. N - 1 PROVE Sum(j + 1) = Sum(j) + 2 ^ j * Bit(x, j) * Bit(y, j)
  <2>1. j \in Nat /\ j \in 0 .. N /\ j + 1 \in Nat
    BY <1>1
  <2>2. Bit(y, j) = IF j < k THEN 1 ELSE 0
    BY <1>2, MaskBits
  <2>3. PICK p \in Nat \ {0}, b \in 0 .. 1 : p = 2 ^ j /\ b = Bit(x, j)
    BY <1>1, <2>1, BitType, PowersOfTwo
  <2>4. CASE j < k
    <3>1. Sum(j) = x % 2 ^ j /\ Sum(j + 1) = x % 2 ^ (j + 1)
      <4>1. (IF j < k THEN j ELSE k) = j /\ (IF j + 1 < k THEN j + 1 ELSE k) = j + 1
        BY <1>1, <2>1, <2>4
      <4> QED BY <4>1
    <3>2. x % 2 ^ (j + 1) = (x % 2 ^ j) + 2 ^ j * Bit(x, j)
      BY <1>1, <2>1, NextBit
    <3>3. 2 ^ j * Bit(x, j) * Bit(y, j) = 2 ^ j * Bit(x, j)
      BY <2>2, <2>3, <2>4
    <3> QED BY <3>1, <3>2, <3>3
  <2>5. CASE ~(j < k)
    <3>1. Sum(j) = x % 2 ^ k /\ Sum(j + 1) = x % 2 ^ k
      <4>1. (IF j < k THEN j ELSE k) = k /\ (IF j + 1 < k THEN j + 1 ELSE k) = k
        BY <1>1, <2>1, <2>5
      <4> QED BY <4>1
    <3>2. 2 ^ j * Bit(x, j) * Bit(y, j) = 0
      BY <2>2, <2>3, <2>5
    <3>3. PICK v \in Nat : v = x % 2 ^ k
      <4>1. PICK q \in Nat \ {0} : q = 2 ^ k
        BY PowersOfTwo
      <4>2. x % q \in 0 .. q - 1
        BY <1>1, Division
      <4>3. x % q \in Nat
        BY <4>2
      <4> QED BY <4>1, <4>3
    <3> QED BY <3>1, <3>2, <3>3
  <2> QED BY <2>4, <2>5
<1> HIDE DEF Sum
<1> DEFINE T == {n \in 0 .. N : low[n] # Sum(n)}
<1>7. ASSUME T # {} PROVE FALSE
  <2>1. T \subseteq Nat
    BY <1>1
  <2>2. PICK n \in T : \A m \in T : n <= m
    BY <1>7, <2>1, SmallestNumber
  <2>3. n \in 0 .. N /\ low[n] # Sum(n) /\ n \in Nat
    BY <2>1, <2>2
  <2>4. n # 0
    BY <1>3, <1>4, <2>3 DEF Sums
  <2>5. n - 1 \in 0 .. N - 1 /\ n - 1 \in 0 .. N /\ (n - 1) + 1 = n /\ ~(n <= n - 1)
    BY <1>1, <2>3, <2>4
  <2>6. low[n - 1] = Sum(n - 1)
    BY <2>2, <2>5
  <2> QED BY <1>3, <1>6, <2>3, <2>5, <2>6 DEF Sums
<1>8. low[N] = Sum(N)
  <2>1. N \in 0 .. N
    BY <1>1
  <2> QED BY <1>7, <2>1
<1> QED BY <1>2, <1>3, <1>5, <1>8 DEF Sums

(* What a mask lets through is never more than the mask. *)
LEMMA MaskBounds ==
  ASSUME NEW x \in Nat, NEW y \in Index
  PROVE  BitAnd(x, y) \in 0 .. y
<1> DEFINE N == IndexBits
<1>1. N \in Nat /\ y \in Nat /\ N \in 0 .. N
  BY IndexBitsAssumption DEF Index
<1>2. PICK low : Sums(low, x, y)
  BY <1>1, BitAndSums
<1> DEFINE Bounded(n) == \E v \in Nat : v = low[n] /\ v <= y % 2 ^ n
           U == {n \in 0 .. N : ~Bounded(n)}
<1>3. Bounded(0)
  <2>1. y % 2 ^ 0 = 0
    BY <1>1, PowersOfTwo
  <2> QED BY <1>2, <2>1 DEF Sums
<1>4. ASSUME NEW j \in 0 .. N - 1, Bounded(j) PROVE Bounded(j + 1)
  <2>1. j \in 0 .. N
    BY <1>1
  <2>2. PICK p \in Nat \ {0}, b \in 0 .. 1, c \in 0 .. 1 :
           p = 2 ^ j /\ b = Bit(x, j) /\ c = Bit(y, j)
    BY <1>1, <2>1, BitType, PowersOfTwo
  <2>3. PICK v \in Nat : v = low[j] /\ v <= y % p
    BY <1>4, <2>2
  <2>4. y % p \in Nat
    <3>1. y % p \in 0 .. p - 1
      BY <1>1, Division
    <3> QED BY <3>1
  <2>5. PICK e \in Nat : e = y % p /\ v <= e
    BY <2>3, <2>4
  <2>6. y % 2 ^ (j + 1) = e + p * c
    BY <1>1, <2>1, <2>2, <2>5, NextBit
  <2>7. low[j + 1] = v + p * b * c
    BY <1>2, <2>2, <2>3 DEF Sums
  <2>8. v + p * b * c \in Nat /\ v + p * b * c <= e + p * c
    <3>1. CASE c = 0
      BY <2>5, <3>1
    <3>2. CASE c = 1 /\ b = 0
      BY <2>5, <3>2
    <3>3. CASE c = 1 /\ b = 1
      BY <2>5, <3>3
    <3> QED BY <3>1, <3>2, <3>3
  <2> QED BY <2>6, <2>7, <2>8
<1> HIDE DEF Bounded
<1>5. ASSUME U # {} PROVE FALSE
  <2>1. U \subseteq Nat
    BY <1>1
  <2>2. PICK n \in U : \A m \in U : n <= m
    BY <1>5, <2>1, SmallestNumber
  <2>3. n \in 0 .. N /\ ~Bounded(n) /\ n \in Nat
    BY <2>1, <2>2
  <2>4. n # 0
    BY <1>3, <2>3
  <2>5. n - 1 \in 0 .. N - 1 /\ n - 1 \in 0 .. N /\ (n - 1) + 1 = n /\ ~(n <= n - 1)
    BY <1>1, <2>3, <2>4
  <2>6. Bounded(n - 1)
    BY <2>2, <2>5
  <2>7. Bounded((n - 1) + 1)
    BY <1>4, <2>5, <2>6
  <2> QED BY <2>3, <2>5, <2>7
<1>6. PICK v \in Nat : v = BitAnd(x, y) /\ v <= y % 2 ^ N
  BY <1>1, <1>2, <1>5 DEF Bounded, Sums
<1>7. y % 2 ^ N = y
  <2>1. PICK q \in Nat \ {0} : q = 2 ^ N
    BY <1>1, PowersOfTwo
  <2>2. y < q
    BY <1>1, <2>1 DEF Index, IndexRange
  <2>3. y \in 0 .. q - 1 /\ y = 0 * q + y
    BY <1>1, <2>2
  <2>4. y % q = y
    BY <1>1, <2>3, QuotientAndRemainder
  <2> QED BY <2>1, <2>4
<1> QED BY <1>1, <1>6, <1>7

(* Numbers without a common bit mask each other out. *)
LEMMA NoCommonBit ==
  ASSUME NEW x \in Nat, NEW y \in Nat,
         \A j \in 0 .. IndexBits - 1 : Bit(x, j) = 0 \/ Bit(y, j) = 0
  PROVE  BitAnd(x, y) = 0
<1> DEFINE N == IndexBits
<1>1. N \in Nat /\ N \in 0 .. N
  BY IndexBitsAssumption
<1>2. PICK low : Sums(low, x, y)
  BY BitAndSums
<1> DEFINE U == {n \in 0 .. N : low[n] # 0}
<1>3. ASSUME NEW j \in 0 .. N - 1, low[j] = 0 PROVE low[j + 1] = 0
  <2>1. j \in 0 .. N
    BY <1>1
  <2>2. PICK p \in Nat \ {0}, b \in 0 .. 1, c \in 0 .. 1 :
           p = 2 ^ j /\ b = Bit(x, j) /\ c = Bit(y, j)
    BY <2>1, BitType, PowersOfTwo
  <2>3. low[j + 1] = 0 + p * b * c
    BY <1>2, <1>3, <2>2 DEF Sums
  <2>4. CASE b = 0
    BY <2>3, <2>4
  <2>5. CASE c = 0
    BY <2>3, <2>5
  <2> QED BY <2>2, <2>4, <2>5
<1>4. ASSUME U # {} PROVE FALSE
  <2>1. U \subseteq Nat
    BY <1>1
  <2>2. PICK n \in U : \A m \in U : n <= m
    BY <1>4, <2>1, SmallestNumber
  <2>3. n \in 0 .. N /\ low[n] # 0 /\ n \in Nat
    BY <2>1, <2>2
  <2>4. n # 0
    BY <1>2, <2>3 DEF Sums
  <2>5. n - 1 \in 0 .. N - 1 /\ n - 1 \in 0 .. N /\ (n - 1) + 1 = n /\ ~(n <= n - 1)
    BY <1>1, <2>3, <2>4
  <2>6. low[n - 1] = 0
    BY <2>2, <2>5
  <2> QED BY <1>3, <2>3, <2>5, <2>6
<1> QED BY <1>1, <1>2, <1>4 DEF Sums

(* Walking on by less than the capacity: the offset goes up by as much, or *)
(* turns around once, also where the index wraps.                          *)
LEMMA OffsetForward ==
  ASSUME NEW c \in Nat \ {0}, NEW m \in Nat \ {0}, IndexRange = m * c,
         NEW p \in Index, NEW i \in 0 .. c - 1
  PROVE  Wrap(p + i) % c = IF (p % c) + i < c THEN (p % c) + i ELSE (p % c) + i - c
<1>1. IndexRange \in Nat /\ c <= IndexRange /\ p \in Nat /\ p < IndexRange
  <2>1. m * c \in Nat /\ m * c >= 1 * c
    OBVIOUS
  <2> QED BY <2>1 DEF Index
<1>2. PICK a \in Nat, o \in 0 .. c - 1 : a * c + o = p /\ o = p % c
  BY <1>1, Division
<1>3. PICK t \in 0 .. 1 : Wrap(p + i) = p + i - t * IndexRange /\ Wrap(p + i) \in Nat
  <2>1. CASE p + i < IndexRange
    BY <1>1, <2>1 DEF Wrap
  <2>2. CASE ~(p + i < IndexRange)
    <3>1. Wrap(p + i) = p + i - IndexRange
      BY <1>1, <2>2 DEF Wrap
    <3>2. Wrap(p + i) = p + i - 1 * IndexRange /\ Wrap(p + i) \in Nat
      BY <1>1, <2>2, <3>1
    <3> QED BY <3>2
  <2> QED BY <2>1, <2>2
<1>4. PICK z \in Nat : z = Wrap(p + i)
  BY <1>3
<1>5. PICK u \in 0 .. 1, s \in 0 .. c - 1 :
         /\ o + i = u * c + s
         /\ s = IF o + i < c THEN o + i ELSE o + i - c
  <2>1. CASE o + i < c
    <3>1. o + i = 0 * c + (o + i) /\ o + i \in 0 .. c - 1
      BY <2>1
    <3> QED BY <2>1, <3>1
  <2>2. CASE ~(o + i < c)
    <3>1. o + i = 1 * c + (o + i - c) /\ o + i - c \in 0 .. c - 1
      BY <2>2
    <3> QED BY <2>2, <3>1
  <2> QED BY <2>1, <2>2
<1>6. PICK q \in Int : q = a + u - t * m
  OBVIOUS
<1>7. (a + u - t * m) * c = a * c + u * c - t * (m * c)
  OBVIOUS
<1>8. z = q * c + s
  <2>1. q * c = a * c + u * c - t * IndexRange
    BY <1>6, <1>7
  <2>2. PICK x \in Int, y \in Int, v \in Int : x = a * c /\ y = u * c /\ v = t * IndexRange
    BY <1>1
  <2>3. z = (x + o) + i - v /\ o + i = y + s
    <3>1. x + o = p /\ z = p + i - v
      BY <1>2, <1>3, <1>4, <2>2
    <3> QED BY <1>5, <2>2, <3>1
  <2>4. z = x + y - v + s
    BY <2>3
  <2> QED BY <2>1, <2>2, <2>4
<1>9. z % c = s
  BY <1>8, QuotientAndRemainder
<1> QED BY <1>2, <1>4, <1>5, <1>9

(* Whatever the capacity, buffer_pos stays in the data area. *)
LEMMA Sizes ==
  SizesFit
<1>1. PICK n \in Nat, c \in Nat \ {0} : n = RequestedCapacity + PageSize - 1 /\ c = PageSize /\ c <= n
  BY ConstantsAssumption
<1>2. PICK q \in Nat, e \in 0 .. c - 1 : q * c + e = n /\ q = n \div c
  BY Division
<1>3. q >= 1
  <2>1. q = 0 => e = n
    BY <1>2
  <2> QED BY <1>1, <2>1
<1>4. q * c \in Nat /\ q * c >= 1 * c
  BY <1>3
<1>5. PICK s \in Nat \ {0} : s = Capacity
  BY <1>1, <1>2, <1>4 DEF Capacity
<1>6. IndexRange \in Nat
  BY IndexBitsAssumption, PowersOfTwo DEF IndexRange
<1>7. s < IndexRange /\ Cells = 0 .. s - 1
  BY <1>5, CapacityAssumption DEF Cells
<1>8. ASSUME NEW p \in Index PROVE Offset(p) \in Cells
  <2>1. p \in Nat
    BY <1>6 DEF Index
  <2>2. PICK m \in Index : m = s - 1
    BY <1>6, <1>7 DEF Index
  <2>3. BitAnd(p, m) \in 0 .. m
    BY <2>1, MaskBounds
  <2> QED BY <1>5, <1>7, <2>2, <2>3 DEF Offset
<1> QED BY <1>5, <1>6, <1>7, <1>8 DEF SizesFit

(* buffer_pos over a capacity that is a power of two is sound. *)
LEMMA Geometry ==
  ASSUME PowerOfTwoCapacity
  PROVE  SoundGeometry
<1>1. PICK k \in 0 .. IndexBits - 1 : Capacity = 2 ^ k
  BY DEF PowerOfTwoCapacity
<1>2. k \in 0 .. IndexBits /\ k + 1 \in 0 .. IndexBits /\ IndexBits \in 0 .. IndexBits /\ k + 1 <= IndexBits
  BY IndexBitsAssumption
<1>3. PICK c \in Nat \ {0} : c = Capacity /\ c = 2 ^ k /\ 2 ^ (k + 1) = 2 * c
  BY <1>1, <1>2, PowersOfTwo
<1>4. PICK h \in Nat \ {0} : IndexRange = h * (2 * c)
  BY <1>2, <1>3, PowersDivide DEF IndexRange
<1>5. PICK m \in Nat \ {0} : m = 2 * h /\ IndexRange = m * c
  <2>1. h * (2 * c) = (2 * h) * c
    OBVIOUS
  <2> QED BY <1>4, <2>1
<1>6. IndexRange \in Nat /\ c < IndexRange
  <2>1. h * (2 * c) >= 1 * (2 * c) /\ h * (2 * c) \in Nat
    OBVIOUS
  <2> QED BY <1>4, <2>1
<1>7. ASSUME NEW p \in Index PROVE Offset(p) = p % c /\ p % c \in 0 .. c - 1
  <2>1. p \in Nat
    BY <1>6 DEF Index
  <2>2. BitAnd(p, 2 ^ k - 1) = p % 2 ^ k
    BY <1>2, MaskIsRemainder
  <2>3. p % c \in 0 .. c - 1
    BY <2>1, Division
  <2> QED BY <1>3, <2>2, <2>3 DEF Offset
<1>8. Cells = 0 .. c - 1
  BY <1>3 DEF Cells
<1>9. ASSUME NEW p \in Index, NEW i \in 0 .. c - 1
      PROVE  /\ Cell(Offset(p) + i) = Offset(Wrap(p + i))
             /\ i # 0 => Offset(Wrap(p + i)) # Offset(p)
  <2>1. PICK o \in 0 .. c - 1 : o = p % c /\ o = Offset(p)
    BY <1>7
  <2>2. Wrap(p + i) \in Index
    BY <1>6 DEF Index, Wrap
  <2>3. Offset(Wrap(p + i)) = IF o + i < c THEN o + i ELSE o + i - c
    <3>1. Offset(Wrap(p + i)) = Wrap(p + i) % c
      BY <1>7, <2>2
    <3>2. Wrap(p + i) % c = IF (p % c) + i < c THEN (p % c) + i ELSE (p % c) + i - c
      BY <1>5, OffsetForward
    <3> QED BY <2>1, <3>1, <3>2
  <2>4. Cell(o + i) = IF o + i < c THEN o + i ELSE o + i - c
    BY <1>3 DEF Cell
  <2>5. i # 0 => (IF o + i < c THEN o + i ELSE o + i - c) # o
    OBVIOUS
  <2> QED BY <2>1, <2>3, <2>4, <2>5
<1>10. \A p \in Index, i \in Cells : Cell(Offset(p) + i) = Offset(Wrap(p + i))
  BY <1>8, <1>9
<1>11. \A p \in Index, i \in 1 .. Capacity - 1 : Offset(Wrap(p + i)) # Offset(p)
  <2>1. \A i \in 1 .. Capacity - 1 : i \in 0 .. c - 1 /\ i # 0
    BY <1>3
  <2> QED BY <1>9, <2>1
<1> QED BY <1>10, <1>11 DEF SoundGeometry, OffsetsDiffer

(* A number whose k lowest bits are set. *)
LEMMA LowBitsSet ==
  ASSUME NEW y \in Nat, NEW k \in 0 .. IndexBits, \A j \in 0 .. k - 1 : Bit(y, j) = 1
  PROVE  y % 2 ^ k = 2 ^ k - 1
<1> DEFINE Set(n) == y % 2 ^ n = 2 ^ n - 1
           U == {n \in 0 .. k : ~Set(n)}
<1>1. k \in Nat /\ IndexBits \in Nat /\ k <= IndexBits
  BY IndexBitsAssumption
<1>2. Set(0)
  <2>1. y % 1 = 0
    OBVIOUS
  <2> QED BY <2>1, PowersOfTwo
<1>3. ASSUME NEW j \in 0 .. k - 1, Set(j) PROVE Set(j + 1)
  <2>1. j \in 0 .. IndexBits
    BY <1>1
  <2>2. PICK p \in Nat \ {0} : p = 2 ^ j /\ 2 ^ (j + 1) = 2 * p
    BY <2>1, PowersOfTwo
  <2>3. y % 2 ^ (j + 1) = (y % 2 ^ j) + 2 ^ j * Bit(y, j)
    BY <2>1, NextBit
  <2>4. y % 2 ^ (j + 1) = (p - 1) + p * 1
    BY <1>3, <2>2, <2>3
  <2> QED BY <2>2, <2>4
<1> HIDE DEF Set
<1>4. ASSUME U # {} PROVE FALSE
  <2>1. U \subseteq Nat
    BY <1>1
  <2>2. PICK n \in U : \A m \in U : n <= m
    BY <1>4, <2>1, SmallestNumber
  <2>3. n \in 0 .. k /\ ~Set(n) /\ n \in Nat
    BY <2>1, <2>2
  <2>4. n # 0
    BY <1>2, <2>3
  <2>5. n - 1 \in 0 .. k - 1 /\ n - 1 \in 0 .. k /\ (n - 1) + 1 = n /\ ~(n <= n - 1)
    BY <1>1, <2>3, <2>4
  <2>6. Set(n - 1)
    BY <2>2, <2>5
  <2>7. Set((n - 1) + 1)
    BY <1>3, <2>5, <2>6
  <2> QED BY <2>3, <2>5, <2>7
<1>5. Set(k)
  BY <1>1, <1>4
<1> QED BY <1>5 DEF Set

(* A power of two has one bit. *)
LEMMA BitsOfPower ==
  ASSUME NEW k \in 0 .. IndexBits - 1, NEW j \in 0 .. IndexBits - 1, j # k
  PROVE  Bit(2 ^ k, j) = 0
<1>1. /\ k \in Nat /\ j \in Nat /\ k \in 0 .. IndexBits /\ j \in 0 .. IndexBits
      /\ k + 1 \in 0 .. IndexBits /\ j + 1 \in 0 .. IndexBits
  BY IndexBitsAssumption
<1>2. PICK p \in Nat \ {0} : p = 2 ^ j /\ 2 ^ (j + 1) = 2 * p
  BY <1>1, PowersOfTwo
<1>3. PICK q \in Nat \ {0} : q = 2 ^ k /\ 2 ^ (k + 1) = 2 * q
  BY <1>1, PowersOfTwo
<1>4. CASE j < k
  <2>1. PICK m \in Nat \ {0} : q = m * (2 * p)
    <3>1. j + 1 <= k
      BY <1>1, <1>4
    <3> QED BY <1>1, <1>2, <1>3, <3>1, PowersDivide
  <2>2. PICK a \in Nat, e \in 0 .. p - 1 : a = 2 * m /\ e = 0
    OBVIOUS
  <2>3. q = a * p + e
    <3>1. m * (2 * p) = (2 * m) * p
      OBVIOUS
    <3> QED BY <2>1, <2>2, <3>1
  <2>4. q \div p = a
    BY <2>3, QuotientAndRemainder
  <2>5. a % 2 = 0
    BY <2>2
  <2> QED BY <1>2, <1>3, <2>4, <2>5 DEF Bit
<1>5. CASE k < j
  <2>1. PICK m \in Nat \ {0} : p = m * (2 * q)
    <3>1. k + 1 <= j
      BY <1>1, <1>5
    <3> QED BY <1>1, <1>2, <1>3, <3>1, PowersDivide
  <2>2. m * (2 * q) >= 1 * (2 * q)
    OBVIOUS
  <2>3. q \in 0 .. p - 1 /\ q = 0 * p + q
    BY <2>1, <2>2
  <2>4. q \div p = 0
    BY <2>3, QuotientAndRemainder
  <2> QED BY <1>2, <1>3, <2>4 DEF Bit
<1> QED BY <1>1, <1>4, <1>5

(* Only a capacity that is a power of two gives consecutive indices cells  *)
(* of their own.  With any other a bit of the mask is zero below its       *)
(* highest one, and index 0 shares its cell with that bit's value, which   *)
(* lies less than a capacity ahead.  circular_buffer_fcreate rounds up to  *)
(* whole pages only.                                                       *)
THEOREM OnlyPowersOfTwoFit ==
  PowerOfTwoCapacity <=> OffsetsDiffer
<1>1. PowerOfTwoCapacity => OffsetsDiffer
  BY Geometry DEF SoundGeometry
<1>2. ASSUME OffsetsDiffer PROVE PowerOfTwoCapacity
  <2>1. PICK c \in Nat \ {0} : c = Capacity /\ c < IndexRange
    BY Sizes DEF SizesFit
  <2>2. IndexBits \in Nat /\ IndexRange \in Nat
    BY Sizes, IndexBitsAssumption DEF SizesFit
  <2>3. PICK y \in Nat : y = c - 1
    BY <2>1
  <2>4. ASSUME NEW j \in 0 .. IndexBits - 1, 2 ^ j < c PROVE Bit(y, j) = 1
    <3>1. j \in 0 .. IndexBits
      BY <2>2
    <3>2. PICK p \in Nat \ {0} : p = 2 ^ j /\ p < c
      BY <2>4, <3>1, PowersOfTwo
    <3>3. ASSUME Bit(y, j) = 0 PROVE FALSE
      <4>1. BitAnd(p, y) = 0
        <5>1. \A i \in 0 .. IndexBits - 1 : Bit(p, i) = 0 \/ Bit(y, i) = 0
          BY <3>2, <3>3, BitsOfPower
        <5> QED BY <5>1, NoCommonBit
      <4>2. BitAnd(0, y) = 0
        <5>1. ASSUME NEW i \in 0 .. IndexBits - 1 PROVE Bit(0, i) = 0
          <6>1. i \in 0 .. IndexBits
            BY <2>2
          <6>2. PICK n \in Nat \ {0} : n = 2 ^ i
            BY <6>1, PowersOfTwo
          <6>3. 0 \in 0 .. n - 1 /\ 0 = 0 * n + 0
            OBVIOUS
          <6>4. 0 \div n = 0
            BY <6>3, QuotientAndRemainder
          <6> QED BY <6>2, <6>4 DEF Bit
        <5> QED BY <5>1, NoCommonBit
      <4>3. 0 \in Index /\ p \in 1 .. Capacity - 1 /\ Wrap(0 + p) = p
        BY <2>1, <2>2, <3>2 DEF Index, Wrap
      <4>4. Offset(Wrap(0 + p)) # Offset(0)
        BY <1>2, <4>3 DEF OffsetsDiffer
      <4> QED BY <2>1, <2>3, <4>1, <4>2, <4>3, <4>4 DEF Offset
    <3> QED BY <3>1, <3>3, BitType
  <2>5. PICK k \in 0 .. IndexBits : c <= 2 ^ k /\ \A i \in 0 .. IndexBits : c <= 2 ^ i => k <= i
    <3> DEFINE U == {n \in 0 .. IndexBits : c <= 2 ^ n}
    <3>1. U \subseteq Nat
      OBVIOUS
    <3>2. IndexBits \in U
      BY <2>1, <2>2 DEF IndexRange
    <3>3. \E n \in U : \A m \in U : n <= m
      BY <3>1, <3>2, SmallestNumber
    <3> QED BY <3>3
  <2>6. \A j \in 0 .. k - 1 : Bit(y, j) = 1
    <3> SUFFICES ASSUME NEW j \in 0 .. k - 1 PROVE Bit(y, j) = 1
      OBVIOUS
    <3>1. j \in 0 .. IndexBits - 1 /\ j \in 0 .. IndexBits /\ ~(k <= j)
      BY <2>2
    <3>2. ~(c <= 2 ^ j) /\ 2 ^ j \in Nat
      BY <2>5, <3>1, PowersOfTwo
    <3> QED BY <2>1, <2>4, <3>1, <3>2
  <2>7. PICK q \in Nat \ {0} : q = 2 ^ k /\ c <= q
    BY <2>5, PowersOfTwo
  <2>8. y % q = q - 1
    BY <2>6, <2>7, LowBitsSet
  <2>9. y % q = y
    <3>1. y \in 0 .. q - 1 /\ y = 0 * q + y
      BY <2>1, <2>3, <2>7
    <3> QED BY <3>1, QuotientAndRemainder
  <2>10. c = q
    BY <2>1, <2>3, <2>7, <2>8, <2>9
  <2>11. k # IndexBits
    BY <2>1, <2>7, <2>10 DEF IndexRange
  <2>12. k \in 0 .. IndexBits - 1
    BY <2>2, <2>11
  <2> QED BY <2>1, <2>7, <2>10, <2>12 DEF PowerOfTwoCapacity
<1> QED BY <1>1, <1>2

-----------------------------------------------------------------------------
(* Facts about size_t arithmetic. *)

LEMMA WrapType ==
  ASSUME SizesFit, NEW a \in Index, NEW n \in 0 .. IndexRange - 1
  PROVE  Wrap(a + n) \in Index
  BY DEF SizesFit, Index, Wrap

LEMMA DistanceType ==
  ASSUME SizesFit, NEW a \in Index, NEW b \in Index
  PROVE  /\ Distance(a, b) \in Index
         /\ Distance(a, b) \in Nat
         /\ Distance(a, a) = 0
  BY DEF SizesFit, Index, Distance

(* Moving an index forward moves it away from any index behind it. *)
LEMMA DistanceForward ==
  ASSUME SizesFit, NEW a \in Index, NEW b \in Index, NEW n \in Nat,
         Distance(a, b) + n < IndexRange
  PROVE  Distance(a, Wrap(b + n)) = Distance(a, b) + n
  BY DEF SizesFit, Index, Distance, Wrap

(* Measuring from an index further on subtracts what lies between. *)
LEMMA DistanceRebase ==
  ASSUME SizesFit, NEW a \in Index, NEW b \in Index, NEW x \in Index,
         Distance(a, b) <= Distance(a, x)
  PROVE  Distance(b, x) = Distance(a, x) - Distance(a, b)
  BY DEF SizesFit, Index, Distance

LEMMA DistanceRebaseBefore ==
  ASSUME SizesFit, NEW a \in Index, NEW b \in Index, NEW x \in Index,
         Distance(a, x) < Distance(a, b)
  PROVE  Distance(b, x) = IndexRange + Distance(a, x) - Distance(a, b)
  BY DEF SizesFit, Index, Distance

LEMMA WrapBetween ==
  ASSUME SizesFit, NEW a \in Index, NEW p \in Index, NEW q \in Index,
         Distance(a, p) <= Distance(a, q)
  PROVE  q = Wrap(p + (Distance(a, q) - Distance(a, p)))
  BY DEF SizesFit, Index, Distance, Wrap

(* Two indices less than Capacity ahead of the same index share no cell. *)
LEMMA OffsetInjective ==
  ASSUME SizesFit, OffsetsDiffer, NEW a \in Index, NEW p \in Index, NEW q \in Index,
         Distance(a, p) < Capacity, Distance(a, q) < Capacity, Offset(p) = Offset(q)
  PROVE  p = q
<1>1. ASSUME NEW x \in Index, NEW y \in Index,
             Distance(a, x) < Capacity, Distance(a, y) < Capacity,
             Distance(a, x) < Distance(a, y)
      PROVE  Offset(x) # Offset(y)
  <2> DEFINE i == Distance(a, y) - Distance(a, x)
  <2>1. i \in 1 .. Capacity - 1
    BY <1>1, DistanceType DEF SizesFit
  <2>2. y = Wrap(x + i)
    BY <1>1, WrapBetween, DistanceType
  <2>3. QED
    BY <1>1, <2>1, <2>2 DEF OffsetsDiffer
<1>2. Distance(a, p) = Distance(a, q) => p = q
  BY DEF SizesFit, Index, Distance
<1>3. QED
  BY <1>1, <1>2, DistanceType

-----------------------------------------------------------------------------
(* One lemma per action: it preserves the invariant. *)

(* In every state of the invariant the measured indices are naturals. *)
LEMMA FromType ==
  ASSUME SizesFit, TypeOK
  PROVE  /\ \A x \in Index : From(x) \in Nat /\ From(x) < IndexRange
         /\ From(r) = 0
         /\ From(w) \in Nat /\ From(pw) \in Nat /\ From(cr) \in Nat
<1>1. r \in Index /\ w \in Index /\ pw \in Index /\ cr \in Index
  BY DEF TypeOK
<1>2. \A x \in Index : From(x) \in Index /\ From(x) \in Nat
  BY <1>1, DistanceType DEF From
<1>3. \A i \in Index : i < IndexRange
  BY DEF SizesFit, Index
<1>4. From(r) = 0
  BY <1>1, DistanceType DEF From
<1>5. QED
  BY <1>1, <1>2, <1>3, <1>4

(* What the stores waiting in the producer's buffer hold. *)
LEMMA PendingType ==
  ASSUME SizesFit, TypeOK
  PROVE  \A i \in 1 .. Len(pbuf) :
            /\ pbuf[i].val \in Index
            /\ Distance(r, pbuf[i].val) \in Nat
<1>1. \A i \in 1 .. Len(pbuf) : pbuf[i] \in Store
  BY DEF TypeOK
<1>2. \A s \in Store : s.val \in Index
  BY DEF Store
<1>3. r \in Index
  BY DEF TypeOK
<1>4. QED
  BY <1>1, <1>2, <1>3, DistanceType

(* The sizes of the pieces, as numbers. *)
LEMMA PieceType ==
  ASSUME TypeOK
  PROVE  /\ piece.held \in BOOLEAN /\ piece.data \in Cells
         /\ piece.size \in 0 .. Capacity /\ piece.written \in 0 .. Capacity
         /\ got.held \in BOOLEAN /\ got.data \in Cells /\ got.size \in 0 .. Capacity
  BY DEF TypeOK

LEMMA DistanceInjective ==
  ASSUME SizesFit, NEW a \in Index, NEW p \in Index, NEW q \in Index,
         Distance(a, p) = Distance(a, q)
  PROVE  p = q
  BY DEF SizesFit, Index, Distance

LEMMA AppendFacts ==
  ASSUME NEW S, NEW s \in Seq(S), NEW e \in S
  PROVE  /\ Append(s, e) \in Seq(S)
         /\ Len(s) \in Nat /\ Len(Append(s, e)) = Len(s) + 1
         /\ \A i \in 1 .. Len(s) : Append(s, e)[i] = s[i]
         /\ Append(s, e)[Len(s) + 1] = e
  OBVIOUS

LEMMA TailFacts ==
  ASSUME NEW S, NEW s \in Seq(S), s # <<>>
  PROVE  /\ Tail(s) \in Seq(S)
         /\ Len(s) \in Nat /\ Len(s) >= 1 /\ Len(Tail(s)) = Len(s) - 1
         /\ \A i \in 1 .. Len(s) - 1 : Tail(s)[i] = s[i + 1]
         /\ Head(s) = s[1] /\ Head(s) \in S
  OBVIOUS

LEMMA GetWritableStep ==
  ASSUME SizesFit, RingInv, GetWritable
  PROVE  RingInv'
<1> USE DEF RingInv, IndexInv, GetWritable
<1>1. writable_size(r, pw) = Capacity - From(pw) /\ From(pw) \in Nat
  BY FromType DEF writable_size, readable_size, From
<1>2. piece.written = 0 /\ piece.size = 0
  BY DEF Pieces, Order, TypeOK, SizesFit
<1>3. TypeOK'
  BY <1>1, <1>2 DEF TypeOK, SizesFit, Order
<1>4. Order' /\ Pieces'
  BY <1>1, <1>2 DEF Order, Pieces, From, SizesFit, TypeOK
<1>5. ReleasesPending'
  BY DEF ReleasesPending, From
<1>6. PublicationsPending'
  BY <1>2 DEF PublicationsPending, From, IsByte
<1>7. BytesInv => BytesInv'
  BY <1>2 DEF BytesInv, BytesPending, Contents, From, IsByte
<1>8. QED
  BY <1>3, <1>4, <1>5, <1>6, <1>7

LEMMA GetReadableStep ==
  ASSUME SizesFit, RingInv, GetReadable
  PROVE  RingInv'
<1> USE DEF RingInv, IndexInv, GetReadable
<1>1. /\ From(cr) \in Nat /\ From(w) \in Nat /\ From(pw) \in Nat
      /\ readable_size(cr, w) = From(w) - From(cr)
  BY FromType, DistanceRebase DEF readable_size, From, Order, TypeOK
<1>2. TypeOK'
  BY <1>1 DEF TypeOK, SizesFit, Order
<1>3. Order' /\ Pieces'
  BY <1>1 DEF Order, Pieces, From, TypeOK
<1>4. ReleasesPending' /\ PublicationsPending'
  BY DEF ReleasesPending, PublicationsPending, From, IsByte
<1>5. BytesInv => BytesInv'
  BY DEF BytesInv, BytesPending, Contents, From, IsByte
<1>6. QED
  BY <1>2, <1>3, <1>4, <1>5

LEMMA PopDataStep ==
  ASSUME SizesFit, RingInv, NEW asked \in 0 .. Capacity + 1, PopData(asked)
  PROVE  RingInv'
<1> USE DEF RingInv, IndexInv
<1> DEFINE ready == readable_size(cr, w)
           size == IF asked > ready THEN ready ELSE asked
<1>1. /\ From(cr) \in Nat /\ From(w) \in Nat /\ From(pw) \in Nat
      /\ ready = From(w) - From(cr) /\ From(cr) <= From(w)
      /\ From(w) < IndexRange /\ IndexRange \in Nat
  BY FromType, DistanceRebase DEF readable_size, From, Order, TypeOK, SizesFit
<1>2. size \in Nat /\ From(cr) + size <= From(w)
  BY <1>1 DEF SizesFit
<1> HIDE DEF ready
<1>3. cr' = Wrap(cr + size) /\ r' = r /\ w' = w /\ pw' = pw /\ cbuf' = Append(cbuf, cr')
  BY DEF PopData, ready
<1> HIDE DEF size
<1>4. cr' \in Index
  <2>1. size \in 0 .. IndexRange - 1
    BY <1>1, <1>2
  <2>2. QED
    BY <2>1, <1>3, WrapType DEF TypeOK
<1>5. Distance(r, cr') = From(cr) + size
  <2>1. Distance(r, cr) + size < IndexRange
    BY <1>1, <1>2 DEF From
  <2>2. QED
    BY <2>1, <1>2, <1>3, DistanceForward DEF From, TypeOK
<1>6. TypeOK'
  BY <1>3, <1>4 DEF TypeOK, PopData, NothingGot, SizesFit, Cells
<1>7. Order' /\ Pieces'
  BY <1>2, <1>3, <1>5 DEF Order, Pieces, From, PopData, NothingGot
<1>8. ReleasesPending'
  <2>1. \A i \in 1 .. Len(cbuf) : Distance(r, cbuf[i]) \in Nat
    BY FromType DEF From, TypeOK
  <2>2. /\ Len(cbuf') = Len(cbuf) + 1 /\ Len(cbuf) \in Nat
        /\ \A i \in 1 .. Len(cbuf) : cbuf'[i] = cbuf[i]
        /\ cbuf'[Len(cbuf) + 1] = cr'
    BY <1>3, <1>4 DEF TypeOK
  <2>3. Distance(r, cr) <= Distance(r, cr') /\ Distance(r, cr') \in Nat /\ Distance(r, cr) \in Nat
    BY <1>1, <1>2, <1>5 DEF From
  <2>4. /\ \A i \in 1 .. Len(cbuf) : Distance(r, cbuf[i]) <= Distance(r, cr)
        /\ \A i, j \in 1 .. Len(cbuf) :
              i <= j => Distance(r, cbuf[i]) <= Distance(r, cbuf[j])
    BY DEF ReleasesPending, From
  <2>5. \A i \in 1 .. Len(cbuf') : Distance(r, cbuf'[i]) <= Distance(r, cr')
    <3> SUFFICES ASSUME NEW i \in 1 .. Len(cbuf')
                 PROVE  Distance(r, cbuf'[i]) <= Distance(r, cr')
      OBVIOUS
    <3>1. CASE i = Len(cbuf) + 1
      BY <3>1, <2>2, <2>3
    <3>2. CASE i \in 1 .. Len(cbuf)
      BY <3>2, <2>1, <2>2, <2>3, <2>4
    <3>3. QED
      BY <3>1, <3>2, <2>2
  <2>6. \A i, j \in 1 .. Len(cbuf') :
           i <= j => Distance(r, cbuf'[i]) <= Distance(r, cbuf'[j])
    <3> SUFFICES ASSUME NEW i \in 1 .. Len(cbuf'), NEW j \in 1 .. Len(cbuf'), i <= j
                 PROVE  Distance(r, cbuf'[i]) <= Distance(r, cbuf'[j])
      OBVIOUS
    <3>1. CASE j = Len(cbuf) + 1
      BY <3>1, <2>2, <2>5
    <3>2. CASE j \in 1 .. Len(cbuf)
      BY <3>2, <2>2, <2>4
    <3>3. QED
      BY <3>1, <3>2, <2>2
  <2>7. QED
    BY <1>3, <2>5, <2>6 DEF ReleasesPending, From
<1>9. PublicationsPending'
  BY DEF PublicationsPending, From, IsByte, PopData
<1>10. BytesInv => BytesInv'
  BY DEF BytesInv, BytesPending, Contents, From, IsByte, PopData
<1>11. QED
  BY <1>6, <1>7, <1>8, <1>9, <1>10

LEMMA WriteByteStep ==
  ASSUME SizesFit, RingInv, WriteByte
  PROVE  RingInv'
<1> USE DEF RingInv, IndexInv
<1> DEFINE n == piece.written
           v == Wrap(pw + n)
           e == [to |-> Cell(piece.data + n), val |-> v]
<1>1. /\ From(cr) \in Nat /\ From(w) \in Nat /\ From(pw) \in Nat
      /\ Capacity \in Nat /\ IndexRange \in Nat /\ Capacity < IndexRange
      /\ n \in Nat /\ piece.size \in Nat /\ n < piece.size /\ n \in Cells
      /\ From(cr) <= From(w) /\ From(w) <= From(pw) /\ From(pw) + piece.size <= Capacity
  <2>1. /\ Capacity \in Nat /\ IndexRange \in Nat /\ Capacity < IndexRange
        /\ n < piece.size
    BY DEF SizesFit, WriteByte
  <2>2. n \in Nat /\ piece.size \in Nat /\ n \in Cells
    BY <2>1, PieceType DEF Cells
  <2>3. QED
    BY <2>1, <2>2, FromType DEF Order
<1>2. v \in Index
  BY <1>1, WrapType DEF TypeOK, Cells
<1>3. Distance(r, v) = From(pw) + n
  BY <1>1, DistanceForward DEF From, TypeOK
<1>4. e.val = v /\ e.to \in Cells /\ e.to # HeaderW
  <2>1. piece.data \in Cells
    BY PieceType
  <2>2. Cell(piece.data + n) \in Cells
    BY <1>1, <2>1 DEF Cell, Cells
  <2>3. QED
    BY <1>1, <2>2 DEF HeaderW, Cells
<1>5. e \in Store
  BY <1>2, <1>4 DEF Store
<1> HIDE DEF v
<1>6. /\ r' = r /\ w' = w /\ pw' = pw /\ cr' = cr /\ data' = data /\ cbuf' = cbuf /\ got' = got
      /\ pbuf' = Append(pbuf, e) /\ piece' = [piece EXCEPT !.written = n + 1]
  BY DEF WriteByte, v
<1> HIDE DEF e
<1>7. /\ piece'.written = n + 1 /\ piece'.size = piece.size /\ piece'.held = piece.held
      /\ piece'.data = piece.data
  BY <1>6 DEF TypeOK
<1>8. /\ pbuf' \in Seq(Store) /\ Len(pbuf) \in Nat /\ Len(pbuf') = Len(pbuf) + 1
      /\ \A i \in 1 .. Len(pbuf) : pbuf'[i] = pbuf[i]
      /\ pbuf'[Len(pbuf) + 1] = e
  BY <1>5, <1>6, AppendFacts DEF TypeOK
<1>9. TypeOK'
  <2>1. piece' \in [held : BOOLEAN, data : Cells, size : 0 .. Capacity, written : 0 .. Capacity]
    <3>1. n + 1 \in 0 .. Capacity
      BY <1>1, PieceType
    <3>2. QED
      BY <3>1, <1>6 DEF TypeOK
  <2>2. QED
    BY <2>1, <1>6, <1>8 DEF TypeOK
<1>10. Order' /\ Pieces' /\ ReleasesPending'
  BY <1>1, <1>6, <1>7 DEF Order, Pieces, ReleasesPending, From
<1>11. PublicationsPending'
  <2>0. \A i \in 1 .. Len(pbuf) : Distance(r, pbuf[i].val) \in Nat
    BY PendingType
  <2>1. ASSUME NEW i \in 1 .. Len(pbuf')
        PROVE  /\ Distance(r, w) <= Distance(r, pbuf'[i].val)
               /\ IsByte(pbuf'[i]) => Distance(r, pbuf'[i].val) < Distance(r, pw) + (n + 1)
               /\ ~IsByte(pbuf'[i]) => Distance(r, pbuf'[i].val) <= Distance(r, pw)
    <3>1. CASE i = Len(pbuf) + 1
      BY <3>1, <1>1, <1>3, <1>4, <1>8 DEF IsByte, From
    <3>2. CASE i \in 1 .. Len(pbuf)
      <4>1. pbuf'[i] = pbuf[i]
        BY <3>2, <1>8
      <4>2. QED
        BY <3>2, <4>1, <2>0, <1>1 DEF PublicationsPending, From
    <3>3. QED
      BY <3>1, <3>2, <1>8
  <2>2. ASSUME NEW i \in 1 .. Len(pbuf'), NEW j \in 1 .. Len(pbuf'), i < j, ~IsByte(pbuf'[i])
        PROVE  Distance(r, pbuf'[i].val) <= Distance(r, pbuf'[j].val)
    <3>1. i \in 1 .. Len(pbuf) /\ pbuf'[i] = pbuf[i]
      BY <2>2, <1>8
    <3>2. CASE j = Len(pbuf) + 1
      BY <3>1, <3>2, <2>0, <2>2, <1>1, <1>3, <1>4, <1>8 DEF PublicationsPending, From
    <3>3. CASE j \in 1 .. Len(pbuf)
      BY <3>1, <3>3, <2>2, <1>8 DEF PublicationsPending, From
    <3>4. QED
      BY <3>2, <3>3, <1>8
  <2>3. QED
    BY <2>1, <2>2, <1>6, <1>7 DEF PublicationsPending, From
<1>12. ASSUME SoundGeometry, BytesInv PROVE BytesPending'
  <2>1. e.to = Offset(v)
    BY <1>1, <1>12 DEF Pieces, WriteByte, SoundGeometry, TypeOK, e, v
  <2>2. ASSUME NEW i \in 1 .. Len(pbuf'), IsByte(pbuf'[i])
        PROVE  pbuf'[i].to = Offset(pbuf'[i].val)
    <3>1. CASE i = Len(pbuf) + 1
      BY <3>1, <2>1, <1>4, <1>8
    <3>2. CASE i \in 1 .. Len(pbuf)
      BY <3>2, <2>2, <1>8, <1>12 DEF BytesInv, BytesPending
    <3>3. QED
      BY <3>1, <3>2, <1>8
  <2>3. QED
    BY <2>2 DEF BytesPending
<1>13. ASSUME BytesInv PROVE Contents'
  <2> USE <1>13 DEF BytesInv
  <2> SUFFICES ASSUME NEW p \in Index
               PROVE  /\ Distance(r, p) < Distance(r, w) => data[Offset(p)] = p
                      /\ Distance(r, p) < Distance(r, pw) + (n + 1) =>
                           \/ data[Offset(p)] = p
                           \/ \E i \in 1 .. Len(pbuf') : IsByte(pbuf'[i]) /\ pbuf'[i].val = p
    BY <1>6, <1>7 DEF Contents, From
  <2>1. Distance(r, p) < Distance(r, w) => data[Offset(p)] = p
    BY DEF Contents, From
  <2>2. CASE Distance(r, p) < Distance(r, pw) + n
    <3>1. \/ data[Offset(p)] = p
          \/ \E i \in 1 .. Len(pbuf) : IsByte(pbuf[i]) /\ pbuf[i].val = p
      BY <2>2 DEF Contents, From
    <3>2. \A i \in 1 .. Len(pbuf) : i \in 1 .. Len(pbuf') /\ pbuf'[i] = pbuf[i]
      BY <1>8
    <3>3. QED
      BY <3>1, <3>2, <2>1
  <2>3. CASE Distance(r, p) = Distance(r, pw) + n
    <3>1. p = v
      BY <2>3, <1>2, <1>3, DistanceInjective DEF From, TypeOK
    <3>2. IsByte(pbuf'[Len(pbuf) + 1]) /\ pbuf'[Len(pbuf) + 1].val = p
      BY <3>1, <1>4, <1>8 DEF IsByte
    <3>3. Len(pbuf) + 1 \in 1 .. Len(pbuf')
      BY <1>8
    <3>4. QED
      BY <3>2, <3>3, <2>1
  <2>4. Distance(r, p) \in Nat /\ Distance(r, pw) \in Nat
    BY DistanceType DEF TypeOK
  <2>5. Distance(r, p) < Distance(r, pw) + (n + 1) =>
           Distance(r, p) < Distance(r, pw) + n \/ Distance(r, p) = Distance(r, pw) + n
    BY <2>4, <1>1
  <2>6. QED
    BY <2>1, <2>2, <2>3, <2>5
<1>14. QED
  BY <1>9, <1>10, <1>11, <1>12, <1>13 DEF BytesInv

LEMMA PushDataStep ==
  ASSUME SizesFit, RingInv, PushData
  PROVE  RingInv' /\ pw' = Wrap(pw + piece.written)
<1> USE DEF RingInv, IndexInv
<1> DEFINE n == piece.written
           v == Wrap(pw + n)
           e == [to |-> HeaderW, val |-> v]
<1>1. /\ From(cr) \in Nat /\ From(w) \in Nat /\ From(pw) \in Nat
      /\ Capacity \in Nat /\ IndexRange \in Nat /\ Capacity < IndexRange
      /\ n \in Nat /\ piece.size \in Nat /\ n <= piece.size
      /\ From(cr) <= From(w) /\ From(w) <= From(pw) /\ From(pw) + piece.size <= Capacity
      /\ writable_size(r, pw) = Capacity - From(pw)
  BY FromType DEF Order, TypeOK, SizesFit, writable_size, readable_size, From
<1>2. v \in Index
  <2>1. n \in 0 .. IndexRange - 1
    BY <1>1
  <2>2. QED
    BY <2>1, WrapType DEF TypeOK
<1>3. Distance(r, v) = From(pw) + n
  BY <1>1, DistanceForward DEF From, TypeOK
<1>4. e \in Store
  BY <1>2 DEF Store
<1> HIDE DEF v
<1>5. /\ r' = r /\ w' = w /\ pw' = v /\ cr' = cr /\ data' = data /\ cbuf' = cbuf /\ got' = got
      /\ pbuf' = Append(pbuf, e) /\ piece' = NoPiece
  BY <1>1 DEF PushData, v
<1>6. e.to = HeaderW /\ e.val = v
  OBVIOUS
<1> HIDE DEF e
<1>7. piece'.written = 0 /\ piece'.size = 0 /\ ~piece'.held
  BY <1>5 DEF NoPiece
<1>8. /\ pbuf' \in Seq(Store) /\ Len(pbuf) \in Nat /\ Len(pbuf') = Len(pbuf) + 1
      /\ \A i \in 1 .. Len(pbuf) : pbuf'[i] = pbuf[i]
      /\ pbuf'[Len(pbuf) + 1] = e
  BY <1>4, <1>5, AppendFacts DEF TypeOK
<1>9. TypeOK'
  <2>1. NoPiece \in [held : BOOLEAN, data : Cells, size : 0 .. Capacity, written : 0 .. Capacity]
    BY DEF NoPiece, Cells, SizesFit
  <2>2. QED
    BY <2>1, <1>2, <1>5, <1>8 DEF TypeOK
<1>10. Order' /\ Pieces' /\ ReleasesPending'
  <2>1. Order'
    BY <1>1, <1>3, <1>5, <1>7 DEF Order, From
  <2>2. Pieces' /\ ReleasesPending'
    BY <1>5, <1>7 DEF Pieces, ReleasesPending, From
  <2>3. QED
    BY <2>1, <2>2
<1>11. PublicationsPending'
  <2>0. \A i \in 1 .. Len(pbuf) : Distance(r, pbuf[i].val) \in Nat
    BY PendingType
  <2>1. ASSUME NEW i \in 1 .. Len(pbuf')
        PROVE  /\ Distance(r, w) <= Distance(r, pbuf'[i].val)
               /\ IsByte(pbuf'[i]) => Distance(r, pbuf'[i].val) < Distance(r, v) + 0
               /\ ~IsByte(pbuf'[i]) => Distance(r, pbuf'[i].val) <= Distance(r, v)
    <3>1. CASE i = Len(pbuf) + 1
      BY <3>1, <1>1, <1>3, <1>6, <1>8 DEF IsByte, From
    <3>2. CASE i \in 1 .. Len(pbuf)
      <4>1. pbuf'[i] = pbuf[i]
        BY <3>2, <1>8
      <4>2. QED
        BY <3>2, <4>1, <2>0, <1>1, <1>3 DEF PublicationsPending, From
    <3>3. QED
      BY <3>1, <3>2, <1>8
  <2>2. ASSUME NEW i \in 1 .. Len(pbuf'), NEW j \in 1 .. Len(pbuf'), i < j, ~IsByte(pbuf'[i])
        PROVE  Distance(r, pbuf'[i].val) <= Distance(r, pbuf'[j].val)
    <3>1. i \in 1 .. Len(pbuf) /\ pbuf'[i] = pbuf[i]
      BY <2>2, <1>8
    <3>2. CASE j = Len(pbuf) + 1
      BY <3>1, <3>2, <2>1, <2>2, <1>6, <1>8
    <3>3. CASE j \in 1 .. Len(pbuf)
      BY <3>1, <3>3, <2>2, <1>8 DEF PublicationsPending, From
    <3>4. QED
      BY <3>2, <3>3, <1>8
  <2>3. QED
    BY <2>1, <2>2, <1>5, <1>7 DEF PublicationsPending, From
<1>12. ASSUME BytesInv PROVE BytesPending'
  <2>1. ASSUME NEW i \in 1 .. Len(pbuf'), IsByte(pbuf'[i])
        PROVE  pbuf'[i].to = Offset(pbuf'[i].val)
    <3>1. i # Len(pbuf) + 1
      BY <2>1, <1>6, <1>8 DEF IsByte
    <3>2. QED
      BY <3>1, <2>1, <1>8, <1>12 DEF BytesInv, BytesPending
  <2>2. QED
    BY <2>1 DEF BytesPending
<1>13. ASSUME BytesInv PROVE Contents'
  <2> USE <1>13 DEF BytesInv
  <2> SUFFICES ASSUME NEW p \in Index
               PROVE  /\ Distance(r, p) < Distance(r, w) => data[Offset(p)] = p
                      /\ Distance(r, p) < Distance(r, v) + 0 =>
                           \/ data[Offset(p)] = p
                           \/ \E i \in 1 .. Len(pbuf') : IsByte(pbuf'[i]) /\ pbuf'[i].val = p
    BY <1>5, <1>7 DEF Contents, From
  <2>1. \A i \in 1 .. Len(pbuf) : i \in 1 .. Len(pbuf') /\ pbuf'[i] = pbuf[i]
    BY <1>8
  <2>2. Distance(r, v) + 0 = Distance(r, pw) + n
    BY <1>1, <1>3 DEF From
  <2>3. QED
    BY <2>1, <2>2 DEF Contents, From
<1>14. QED
  BY <1>5, <1>9, <1>10, <1>11, <1>12, <1>13 DEF v, BytesInv

LEMMA DrainConsumerStep ==
  ASSUME SizesFit, RingInv, DrainConsumer
  PROVE  RingInv'
<1> USE DEF RingInv, IndexInv
<1> DEFINE q == cbuf[1]
           d == Distance(r, q)
<1>1. /\ r' = q /\ cbuf' = Tail(cbuf) /\ w' = w /\ data' = data /\ pw' = pw /\ cr' = cr
      /\ pbuf' = pbuf /\ piece' = piece /\ got' = got
      /\ Len(cbuf) \in Nat /\ Len(cbuf) >= 1
      /\ q \in Index
      /\ Tail(cbuf) \in Seq(Index) /\ Len(Tail(cbuf)) = Len(cbuf) - 1
      /\ \A i \in 1 .. Len(cbuf) - 1 : Tail(cbuf)[i] = cbuf[i + 1]
  BY TailFacts DEF DrainConsumer, TypeOK
<1>2. /\ From(cr) \in Nat /\ From(w) \in Nat /\ From(pw) \in Nat /\ d \in Nat
      /\ d <= From(cr) /\ From(cr) <= From(w) /\ From(w) <= From(pw)
      /\ piece.written \in Nat /\ piece.size \in Nat /\ got.size \in Nat
      /\ piece.written <= piece.size /\ From(pw) + piece.size <= Capacity
      /\ Capacity \in Nat /\ IndexRange \in Nat /\ Capacity < IndexRange
  <2>1. d \in Nat
    BY <1>1, DistanceType DEF TypeOK
  <2>2. d <= From(cr)
    BY <1>1 DEF ReleasesPending, From
  <2>3. QED
    BY <2>1, <2>2, FromType DEF Order, TypeOK, SizesFit
<1>3. \A x \in Index : d <= Distance(r, x) => Distance(q, x) = Distance(r, x) - d
  BY <1>1, DistanceRebase DEF TypeOK
<1>4. \A x \in Index : Distance(r, x) < d => Distance(q, x) = IndexRange + Distance(r, x) - d
  BY <1>1, DistanceRebaseBefore DEF TypeOK
<1>5. \A x \in Index : Distance(r, x) \in Nat
  BY DistanceType DEF TypeOK
<1>6. /\ Distance(q, cr) = Distance(r, cr) - d
      /\ Distance(q, w) = Distance(r, w) - d
      /\ Distance(q, pw) = Distance(r, pw) - d
  BY <1>2, <1>3 DEF From, TypeOK
<1>7. TypeOK'
  BY <1>1 DEF TypeOK
<1> HIDE DEF q, d
<1>8. Order' /\ Pieces'
  <2>1. Order'
    <3>1. Distance(q, cr) <= Distance(q, w) /\ Distance(q, w) <= Distance(q, pw)
      BY <1>2, <1>6 DEF From
    <3>2. Distance(q, pw) + piece.size <= Capacity
      BY <1>2, <1>6 DEF From
    <3>3. QED
      BY <1>1, <1>2, <3>1, <3>2 DEF Order, From
  <2>2. Pieces'
    BY <1>1, <1>2, <1>6 DEF Pieces, From
  <2>3. QED
    BY <2>1, <2>2
<1>9. ReleasesPending'
  <2>1. \A i \in 1 .. Len(cbuf) : /\ cbuf[i] \in Index
                                 /\ d <= Distance(r, cbuf[i])
                                 /\ Distance(r, cbuf[i]) <= Distance(r, cr)
    BY <1>1 DEF ReleasesPending, From, TypeOK, d, q
  <2>2. \A i \in 1 .. Len(cbuf) : Distance(q, cbuf[i]) = Distance(r, cbuf[i]) - d
    BY <2>1, <1>3
  <2>3. \A i \in 1 .. Len(cbuf') : i + 1 \in 1 .. Len(cbuf) /\ cbuf'[i] = cbuf[i + 1]
    BY <1>1
  <2>4. ASSUME NEW i \in 1 .. Len(cbuf')
        PROVE  Distance(q, cbuf'[i]) <= Distance(q, cr)
    <3>1. i + 1 \in 1 .. Len(cbuf) /\ cbuf'[i] = cbuf[i + 1]
      BY <2>3
    <3>2. Distance(q, cbuf[i + 1]) = Distance(r, cbuf[i + 1]) - d
      BY <3>1, <2>2
    <3>3. Distance(r, cbuf[i + 1]) <= Distance(r, cr) /\ Distance(r, cbuf[i + 1]) \in Nat
      BY <3>1, <2>1, <1>5
    <3>4. QED
      BY <3>1, <3>2, <3>3, <1>2, <1>6 DEF From
  <2>5. ASSUME NEW i \in 1 .. Len(cbuf'), NEW j \in 1 .. Len(cbuf'), i <= j
        PROVE  Distance(q, cbuf'[i]) <= Distance(q, cbuf'[j])
    <3>1. i + 1 <= j + 1 /\ i + 1 \in 1 .. Len(cbuf) /\ j + 1 \in 1 .. Len(cbuf)
      BY <2>3, <2>5, <1>1
    <3>2. Distance(r, cbuf[i + 1]) <= Distance(r, cbuf[j + 1])
      BY <3>1 DEF ReleasesPending, From
    <3>3. /\ Distance(r, cbuf[i + 1]) \in Nat /\ Distance(r, cbuf[j + 1]) \in Nat
          /\ Distance(q, cbuf[i + 1]) = Distance(r, cbuf[i + 1]) - d
          /\ Distance(q, cbuf[j + 1]) = Distance(r, cbuf[j + 1]) - d
          /\ cbuf'[i] = cbuf[i + 1] /\ cbuf'[j] = cbuf[j + 1]
      BY <3>1, <2>1, <2>2, <2>3, <1>5
    <3>4. QED
      BY <3>2, <3>3, <1>2
  <2>6. QED
    BY <2>4, <2>5, <1>1 DEF ReleasesPending, From
<1>10. PublicationsPending'
  <2>1. \A i \in 1 .. Len(pbuf) : /\ pbuf[i].val \in Index
                                 /\ Distance(r, pbuf[i].val) \in Nat
                                 /\ d <= Distance(r, pbuf[i].val)
    <3>1. \A i \in 1 .. Len(pbuf) : pbuf[i].val \in Index
      BY PendingType
    <3>2. \A i \in 1 .. Len(pbuf) : From(w) <= From(pbuf[i].val)
      BY DEF PublicationsPending
    <3>3. QED
      BY <3>1, <3>2, <1>2, <1>5 DEF From
  <2>2. \A i \in 1 .. Len(pbuf) : Distance(q, pbuf[i].val) = Distance(r, pbuf[i].val) - d
    BY <2>1, <1>3
  <2>3. ASSUME NEW i \in 1 .. Len(pbuf)
        PROVE  /\ Distance(q, w) <= Distance(q, pbuf[i].val)
               /\ IsByte(pbuf[i]) => Distance(q, pbuf[i].val) < Distance(q, pw) + piece.written
               /\ ~IsByte(pbuf[i]) => Distance(q, pbuf[i].val) <= Distance(q, pw)
    <3>1. /\ Distance(r, w) <= Distance(r, pbuf[i].val)
          /\ IsByte(pbuf[i]) => Distance(r, pbuf[i].val) < Distance(r, pw) + piece.written
          /\ ~IsByte(pbuf[i]) => Distance(r, pbuf[i].val) <= Distance(r, pw)
      BY DEF PublicationsPending, From
    <3>2. /\ Distance(q, pbuf[i].val) = Distance(r, pbuf[i].val) - d
          /\ Distance(r, pbuf[i].val) \in Nat
      BY <2>1, <2>2
    <3>3. \A x, y \in Nat : /\ x <= y => x - d <= y - d
                            /\ x < y + piece.written => x - d < (y - d) + piece.written
      <4>1. d \in Int /\ piece.written \in Int
        BY <1>2
      <4>2. \A m, k \in Int, x, y \in Nat : /\ x <= y => x - m <= y - m
                                          /\ x < y + k => x - m < (y - m) + k
        OBVIOUS
      <4>3. QED
        BY <4>1, <4>2
    <3>4. Distance(r, w) \in Nat /\ Distance(r, pw) \in Nat
      BY <1>2 DEF From
    <3>5. QED
      BY <3>1, <3>2, <3>3, <3>4, <1>6
  <2>4. ASSUME NEW i \in 1 .. Len(pbuf), NEW j \in 1 .. Len(pbuf), i < j, ~IsByte(pbuf[i])
        PROVE  Distance(q, pbuf[i].val) <= Distance(q, pbuf[j].val)
    BY <2>1, <2>2, <2>4, <1>2 DEF PublicationsPending, From
  <2>5. QED
    BY <2>3, <2>4, <1>1 DEF PublicationsPending, From
<1>11. ASSUME BytesInv PROVE Contents'
  <2> USE <1>11 DEF BytesInv
  <2> SUFFICES ASSUME NEW p \in Index
               PROVE  /\ Distance(q, p) < Distance(q, w) => data[Offset(p)] = p
                      /\ Distance(q, p) < Distance(q, pw) + piece.written =>
                           \/ data[Offset(p)] = p
                           \/ \E i \in 1 .. Len(pbuf) : IsByte(pbuf[i]) /\ pbuf[i].val = p
    BY <1>1 DEF Contents, From
  <2>1. CASE d <= Distance(r, p)
    <3>1. Distance(q, p) = Distance(r, p) - d
      BY <2>1, <1>3
    <3>2. /\ Distance(q, p) < Distance(q, w) => Distance(r, p) < Distance(r, w)
          /\ Distance(q, p) < Distance(q, pw) + piece.written =>
               Distance(r, p) < Distance(r, pw) + piece.written
      BY <3>1, <1>2, <1>5, <1>6 DEF From
    <3>3. QED
      BY <3>2 DEF Contents, From
  <2>2. CASE Distance(r, p) < d
    <3>1. Distance(q, p) = IndexRange + Distance(r, p) - d
      BY <2>2, <1>4
    <3>2. /\ ~(Distance(q, p) < Distance(q, w))
          /\ ~(Distance(q, p) < Distance(q, pw) + piece.written)
      BY <3>1, <1>2, <1>5, <1>6 DEF From
    <3>3. QED
      BY <3>2
  <2>3. QED
    BY <2>1, <2>2, <1>2, <1>5
<1>12. BytesInv => BytesPending'
  BY <1>1 DEF BytesInv, BytesPending
<1>13. QED
  BY <1>7, <1>8, <1>9, <1>10, <1>11, <1>12 DEF BytesInv

LEMMA DrainProducerStep ==
  ASSUME SizesFit, RingInv, DrainProducer
  PROVE  RingInv'
<1> USE DEF RingInv, IndexInv
<1> DEFINE v == pbuf[1].val
<1>1. /\ pbuf' = Tail(pbuf) /\ r' = r /\ pw' = pw /\ cr' = cr
      /\ cbuf' = cbuf /\ piece' = piece /\ got' = got
      /\ Len(pbuf) \in Nat /\ Len(pbuf) >= 1 /\ pbuf[1] \in Store
      /\ pbuf' \in Seq(Store) /\ Len(pbuf') = Len(pbuf) - 1
      /\ \A i \in 1 .. Len(pbuf) - 1 : pbuf'[i] = pbuf[i + 1]
      /\ IF IsByte(pbuf[1]) THEN data' = [data EXCEPT ![pbuf[1].to] = v] /\ w' = w
                            ELSE w' = v /\ data' = data
  BY TailFacts DEF DrainProducer, TypeOK, IsByte
<1>2. 1 \in 1 .. Len(pbuf) /\ v \in Index /\ Distance(r, v) \in Nat
  BY <1>1, PendingType
<1>3. /\ Distance(r, cr) \in Nat /\ Distance(r, w) \in Nat /\ Distance(r, pw) \in Nat
      /\ Distance(r, cr) <= Distance(r, w) /\ Distance(r, w) <= Distance(r, pw)
      /\ piece.written \in Nat /\ piece.size \in Nat /\ got.size \in Nat
      /\ piece.written <= piece.size /\ Distance(r, pw) + piece.size <= Capacity
      /\ Capacity \in Nat
  BY FromType, PieceType DEF Order, SizesFit, From
<1>4. /\ Distance(r, w) <= Distance(r, v)
      /\ IsByte(pbuf[1]) => Distance(r, v) < Distance(r, pw) + piece.written
      /\ ~IsByte(pbuf[1]) => Distance(r, v) <= Distance(r, pw)
  BY <1>2 DEF PublicationsPending, From
<1>5. \A i \in 1 .. Len(pbuf') : i + 1 \in 1 .. Len(pbuf) /\ pbuf'[i] = pbuf[i + 1]
  BY <1>1
<1>6. \A i \in 1 .. Len(pbuf) : i # 1 => i - 1 \in 1 .. Len(pbuf') /\ pbuf'[i - 1] = pbuf[i]
  BY <1>1
<1>7. \A i, j \in 1 .. Len(pbuf') :
         i < j /\ ~IsByte(pbuf'[i]) => Distance(r, pbuf'[i].val) <= Distance(r, pbuf'[j].val)
  <2> SUFFICES ASSUME NEW i \in 1 .. Len(pbuf'), NEW j \in 1 .. Len(pbuf'),
                      i < j, ~IsByte(pbuf'[i])
               PROVE  Distance(r, pbuf'[i].val) <= Distance(r, pbuf'[j].val)
    OBVIOUS
  <2>1. /\ i + 1 < j + 1 /\ i + 1 \in 1 .. Len(pbuf) /\ j + 1 \in 1 .. Len(pbuf)
        /\ pbuf'[i] = pbuf[i + 1] /\ pbuf'[j] = pbuf[j + 1]
    BY <1>1, <1>5
  <2>2. QED
    BY <2>1 DEF PublicationsPending, From
<1> BytesInv => BytesPending'
  BY <1>5 DEF BytesInv, BytesPending
<1> HIDE DEF v
<1>8. CASE ~IsByte(pbuf[1])
  <2>1. w' = v /\ data' = data /\ Distance(r, v) <= Distance(r, pw)
    BY <1>8, <1>1, <1>4
  <2>2. TypeOK'
    BY <2>1, <1>1, <1>2 DEF TypeOK
  <2>3. Order' /\ Pieces' /\ ReleasesPending'
    <3>1. Order'
      BY <2>1, <1>1, <1>2, <1>3, <1>4 DEF Order, From
    <3>2. Pieces'
      BY <2>1, <1>1, <1>2, <1>3, <1>4 DEF Pieces, From
    <3>3. ReleasesPending'
      BY <1>1 DEF ReleasesPending, From
    <3>4. QED
      BY <3>1, <3>2, <3>3
  <2>4. PublicationsPending'
    <3>1. ASSUME NEW i \in 1 .. Len(pbuf')
          PROVE  /\ Distance(r, v) <= Distance(r, pbuf'[i].val)
                 /\ IsByte(pbuf'[i]) =>
                      Distance(r, pbuf'[i].val) < Distance(r, pw) + piece.written
                 /\ ~IsByte(pbuf'[i]) => Distance(r, pbuf'[i].val) <= Distance(r, pw)
      <4>1. 1 < i + 1 /\ i + 1 \in 1 .. Len(pbuf) /\ pbuf'[i] = pbuf[i + 1]
        BY <1>1, <1>5
      <4>2. Distance(r, v) <= Distance(r, pbuf[i + 1].val)
        BY <4>1, <1>2, <1>8 DEF PublicationsPending, From, v
      <4>3. QED
        BY <4>1, <4>2 DEF PublicationsPending, From
    <3>2. QED
      BY <3>1, <1>1, <1>7, <2>1 DEF PublicationsPending, From
  <2>5. ASSUME BytesInv PROVE Contents'
    <3> USE <2>5 DEF BytesInv
    <3> SUFFICES ASSUME NEW p \in Index
                 PROVE  /\ Distance(r, p) < Distance(r, v) => data[Offset(p)] = p
                        /\ Distance(r, p) < Distance(r, pw) + piece.written =>
                             \/ data[Offset(p)] = p
                             \/ \E i \in 1 .. Len(pbuf') : IsByte(pbuf'[i]) /\ pbuf'[i].val = p
      BY <2>1, <1>1 DEF Contents, From
    <3>1. Distance(r, p) \in Nat
      BY DistanceType DEF TypeOK
    <3>2. Distance(r, p) < Distance(r, pw) + piece.written =>
             \/ data[Offset(p)] = p
             \/ \E i \in 1 .. Len(pbuf) : i # 1 /\ IsByte(pbuf[i]) /\ pbuf[i].val = p
      BY <1>8 DEF Contents, From
    <3>3. \A i \in 1 .. Len(pbuf) : i # 1 => Distance(r, v) <= Distance(r, pbuf[i].val)
      BY <1>2, <1>8, <1>1 DEF PublicationsPending, From, v
    <3>4. Distance(r, p) < Distance(r, v) => data[Offset(p)] = p
      BY <3>1, <3>2, <3>3, <2>1, <1>2, <1>3
    <3>5. QED
      BY <3>2, <3>4, <1>6
  <2>6. QED
    BY <2>2, <2>3, <2>4, <2>5 DEF BytesInv
<1>9. CASE IsByte(pbuf[1])
  <2>1. /\ w' = w /\ data' = [data EXCEPT ![pbuf[1].to] = v]
        /\ Distance(r, v) < Distance(r, pw) + piece.written
        /\ pbuf[1].to \in Cells
    BY <1>9, <1>1, <1>4 DEF Store, IsByte
  <2>2. TypeOK'
    BY <2>1, <1>1, <1>2 DEF TypeOK
  <2>3. Order' /\ Pieces' /\ ReleasesPending'
    BY <2>1, <1>1 DEF Order, Pieces, ReleasesPending, From
  <2>4. PublicationsPending'
    <3>1. ASSUME NEW i \in 1 .. Len(pbuf')
          PROVE  /\ Distance(r, w) <= Distance(r, pbuf'[i].val)
                 /\ IsByte(pbuf'[i]) =>
                      Distance(r, pbuf'[i].val) < Distance(r, pw) + piece.written
                 /\ ~IsByte(pbuf'[i]) => Distance(r, pbuf'[i].val) <= Distance(r, pw)
      BY <1>5 DEF PublicationsPending, From
    <3>2. QED
      BY <3>1, <1>1, <1>7, <2>1 DEF PublicationsPending, From
  <2>5. ASSUME SoundGeometry, BytesInv PROVE Contents'
    <3> USE <2>5 DEF BytesInv
    <3>0. data' = [data EXCEPT ![Offset(v)] = v] /\ Offset(v) \in Cells
      BY <2>1, <1>2, <1>9 DEF BytesPending, v
    <3> SUFFICES ASSUME NEW p \in Index
                 PROVE  /\ Distance(r, p) < Distance(r, w) => data'[Offset(p)] = p
                        /\ Distance(r, p) < Distance(r, pw) + piece.written =>
                             \/ data'[Offset(p)] = p
                             \/ \E i \in 1 .. Len(pbuf') : IsByte(pbuf'[i]) /\ pbuf'[i].val = p
      BY <2>1, <1>1 DEF Contents, From
    <3>1. Distance(r, p) \in Nat /\ Offset(p) \in Cells
      BY DistanceType DEF TypeOK, SizesFit
    <3>2. CASE p = v
      <4>1. data'[Offset(p)] = p
        BY <3>2, <3>0 DEF TypeOK
      <4>2. QED
        BY <4>1
    <3>3. CASE p # v
      <4>1. Distance(r, p) < Capacity => data'[Offset(p)] = data[Offset(p)]
        <5>1. Distance(r, v) < Capacity
          BY <2>1, <1>2, <1>3
        <5>2. Distance(r, p) < Capacity => Offset(p) # Offset(v)
          BY <5>1, <3>3, <1>2, OffsetInjective DEF TypeOK, SoundGeometry
        <5>3. QED
          BY <5>2, <3>0, <3>1 DEF TypeOK
      <4>2. /\ Distance(r, p) < Distance(r, w) => Distance(r, p) < Capacity
            /\ Distance(r, p) < Distance(r, pw) + piece.written => Distance(r, p) < Capacity
        BY <3>1, <1>3
      <4>3. Distance(r, p) < Distance(r, w) => data'[Offset(p)] = p
        BY <4>1, <4>2 DEF Contents, From
      <4>4. Distance(r, p) < Distance(r, pw) + piece.written =>
               \/ data[Offset(p)] = p
               \/ \E i \in 1 .. Len(pbuf) : i # 1 /\ IsByte(pbuf[i]) /\ pbuf[i].val = p
        BY <3>3 DEF Contents, From, v
      <4>5. QED
        BY <4>1, <4>2, <4>3, <4>4, <1>6
    <3>4. QED
      BY <3>2, <3>3
  <2>6. QED
    BY <2>2, <2>3, <2>4, <2>5 DEF BytesInv
<1>10. QED
  BY <1>8, <1>9

-----------------------------------------------------------------------------
LEMMA RingInvInit ==
  ASSUME SizesFit, Init
  PROVE  RingInv
<1>1. TypeOK
  BY DEF Init, TypeOK, SizesFit, Index, Cells, NoPiece, NothingGot
<1>2. From(w) = 0 /\ From(cr) = 0 /\ From(pw) = 0
  BY <1>1, FromType DEF Init, From
<1>3. Len(pbuf) = 0 /\ Len(cbuf) = 0 /\ piece = NoPiece /\ got = NothingGot
  BY DEF Init
<1>4. Order /\ Pieces
  BY <1>2, <1>3 DEF Order, Pieces, NoPiece, NothingGot, SizesFit
<1>5. ReleasesPending /\ PublicationsPending
  BY <1>3 DEF ReleasesPending, PublicationsPending
<1>6. \A p \in Index : From(p) \in Nat
  BY <1>1, FromType
<1>7. Contents
  BY <1>2, <1>3, <1>6 DEF Contents, NoPiece
<1>8. BytesPending
  BY <1>3 DEF BytesPending
<1>9. QED
  BY <1>1, <1>4, <1>5, <1>7, <1>8 DEF RingInv, IndexInv, BytesInv

LEMMA RingInvStep ==
  ASSUME SizesFit, RingInv, [Next]_vars
  PROVE  RingInv'
<1>1. CASE GetWritable
  BY <1>1, GetWritableStep
<1>2. CASE WriteByte
  BY <1>2, WriteByteStep
<1>3. CASE PushData
  BY <1>3, PushDataStep
<1>4. CASE GetReadable
  BY <1>4, GetReadableStep
<1>5. ASSUME NEW asked \in 0 .. Capacity + 1, PopData(asked)
      PROVE  RingInv'
  BY <1>5, PopDataStep
<1>6. CASE DrainProducer
  BY <1>6, DrainProducerStep
<1>7. CASE DrainConsumer
  BY <1>7, DrainConsumerStep
<1>8. CASE UNCHANGED vars
  BY <1>8 DEF vars, RingInv, IndexInv, TypeOK, Order, Pieces, ReleasesPending,
              PublicationsPending, BytesInv, BytesPending, Contents, From, IsByte
<1>9. QED
  BY <1>1, <1>2, <1>3, <1>4, <1>5, <1>6, <1>7, <1>8 DEF Next, Producer, Consumer

(* Every reachable state of the ring satisfies the inductive invariant:    *)
(* whatever the two threads and the store buffers of their processors do,  *)
(* the indices keep their order, for every capacity, and, where buffer_pos *)
(* gives every unread byte a cell of its own, every byte between r and w   *)
(* is in memory before w says so.                                          *)
THEOREM RingInvariant == Spec => []RingInv
<1> SizesFit
  BY Sizes
<1>1. Init => RingInv
  BY RingInvInit
<1>2. RingInv /\ [Next]_vars => RingInv'
  BY RingInvStep
<1>3. QED
  BY <1>1, <1>2, PTL DEF Spec

(* A cell of a piece is the cell of an index. *)
LEMMA PieceCell ==
  ASSUME SizesFit, SoundGeometry, NEW p \in Index, NEW i \in Cells
  PROVE  Cell(Offset(p) + i) = Offset(Wrap(p + i)) /\ Wrap(p + i) \in Index
  BY WrapType DEF SizesFit, SoundGeometry, Cells

(* Lock-free reading, where the capacity is a power of two: the bytes of   *)
(* the piece that circular_buffer_get_readable returned are the bytes of   *)
(* the stream until pop_data gives them up, although neither index is      *)
(* atomic.                                                                 *)
THEOREM ReadableIsTheStream ==
  ASSUME PowerOfTwoCapacity
  PROVE  Spec => []ReadableHoldsStream
<1> SizesFit /\ SoundGeometry
  BY Sizes, Geometry
<1>1. RingInv => ReadableHoldsStream
  <2> SUFFICES ASSUME RingInv, got.held, NEW i \in 0 .. got.size - 1
               PROVE  data[Cell(got.data + i)] = Wrap(cr + i)
    BY DEF ReadableHoldsStream
  <2> USE DEF RingInv, IndexInv, BytesInv
  <2>1. /\ got.data = Offset(cr) /\ cr \in Index
        /\ Distance(r, cr) + got.size <= Distance(r, w)
    BY DEF Pieces, TypeOK, From
  <2>2. /\ got.size \in 0 .. Capacity /\ i \in Nat /\ i < got.size /\ i \in Cells
        /\ Distance(r, cr) \in Nat /\ Distance(r, w) \in Nat /\ Distance(r, w) < IndexRange
        /\ IndexRange \in Nat
    <3>1. got.size \in 0 .. Capacity /\ Capacity \in Nat /\ IndexRange \in Nat
      BY PieceType DEF SizesFit
    <3>2. i \in Nat /\ i < got.size /\ i \in Cells
      BY <3>1 DEF Cells
    <3>3. QED
      BY <3>1, <3>2, FromType DEF From, TypeOK
  <2>3. Cell(got.data + i) = Offset(Wrap(cr + i)) /\ Wrap(cr + i) \in Index
    BY <2>1, <2>2, PieceCell
  <2>4. Distance(r, Wrap(cr + i)) = Distance(r, cr) + i
    <3>1. Distance(r, cr) + i < IndexRange
      BY <2>1, <2>2
    <3>2. QED
      BY <3>1, <2>1, <2>2, DistanceForward DEF TypeOK
  <2>5. Distance(r, Wrap(cr + i)) < Distance(r, w)
    BY <2>1, <2>2, <2>4
  <2>6. QED
    BY <2>3, <2>5 DEF Contents, From
<1>2. QED
  BY <1>1, RingInvariant, PTL

(* Where the capacity is a power of two, the producer and the consumer     *)
(* never hold a byte at the same time: the pieces of get_writable and      *)
(* get_readable are disjoint.                                              *)
THEOREM PiecesAreDisjoint ==
  ASSUME PowerOfTwoCapacity
  PROVE  Spec => []PiecesDisjoint
<1> SizesFit /\ SoundGeometry
  BY Sizes, Geometry
<1>1. RingInv => PiecesDisjoint
  <2> SUFFICES ASSUME RingInv, piece.held, got.held,
                      NEW i \in 0 .. piece.size - 1, NEW j \in 0 .. got.size - 1
               PROVE  Cell(piece.data + i) # Cell(got.data + j)
    BY DEF PiecesDisjoint
  <2> USE DEF RingInv, IndexInv, BytesInv
  <2>1. /\ got.data = Offset(cr) /\ cr \in Index /\ piece.data = Offset(pw) /\ pw \in Index
        /\ r \in Index
        /\ Distance(r, cr) + got.size <= Distance(r, w)
        /\ Distance(r, w) <= Distance(r, pw)
        /\ Distance(r, pw) + piece.size <= Capacity
    BY DEF Pieces, TypeOK, From, Order
  <2>2. /\ got.size \in 0 .. Capacity /\ j \in Nat /\ j < got.size /\ j \in Cells
        /\ piece.size \in 0 .. Capacity /\ i \in Nat /\ i < piece.size /\ i \in Cells
        /\ Capacity \in Nat /\ IndexRange \in Nat /\ Capacity < IndexRange
    <3>1. /\ got.size \in 0 .. Capacity /\ piece.size \in 0 .. Capacity
          /\ Capacity \in Nat /\ IndexRange \in Nat /\ Capacity < IndexRange
      BY PieceType DEF SizesFit
    <3>2. QED
      BY <3>1 DEF Cells
  <2>3. Distance(r, cr) \in Nat /\ Distance(r, w) \in Nat /\ Distance(r, pw) \in Nat
    BY FromType DEF From
  <2> DEFINE x == Wrap(pw + i)
             y == Wrap(cr + j)
  <2>4. /\ Cell(piece.data + i) = Offset(x) /\ x \in Index
        /\ Cell(got.data + j) = Offset(y) /\ y \in Index
    BY <2>1, <2>2, PieceCell
  <2>5. /\ Distance(r, x) = Distance(r, pw) + i
        /\ Distance(r, y) = Distance(r, cr) + j
    <3>1. Distance(r, pw) + i < IndexRange /\ Distance(r, cr) + j < IndexRange
      BY <2>1, <2>2, <2>3
    <3>2. QED
      BY <3>1, <2>1, <2>2, DistanceForward
  <2> HIDE DEF x, y
  <2>6. /\ Distance(r, x) < Capacity /\ Distance(r, y) < Capacity
        /\ Distance(r, x) # Distance(r, y)
    BY <2>1, <2>2, <2>3, <2>5
  <2>7. QED
    BY <2>1, <2>4, <2>6, OffsetInjective DEF SoundGeometry
<1>2. QED
  BY <1>1, RingInvariant, PTL

(* For every capacity, circular_buffer_push_data publishes all that was    *)
(* written into the piece it follows: its second reading of the indices    *)
(* never cuts the size down.                                               *)
THEOREM PushPublishesAll == Spec => PushNeverShort
<1> SizesFit
  BY Sizes
<1> DEFINE Push == piece.held /\ ~piece'.held => pw' = Wrap(pw + piece.written)
<1>1. RingInv /\ [Next]_vars => [Push]_vars
  <2> SUFFICES ASSUME RingInv, Next
               PROVE  Push
    OBVIOUS
  <2>1. CASE PushData
    BY <2>1, PushDataStep
  <2>2. CASE GetWritable
    BY <2>2 DEF GetWritable
  <2>3. CASE WriteByte
    BY <2>3 DEF WriteByte, RingInv, IndexInv, TypeOK
  <2>4. CASE Consumer \/ DrainProducer \/ DrainConsumer
    BY <2>4 DEF Consumer, GetReadable, PopData, DrainProducer, DrainConsumer
  <2>5. QED
    BY <2>1, <2>2, <2>3, <2>4 DEF Next, Producer
<1>2. QED
  BY <1>1, RingInvariant, PTL DEF Spec, PushNeverShort
-----------------------------------------------------------------------------
(* The refinement: the bytes in memory between r and w are the channel. *)

Chan == [i \in 1 .. readable_size(r, w) |-> data[Cell(Offset(r) + i - 1)]]

(* The stream from index a up to index b. *)
Stream(a, b) == [i \in 1 .. Distance(a, b) |-> Wrap(a + i - 1)]

(* The n positions from b on, as the channel counts them. *)
Following(b, n) == [i \in 1 .. n |-> (b + i - 1) % IndexRange]

LEMMA WrapIsRemainder ==
  ASSUME SizesFit, NEW a \in Index, NEW n \in 0 .. IndexRange
  PROVE  Wrap(a + n) = (a + n) % IndexRange
<1>1. /\ IndexRange \in Nat /\ 0 < IndexRange /\ a + n \in Nat
      /\ a + n < IndexRange + IndexRange
  BY DEF SizesFit, Index
<1>2. \A m, k \in Nat : 0 < m /\ k < m => k % m = k
  OBVIOUS
<1>3. \A m, k \in Nat : 0 < m /\ m <= k /\ k < m + m => k % m = k - m
  OBVIOUS
<1>4. QED
  BY <1>1, <1>2, <1>3 DEF Wrap

LEMMA StreamType ==
  ASSUME SizesFit, NEW a \in Index, NEW b \in Index
  PROVE  /\ Stream(a, b) \in Seq(Index)
         /\ Distance(a, b) \in Nat /\ Len(Stream(a, b)) = Distance(a, b)
         /\ \A i \in 1 .. Distance(a, b) : Stream(a, b)[i] = Wrap(a + i - 1)
<1>1. Distance(a, b) \in Nat /\ Distance(a, b) \in Index
  BY DistanceType
<1>2. \A i \in 1 .. Distance(a, b) : Wrap(a + i - 1) \in Index
  BY <1>1 DEF SizesFit, Index, Wrap
<1>3. QED
  BY <1>1, <1>2 DEF Stream

(* Cells that hold what belongs between a and b hold the stream. *)
LEMMA CellsHoldStream ==
  ASSUME SizesFit, SoundGeometry, NEW a \in Index, NEW b \in Index, NEW mem,
         Distance(a, b) <= Capacity,
         \A p \in Index : Distance(a, p) < Distance(a, b) => mem[Offset(p)] = p
  PROVE  [i \in 1 .. Distance(a, b) |-> mem[Cell(Offset(a) + i - 1)]] = Stream(a, b)
<1>1. /\ Distance(a, b) \in Nat /\ Distance(a, b) < IndexRange /\ Distance(a, a) = 0
      /\ IndexRange \in Nat /\ Capacity \in Nat
  BY DistanceType DEF SizesFit, Index
<1>2. ASSUME NEW i \in 1 .. Distance(a, b)
      PROVE  mem[Cell(Offset(a) + i - 1)] = Wrap(a + i - 1)
  <2> DEFINE k == i - 1
  <2>1. k \in Cells /\ k \in Nat /\ k < Distance(a, b)
    BY <1>1 DEF Cells
  <2>2. Cell(Offset(a) + k) = Offset(Wrap(a + k)) /\ Wrap(a + k) \in Index
    BY <2>1, PieceCell
  <2>3. Distance(a, Wrap(a + k)) = k
    BY <2>1, <1>1, DistanceForward
  <2>4. mem[Offset(Wrap(a + k))] = Wrap(a + k)
    BY <2>1, <2>2, <2>3
  <2>5. Offset(a) + i - 1 = Offset(a) + k /\ a + i - 1 = a + k
    BY <1>1 DEF SizesFit, Cells, Index
  <2>6. QED
    BY <2>2, <2>4, <2>5
<1>3. QED
  BY <1>2 DEF Stream

(* A store to w appends what lies between, *)
LEMMA StreamAppend ==
  ASSUME SizesFit, NEW a \in Index, NEW b \in Index, NEW c \in Index,
         NEW n \in Nat, Distance(a, c) = Distance(a, b) + n
  PROVE  /\ Stream(a, c) = Stream(a, b) \o Following(b, n)
         /\ c = (b + n) % IndexRange
<1> DEFINE d == Distance(a, b)
           tail == [i \in 1 .. n |-> (b + i - 1) % IndexRange]
<1>1. /\ d \in Nat /\ d + n < IndexRange /\ IndexRange \in Nat /\ n \in 0 .. IndexRange
      /\ Distance(a, c) \in Nat
  <2>1. d \in Nat /\ Distance(a, c) \in Index /\ IndexRange \in Nat
    BY DistanceType DEF SizesFit
  <2>2. QED
    BY <2>1 DEF Index
<1>2. \A i \in 1 .. n : tail[i] = Wrap(b + (i - 1)) /\ tail[i] \in Index
  <2> SUFFICES ASSUME NEW i \in 1 .. n
               PROVE  tail[i] = Wrap(b + (i - 1)) /\ tail[i] \in Index
    OBVIOUS
  <2>1. i - 1 \in 0 .. IndexRange - 1 /\ i - 1 \in 0 .. IndexRange /\ b + i - 1 = b + (i - 1)
    BY <1>1 DEF Index
  <2>2. tail[i] = (b + (i - 1)) % IndexRange
    BY <2>1
  <2> HIDE DEF tail
  <2>3. QED
    BY <2>1, <2>2, WrapIsRemainder, WrapType
<1>3. tail \in Seq(Index) /\ Len(tail) = n
  BY <1>2
<1>4. \A i \in 1 .. n : Wrap(a + (d + i) - 1) = Wrap(b + (i - 1))
  BY <1>1 DEF SizesFit, Index, Distance, Wrap
<1> HIDE DEF tail
<1>5. Stream(a, c) = Stream(a, b) \o tail
  <2> DEFINE s == Stream(a, c)
             t == Stream(a, b)
  <2>1. /\ s \in Seq(Index) /\ Len(s) = d + n
        /\ \A i \in 1 .. d + n : s[i] = Wrap(a + i - 1)
    BY StreamType
  <2>2. /\ t \in Seq(Index) /\ Len(t) = d
        /\ \A i \in 1 .. d : t[i] = Wrap(a + i - 1)
    BY StreamType
  <2> HIDE DEF s, t, d
  <2>3. /\ t \o tail \in Seq(Index) /\ Len(t \o tail) = d + n
        /\ \A i \in 1 .. d + n : (t \o tail)[i] = IF i <= d THEN t[i] ELSE tail[i - d]
    BY <2>2, <1>3, <1>1
  <2>4. ASSUME NEW i \in 1 .. d + n
        PROVE  s[i] = (t \o tail)[i]
    <3>1. CASE i <= d
      BY <3>1, <2>1, <2>2, <2>3, <1>1
    <3>2. CASE d < i
      <4>1. i - d \in 1 .. n /\ d + (i - d) = i
        BY <3>2, <1>1
      <4>2. tail[i - d] = Wrap(b + ((i - d) - 1)) /\ Wrap(a + i - 1) = Wrap(b + ((i - d) - 1))
        BY <4>1, <1>2, <1>4
      <4>3. s[i] = Wrap(a + i - 1)
        BY <2>1
      <4>4. (t \o tail)[i] = tail[i - d]
        BY <2>3, <3>2, <1>1
      <4>5. QED
        BY <4>2, <4>3, <4>4
    <3>3. i <= d \/ d < i
      BY <1>1
    <3>4. QED
      BY <3>1, <3>2, <3>3
  <2>5. s = t \o tail
    BY <2>1, <2>3, <2>4, SeqEqual
  <2>6. QED
    BY <2>5 DEF s, t
<1>6. c = (b + n) % IndexRange
  <2>1. c = Wrap(b + n)
    BY <1>1 DEF SizesFit, Index, Distance, Wrap
  <2>2. QED
    BY <2>1, <1>1, WrapIsRemainder
<1>7. QED
  BY <1>5, <1>6 DEF tail, Following

(* and a store to r cuts off what lies before it. *)
LEMMA StreamCut ==
  ASSUME SizesFit, NEW a \in Index, NEW b \in Index, NEW q \in Index,
         Distance(a, q) <= Distance(a, b)
  PROVE  Stream(q, b) = SubSeq(Stream(a, b), Distance(a, q) + 1, Len(Stream(a, b)))
<1> DEFINE d == Distance(a, q)
           s == Stream(a, b)
           t == Stream(q, b)
<1>1. d \in Nat /\ Distance(a, b) \in Nat /\ Distance(q, b) = Distance(a, b) - d
  BY DistanceType, DistanceRebase
<1>2. /\ s \in Seq(Index) /\ Len(s) = Distance(a, b)
      /\ \A i \in 1 .. Len(s) : s[i] = Wrap(a + i - 1)
  BY StreamType
<1>3. /\ t \in Seq(Index) /\ Len(t) = Len(s) - d
      /\ \A i \in 1 .. Len(s) - d : t[i] = Wrap(q + i - 1)
  BY <1>1, <1>2, StreamType
<1>4. \A i \in 1 .. Distance(a, b) - d : Wrap(q + i - 1) = Wrap(a + (i + d) - 1)
  BY DEF SizesFit, Index, Distance, Wrap
<1> HIDE DEF s, t, d
<1>5. /\ SubSeq(s, d + 1, Len(s)) \in Seq(Index)
      /\ Len(SubSeq(s, d + 1, Len(s))) = Len(s) - d
      /\ \A i \in 1 .. Len(s) - d : SubSeq(s, d + 1, Len(s))[i] = s[i + d]
  BY <1>1, <1>2 DEF d
<1>6. \A i \in 1 .. Len(s) - d : t[i] = s[i + d]
  BY <1>1, <1>2, <1>3, <1>4
<1>7. t = SubSeq(s, d + 1, Len(s))
  BY <1>3, <1>5, <1>6, SeqEqual
<1>8. QED
  BY <1>7 DEF s, t, d

(* In every state of the invariant the channel is the stream from r to w. *)
ChanOK == Chan = Stream(r, w) /\ Distance(r, w) <= Capacity

LEMMA ChanIsStream ==
  ASSUME SizesFit, SoundGeometry
  PROVE  RingInv => ChanOK
<1> SUFFICES ASSUME RingInv PROVE Chan = Stream(r, w) /\ Distance(r, w) <= Capacity
  BY DEF ChanOK
<1>1. Distance(r, w) <= Capacity /\ r \in Index /\ w \in Index
  BY FromType, PieceType DEF RingInv, IndexInv, Order, TypeOK, From, SizesFit
<1>2. \A p \in Index : Distance(r, p) < Distance(r, w) => data[Offset(p)] = p
  BY DEF RingInv, BytesInv, Contents, From
<1>3. QED
  BY <1>1, <1>2, CellsHoldStream DEF Chan, readable_size

LEMMA ChannelStep ==
  ASSUME SizesFit, SoundGeometry, RingInv, RingInv', ChanOK', [Next]_vars
  PROVE  [Channel!Next]_(Channel!vars)
<1>1. /\ Chan = Stream(r, w) /\ Distance(r, w) <= Capacity
      /\ Chan' = Stream(r', w') /\ Distance(r', w') <= Capacity
      /\ r \in Index /\ w \in Index /\ r' \in Index /\ w' \in Index
  BY ChanIsStream DEF ChanOK, RingInv, IndexInv, TypeOK
<1>2. Len(Chan) = Distance(r, w) /\ Distance(r, w) \in Nat /\ Distance(r', w') \in Nat
  BY <1>1, StreamType
<1>3. CASE r' = r /\ w' = w
  <2>1. Chan' = Chan
    BY <1>1, <1>3
  <2>2. QED
    BY <2>1, <1>3 DEF Channel!vars, Chan
<1>4. CASE DrainProducer /\ w' # w
  <2>1. r' = r /\ pbuf # <<>> /\ w' = Head(pbuf).val
    BY <1>4 DEF DrainProducer
  <2>2. Distance(r, w) <= Distance(r, w')
    <3>1. pbuf \in Seq(Store)
      BY DEF RingInv, IndexInv, TypeOK
    <3>2. Head(pbuf) = pbuf[1] /\ 1 \in 1 .. Len(pbuf)
      BY <3>1, <2>1, TailFacts
    <3>3. QED
      BY <2>1, <3>2 DEF RingInv, IndexInv, PublicationsPending, From
  <2> DEFINE n == Distance(r, w') - Distance(r, w)
  <2>3. n \in 1 .. Capacity /\ Distance(r, w') = Distance(r, w) + n /\ Capacity \in Nat
    BY <1>1, <1>2, <1>4, <2>1, <2>2, DistanceInjective DEF SizesFit
  <2> HIDE DEF n
  <2>4. /\ Chan' = Chan \o Following(w, n)
        /\ w' = (w + n) % IndexRange
    <3>1. Distance(r, w') = Distance(r, w) + n /\ n \in Nat
      BY <2>3
    <3>2. Stream(r, w') = Stream(r, w) \o Following(w, n)
      BY <3>1, <1>1, StreamAppend
    <3>3. w' = (w + n) % IndexRange
      BY <3>1, <1>1, StreamAppend
    <3>4. QED
      BY <3>2, <3>3, <1>1, <2>1
  <2>5. Len(Chan) + n <= Capacity
    BY <1>1, <1>2, <2>1, <2>3
  <2>6. Channel!Publish(n)
    BY <2>4, <2>5 DEF Channel!Publish, Chan, Following
  <2>7. QED
    BY <2>3, <2>6 DEF Channel!Next
<1>5. CASE DrainConsumer /\ r' # r
  <2>1. w' = w /\ cbuf # <<>> /\ r' = Head(cbuf)
    BY <1>5 DEF DrainConsumer
  <2>2. Distance(r, r') <= Distance(r, w)
    <3>1. cbuf \in Seq(Index)
      BY DEF RingInv, IndexInv, TypeOK
    <3>2. Head(cbuf) = cbuf[1] /\ 1 \in 1 .. Len(cbuf)
      BY <3>1, <2>1, TailFacts
    <3>3. Distance(r, r') <= Distance(r, cr) /\ Distance(r, cr) <= Distance(r, w)
      BY <2>1, <3>2 DEF RingInv, IndexInv, ReleasesPending, Order, From
    <3>4. QED
      BY <3>3, <1>1, DistanceType DEF RingInv, IndexInv, TypeOK
  <2> DEFINE n == Distance(r, r')
  <2>3. n \in 1 .. Capacity /\ n <= Len(Chan)
    <3>1. n \in Nat /\ Distance(r, r) = 0 /\ Capacity \in Nat
      BY <1>1, DistanceType DEF SizesFit
    <3>2. n # 0
      BY <3>1, <1>1, <1>5, DistanceInjective
    <3>3. QED
      BY <3>1, <3>2, <1>1, <1>2, <2>2
  <2> HIDE DEF n
  <2>4. Chan' = SubSeq(Chan, n + 1, Len(Chan))
    BY <1>1, <2>1, <2>2, StreamCut DEF n
  <2>5. Channel!Release(n)
    BY <2>1, <2>3, <2>4 DEF Channel!Release, Chan
  <2>6. QED
    BY <2>3, <2>5 DEF Channel!Next
<1>6. (r' = r /\ w' = w) \/ (DrainProducer /\ w' # w) \/ (DrainConsumer /\ r' # r)
  BY DEF Next, vars, Producer, Consumer, GetWritable, WriteByte, PushData, GetReadable, PopData,
         DrainProducer, DrainConsumer
<1>7. QED
  BY <1>3, <1>4, <1>5, <1>6

(* Where the capacity is a power of two: whatever stays in store buffers   *)
(* and whatever is handed out, the header and the data area are at every   *)
(* moment a bounded FIFO channel: a store to w publishes the next bytes of *)
(* the stream, a store to r releases the oldest, and no other step of the  *)
(* code is seen in memory.                                                 *)
THEOREM RingIsAChannel ==
  ASSUME PowerOfTwoCapacity
  PROVE  Spec => ImplementsChannel
<1> SizesFit /\ SoundGeometry
  BY Sizes, Geometry
<1>1. Init => Channel!Init
  <2> SUFFICES ASSUME Init PROVE Channel!Init
    OBVIOUS
  <2>1. readable_size(r, w) = 0
    BY DEF Init, readable_size, Distance
  <2>2. Chan = <<>>
    BY <2>1 DEF Chan
  <2>3. QED
    BY <2>2 DEF Channel!Init, Init, Chan
<1>2. RingInv => ChanOK
  BY ChanIsStream
<1>3. RingInv /\ RingInv' /\ ChanOK' /\ [Next]_vars => [Channel!Next]_(Channel!vars)
  BY ChannelStep
<1>4. QED
  BY <1>1, <1>2, <1>3, RingInvariant, PTL DEF Spec, ImplementsChannel, Channel!Spec
=============================================================================
