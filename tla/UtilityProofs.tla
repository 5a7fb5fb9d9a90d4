---------------------------- MODULE UtilityProofs ----------------------------
(***************************************************************************)
(* The four utilities that know nothing of the event loop.                 *)
(*                                                                         *)
(* mempool, for any arena, header size and widths of int and size_t: its   *)
(* lists stay well formed through any calls, the blocks it hands out hold  *)
(* what was asked for, and free() dies on the oldest block of a class.     *)
(*                                                                         *)
(* backtrace, for any depth and any buffers: each frame is reported with   *)
(* what its own lookup found and a dump is loaded whole or not at all.     *)
(*                                                                         *)
(* hex, for any text and any widths of the types: a conversion yields what *)
(* the notation gives the text.                                            *)
(*                                                                         *)
(* file_descriptor, for any number of objects, files and descriptors: each *)
(* open number has one owner, and the objects behave as the handles of     *)
(* Handles.                                                                *)
(***************************************************************************)
EXTENDS Mempool, Backtrace, Hex, FileDescriptor,
        FiniteSetTheorems, WellFoundedInduction, SequenceTheorems, TLAPS

-----------------------------------------------------------------------------
(* mempool. *)

(* Induction: a set of sets of a finite set has a smallest member, and so  *)
(* has a set of numbers.                                                   *)
LEMMA SmallestSubset ==
  ASSUME NEW S, IsFiniteSet(S), NEW T, T \subseteq SUBSET S, T # {}
  PROVE  \E X \in T : \A Y \in T : ~(Y \subseteq X /\ Y # X)
<1>1. IsWellFoundedOn(StrictSubsetOrdering(S), SUBSET S)
  BY FS_StrictSubsetOrderingWellFounded, FS_FiniteSubsetsOfFinite
<1>2. \E X \in T : \A Y \in T : ~(<<Y, X>> \in StrictSubsetOrdering(S))
  BY <1>1, WFMin
<1> QED BY <1>2 DEF StrictSubsetOrdering

LEMMA SmallestNumber ==
  ASSUME NEW T, T \subseteq Nat, T # {}
  PROVE  \E n \in T : \A m \in T : n <= m
<1> PICK k \in T : TRUE
  OBVIOUS
<1> DEFINE W == {0 .. n : n \in {j \in T : j <= k}}
           I == 0 .. k
<1>1. IsFiniteSet(I)
  BY FS_Interval
<1>2. W \subseteq SUBSET I /\ W # {}
  OBVIOUS
<1>3. \A X \in W : \E n \in T : n <= k /\ X = 0 .. n
  OBVIOUS
<1>4. \A m \in T : m <= k => (0 .. m) \in W
  OBVIOUS
<1> HIDE DEF W, I
<1>5. PICK X \in W : \A Y \in W : ~(Y \subseteq X /\ Y # X)
  BY <1>1, <1>2, SmallestSubset
<1>6. PICK n \in T : n <= k /\ X = 0 .. n
  BY <1>3
<1>7. ASSUME NEW m \in T, m < n PROVE FALSE
  <2>1. (0 .. m) \in W
    BY <1>4, <1>6, <1>7
  <2>2. (0 .. m) \subseteq X /\ (0 .. m) # X
    BY <1>6, <1>7
  <2> QED BY <1>5, <2>1, <2>2
<1> QED BY <1>6, <1>7

(* Powers of two grow. *)
LEMMA PowersGrow ==
  ASSUME NEW i \in 0 .. WordBits, NEW j \in 0 .. WordBits, i <= j
  PROVE  2^i <= 2^j
<1> DEFINE T == {n \in Nat : i <= n /\ n <= WordBits /\ ~(2^i <= 2^n)}
<1>1. T = {}
  <2> SUFFICES ASSUME T # {} PROVE FALSE
    OBVIOUS
  <2>1. PICK n \in T : \A m \in T : n <= m
    BY SmallestNumber
  <2>2. n \in Nat /\ i <= n /\ n <= WordBits /\ ~(2^i <= 2^n) /\ n \in 0 .. WordBits
    BY <2>1, MempoolAssumption
  <2>3. 2^i \in Nat /\ 2^n \in Nat
    BY <2>2, PowersOfTwo
  <2>4. n # i
    BY <2>2, <2>3
  <2>5. n - 1 \in 0 .. WordBits /\ n - 1 \in Nat /\ i <= n - 1 /\ (n - 1) + 1 = n
    BY <2>2, <2>4, MempoolAssumption
  <2>6. 2^i <= 2^(n - 1)
    BY <2>1, <2>5, MempoolAssumption
  <2>7. 2^(n - 1) \in Nat /\ 2^((n - 1) + 1) = 2 * 2^(n - 1)
    BY <2>5, PowersOfTwo
  <2>8. 2^n = 2 * 2^(n - 1)
    BY <2>5, <2>7
  <2> QED BY <2>2, <2>3, <2>6, <2>7, <2>8
<1> QED BY <1>1, MempoolAssumption

-----------------------------------------------------------------------------
(* Remainders, one turn around the modulus at most. *)
LEMMA SmallRemainder ==
  ASSUME NEW d \in Nat \ {0}, NEW n \in Nat, n < d
  PROVE  n % d = n
OBVIOUS

LEMMA OverflowedRemainder ==
  ASSUME NEW d \in Nat \ {0}, NEW n \in Int, d <= n, n < 2 * d
  PROVE  n % d = n - d
OBVIOUS

LEMMA NegativeRemainder ==
  ASSUME NEW d \in Nat \ {0}, NEW n \in Int, -d <= n, n < 0
  PROVE  n % d = n + d
OBVIOUS

(* The widths: the last class is as large as the sign bit of an int. *)
LastSize == block_size(IntBits - 4)

LEMMA Widths ==
  /\ LastSize \in Nat /\ LastSize >= 16
  /\ 2^(IntBits - 1) = LastSize /\ 2^IntBits = 2 * LastSize
  /\ 2^WordBits \in Nat /\ 2^WordBits >= 4 * LastSize
  /\ \A i \in Managers : block_size(i) \in Nat \ {0} /\ block_size(i) <= LastSize /\ (i # IntBits - 4 => 2 * block_size(i) <= LastSize)
<1> USE MempoolAssumption
<1> DEFINE p == IntBits - 4
<1>1. p \in 0 .. WordBits /\ p + 1 \in 0 .. WordBits /\ p + 2 \in 0 .. WordBits
      /\ p + 3 \in 0 .. WordBits /\ p + 4 \in 0 .. WordBits /\ p + 5 \in 0 .. WordBits
      /\ 1 \in 0 .. WordBits /\ 1 <= p /\ p \in Nat
  OBVIOUS
<1>2. 2^p \in Nat /\ 2^(p + 1) = 2 * 2^p /\ 2^(p + 2) = 4 * 2^p /\ 2^(p + 3) = 8 * 2^p
      /\ 2^(p + 4) = 16 * 2^p /\ 2^(p + 5) = 32 * 2^p
  <2> HIDE DEF p
  <2>1. 2^p \in Nat /\ 2^(p + 1) = 2 * 2^p BY <1>1, PowersOfTwo
  <2>2. 2^((p + 1) + 1) = 2 * 2^(p + 1) /\ (p + 1) + 1 = p + 2 BY <1>1, PowersOfTwo
  <2>3. 2^((p + 2) + 1) = 2 * 2^(p + 2) /\ (p + 2) + 1 = p + 3 BY <1>1, PowersOfTwo
  <2>4. 2^((p + 3) + 1) = 2 * 2^(p + 3) /\ (p + 3) + 1 = p + 4 BY <1>1, PowersOfTwo
  <2>5. 2^((p + 4) + 1) = 2 * 2^(p + 4) /\ (p + 4) + 1 = p + 5 BY <1>1, PowersOfTwo
  <2> QED BY <2>1, <2>2, <2>3, <2>4, <2>5
<1>3. p + 3 = IntBits - 1 /\ p + 4 = IntBits
  OBVIOUS
<1>4. 2 <= 2^p
  <2>1. 2^1 = 2 OBVIOUS
  <2>2. 2^1 <= 2^p BY <1>1, PowersGrow
  <2> QED BY <2>1, <2>2
<1>5. 2^WordBits \in Nat /\ 2^(p + 5) <= 2^WordBits
  BY <1>1, PowersGrow, PowersOfTwo
<1>6. ASSUME NEW i \in Managers
      PROVE  /\ 2^i \in Nat \ {0} /\ 2^i <= 2^p
             /\ i # p => 2 * 2^i <= 2^p
  <2>1. i \in 0 .. WordBits /\ i <= p /\ i \in Nat BY DEF Managers
  <2>2. 2^i \in Nat \ {0} /\ 2^i <= 2^p /\ 2^(i + 1) = 2 * 2^i
    BY <1>1, <2>1, PowersGrow, PowersOfTwo
  <2>3. ASSUME i # p PROVE 2 * 2^i <= 2^p
    <3>1. i + 1 \in 0 .. WordBits /\ i + 1 <= p BY <2>1, <2>3
    <3>2. 2^(i + 1) <= 2^p BY <1>1, <3>1, PowersGrow
    <3> QED BY <2>2, <3>2
  <2> QED BY <2>2, <2>3
<1>7. \A i \in Managers : 2^i \in Nat \ {0} /\ 2^i <= 2^p /\ (i # p => 2 * 2^i <= 2^p)
  BY <1>6
<1>8. LastSize = 8 * 2^p
  BY DEF LastSize, block_size
<1>9. \A i \in Managers : block_size(i) = 8 * 2^i
  BY DEF block_size
<1> HIDE DEF p
<1>10. \A i \in Managers : block_size(i) \in Nat \ {0} /\ block_size(i) <= LastSize /\ (i # p => 2 * block_size(i) <= LastSize)
  BY <1>2, <1>7, <1>8, <1>9
<1>11. LastSize \in Nat /\ LastSize >= 16
  BY <1>2, <1>4, <1>8
<1>12. 2^(p + 3) = LastSize /\ 2^(p + 4) = 2 * LastSize
  BY <1>2, <1>8
<1>13. 2^WordBits >= 4 * LastSize
  BY <1>2, <1>5, <1>8
<1> QED BY <1>3, <1>5, <1>10, <1>11, <1>12, <1>13 DEF p

(* What find_block_manager compares with: the size of the class, but for   *)
(* the last one.                                                           *)
LEMMA ComparedSize ==
  ASSUME NEW i \in Managers
  PROVE  ToSizeT(ToInt(8 * 2^i)) = IF i = IntBits - 4 THEN 2^WordBits - block_size(i) ELSE block_size(i)
<1> DEFINE last == LastSize
           s == block_size(i)
           W == 2^WordBits
           I == 2^IntBits
<1>1. last \in Nat /\ last >= 16 /\ 2^(IntBits - 1) = last /\ I = 2 * last /\ W \in Nat
      /\ W >= 4 * last /\ s \in Nat /\ s <= last /\ (i # IntBits - 4 => 2 * s <= last) /\ s > 0
  BY Widths
<1>2. i = IntBits - 4 => s = last
  BY DEF LastSize
<1>3. ToInt(s) = IF s % I < last THEN s % I ELSE (s % I) - I
  BY <1>1 DEF ToInt
<1>4. ToSizeT(ToInt(s)) = ToInt(s) % W
  BY DEF ToSizeT
<1>5. 8 * 2^i = s
  BY DEF block_size
<1> HIDE DEF last, s, W, I
<1>6. s % I = s
  BY <1>1, SmallRemainder
<1>7. CASE i = IntBits - 4
  <2>1. ToInt(s) = -last
    BY <1>1, <1>2, <1>3, <1>6, <1>7
  <2>2. (-last) % W = W - last
    BY <1>1, NegativeRemainder
  <2> QED BY <1>2, <1>4, <1>5, <1>7, <2>1, <2>2 DEF W, s
<1>8. CASE i # IntBits - 4
  <2>1. ToInt(s) = s
    BY <1>1, <1>3, <1>6, <1>8
  <2>2. s % W = s
    BY <1>1, SmallRemainder
  <2> QED BY <1>4, <1>5, <1>8, <2>1, <2>2 DEF s
<1> QED BY <1>7, <1>8

LEMMA FoundManager ==
  ASSUME NEW n
  PROVE  LET i == find_block_manager(n)
         IN  i # None => /\ i \in Managers /\ ToSizeT(ToInt(8 * 2^i)) > n
                         /\ \A j \in Managers : ToSizeT(ToInt(8 * 2^j)) > n => i <= j
<1> DEFINE F == Fitting(n)
<1>1. F \subseteq Managers /\ \A j \in Managers : j \in F <=> ToSizeT(ToInt(8 * 2^j)) > n
  BY DEF Fitting
<1>2. Managers \subseteq Nat
  BY MempoolAssumption DEF Managers
<1> HIDE DEF F
<1>3. ASSUME F # {}
      PROVE  (CHOOSE i \in F : \A j \in F : i <= j) \in F
             /\ \A j \in F : (CHOOSE i \in F : \A j2 \in F : i <= j2) <= j
  <2>1. \E i \in F : \A j \in F : i <= j
    BY <1>1, <1>2, <1>3, SmallestNumber
  <2> QED BY <2>1
<1>4. find_block_manager(n) = IF F = {} THEN None ELSE CHOOSE i \in F : \A j \in F : i <= j
  BY DEF find_block_manager, F
<1> QED BY <1>1, <1>3, <1>4

(* The class alloc() picks for a request. *)
LEMMA PickedClass ==
  ASSUME NEW size \in Requests, NEW i, i = find_block_manager(align8(size)), i # None
  PROVE  /\ i \in Managers
         /\ block_size(i) >= size <=> size <= block_size(IntBits - 4)
<1> DEFINE last == LastSize
           W == 2^WordBits
           m == (size + 7) % W
           al == align8(size)
<1>1. last \in Nat /\ last >= 16 /\ W \in Nat /\ W >= 4 * last
  BY Widths
<1>2. size \in 0 .. W - 1 /\ size \in Nat
  BY MempoolAssumption, <1>1
<1>3. i \in Managers /\ ToSizeT(ToInt(8 * 2^i)) > al
      /\ \A j \in Managers : ToSizeT(ToInt(8 * 2^j)) > al => i <= j
  BY FoundManager
<1>4. al = m - (m % 8)
  BY DEF align8, ToSizeT
<1>5. block_size(i) \in Nat /\ block_size(i) <= last /\ block_size(IntBits - 4) = last
  BY <1>3, Widths DEF LastSize
<1> HIDE DEF last, W, m, al
<1>6. CASE size + 7 < W
  <2>1. m = size + 7
    BY <1>1, <1>2, <1>6, SmallRemainder DEF m
  <2>2. al >= size
    BY <1>2, <1>4, <2>1
  <2>3. CASE i = IntBits - 4
    BY <1>2, <1>3, <1>5, <2>3
  <2>4. CASE i # IntBits - 4
    <3>1. block_size(i) > al
      BY <1>3, <2>4, ComparedSize
    <3>2. al \in Int
      BY <1>2, <1>4, <2>1
    <3> QED BY <1>1, <1>2, <1>3, <1>5, <2>2, <3>1, <3>2
  <2> QED BY <2>3, <2>4
<1>7. CASE size + 7 >= W
  <2>1. m = size + 7 - W
    <3>1. PICK n \in Int : n = size + 7
      BY <1>2
    <3>2. W <= n /\ n < 2 * W /\ W \in Nat \ {0}
      BY <1>1, <1>2, <1>7, <3>1
    <3>3. n % W = n - W
      BY <3>2, OverflowedRemainder
    <3> QED BY <1>1, <1>2, <3>1, <3>3 DEF m
  <2>2. al = 0
    BY <1>1, <1>2, <1>4, <1>7, <2>1
  <2>3. PICK z \in Managers : z = 0 /\ z # IntBits - 4
    BY MempoolAssumption DEF Managers
  <2>4. block_size(z) = 8
    <3>1. 2^0 = 1 OBVIOUS
    <3> QED BY <2>3, <3>1 DEF block_size
  <2>5. ToSizeT(ToInt(8 * 2^z)) = 8
    BY <2>3, <2>4, ComparedSize
  <2>6. i <= z
    BY <1>3, <2>2, <2>5
  <2>7. i = 0
    BY <1>3, <2>3, <2>6, MempoolAssumption DEF Managers
  <2> QED BY <1>1, <1>2, <1>3, <1>5, <1>7, <2>3, <2>4, <2>7
<1> QED BY <1>1, <1>2, <1>6, <1>7

-----------------------------------------------------------------------------
(* Sequences. *)
LEMMA FunctionIsSeq ==
  ASSUME NEW S, NEW n \in Nat, NEW f \in [1 .. n -> S]
  PROVE  f \in Seq(S) /\ Len(f) = n
BY SeqDef, LenProperties

LEMMA RemoveAtProperties ==
  ASSUME NEW S, NEW s \in Seq(S), NEW k \in 1 .. Len(s)
  PROVE  /\ RemoveAt(s, k) \in Seq(S)
         /\ Len(RemoveAt(s, k)) = Len(s) - 1
         /\ \A i \in 1 .. Len(s) - 1 : RemoveAt(s, k)[i] = IF i < k THEN s[i] ELSE s[i + 1]
<1> DEFINE a == SubSeq(s, 1, k - 1)
           b == SubSeq(s, k + 1, Len(s))
<1>1. Len(s) \in Nat /\ \A i \in 1 .. Len(s) : s[i] \in S
  BY LenProperties, ElementOfSeq
<1>2. /\ a \in Seq(S) /\ Len(a) = k - 1
      /\ \A i \in 1 .. k - 1 : a[i] = s[i]
  BY <1>1, SubSeqProperties
<1>3. /\ b \in Seq(S) /\ Len(b) = Len(s) - k
      /\ \A i \in 1 .. Len(s) - k : b[i] = s[k + i]
  <2>1. \A i \in k + 1 .. Len(s) : s[i] \in S
    BY <1>1
  <2>2. /\ b \in Seq(S)
        /\ Len(b) = IF k + 1 <= Len(s) THEN Len(s) - (k + 1) + 1 ELSE 0
        /\ \A i \in 1 .. Len(s) - (k + 1) + 1 : b[i] = s[(k + 1) + i - 1]
    BY <1>1, <2>1, SubSeqProperties
  <2> QED BY <1>1, <2>2
<1> DEFINE c == a \o b
<1>4. /\ c \in Seq(S)
      /\ Len(c) = Len(a) + Len(b)
      /\ \A i \in 1 .. Len(a) + Len(b) : c[i] = IF i <= Len(a) THEN a[i] ELSE b[i - Len(a)]
  BY <1>2, <1>3, ConcatProperties
<1>5. RemoveAt(s, k) = c
  BY DEF RemoveAt
<1> HIDE DEF a, b, c
<1>6. ASSUME NEW i \in 1 .. Len(s) - 1
      PROVE  c[i] = IF i < k THEN s[i] ELSE s[i + 1]
  <2>1. k \in Int /\ i \in Int /\ k <= Len(s)
    BY <1>1
  <2>2. c[i] = IF i <= k - 1 THEN a[i] ELSE b[i - (k - 1)]
    BY <1>1, <1>2, <1>3, <1>4, <2>1
  <2>3. CASE i < k
    BY <1>2, <2>1, <2>2, <2>3
  <2>4. CASE ~(i < k)
    <3>1. i - (k - 1) \in 1 .. Len(s) - k /\ k + (i - (k - 1)) = i + 1
      BY <1>1, <2>1, <2>4
    <3>2. b[i - (k - 1)] = s[k + (i - (k - 1))]
      BY <1>3, <3>1
    <3>3. c[i] = b[i - (k - 1)]
      BY <2>1, <2>2, <2>4
    <3> QED BY <2>4, <3>1, <3>2, <3>3
  <2> QED BY <2>3, <2>4
<1>7. Len(c) = Len(s) - 1
  BY <1>1, <1>2, <1>3, <1>4
<1> QED BY <1>4, <1>5, <1>6, <1>7

-----------------------------------------------------------------------------
(* block_list: what its pointers say. *)

BlockType(D) == [mgr : Managers, prev : D \union {Null}, next : D \union {Null},
                 header : BOOLEAN, trailer : BOOLEAN]
ListType(D) == [head : D \union {Null}, length : Nat]

(* The blocks s, in this order, are what the list links. *)
Linked(s, list, hdr) ==
  /\ s \in Seq(DOMAIN hdr)
  /\ \A p, q \in 1 .. Len(s) : s[p] = s[q] => p = q
  /\ list.length = Len(s)
  /\ list.head = IF Len(s) = 0 THEN Null ELSE s[1]
  /\ \A p \in 1 .. Len(s) : /\ hdr[s[p]].prev = IF p = 1 THEN Null ELSE s[p - 1]
                            /\ hdr[s[p]].next = IF p = Len(s) THEN Null ELSE s[p + 1]

Among(a, s) == \E p \in 1 .. Len(s) : s[p] = a

(* An operation writes links only, of the blocks in s and of one more. *)
LinksOnly(old, new, s, node) ==
  /\ DOMAIN new = DOMAIN old
  /\ \A a \in DOMAIN old : /\ new[a].mgr = old[a].mgr
                           /\ new[a].header = old[a].header
                           /\ new[a].trailer = old[a].trailer
                           /\ a # node /\ ~Among(a, s) => new[a] = old[a]

(* push: the node comes first. *)
LEMMA PushLinked ==
  ASSUME NEW D, Null \notin D, NEW hdr \in [D -> BlockType(D)], NEW list \in ListType(D),
         NEW s, Linked(s, list, hdr), NEW node \in D, ~Among(node, s)
  PROVE  LET r == push(list, hdr, node)
         IN  /\ r.hdr \in [D -> BlockType(D)] /\ r.list \in ListType(D)
             /\ LinksOnly(hdr, r.hdr, s, node)
             /\ \E t : /\ Linked(t, r.list, r.hdr)
                       /\ Len(t) = Len(s) + 1 /\ t[1] = node
                       /\ \A p \in 1 .. Len(s) : t[p + 1] = s[p]
<1> DEFINE n == Len(s)
           t == [p \in 1 .. n + 1 |-> IF p = 1 THEN node ELSE s[p - 1]]
           r == push(list, hdr, node)
           lk == [hdr EXCEPT ![node].prev = Null, ![node].next = list.head]
           new == IF list.head = Null THEN lk ELSE [lk EXCEPT ![list.head].prev = node]
<1>1. s \in Seq(D) /\ n \in Nat /\ (\A p \in 1 .. n : s[p] \in D)
  BY LenProperties, ElementOfSeq DEF Linked
<1>2. /\ \A p, q \in 1 .. n : s[p] = s[q] => p = q
      /\ list.length = n
      /\ list.head = IF n = 0 THEN Null ELSE s[1]
      /\ \A p \in 1 .. n : /\ hdr[s[p]].prev = IF p = 1 THEN Null ELSE s[p - 1]
                           /\ hdr[s[p]].next = IF p = n THEN Null ELSE s[p + 1]
  BY DEF Linked
<1>3. \A p \in 1 .. n : s[p] # node
  BY DEF Among
<1>4. t \in [1 .. n + 1 -> D]
  BY <1>1
<1>5. t \in Seq(D) /\ Len(t) = n + 1
  BY <1>1, <1>4, FunctionIsSeq
<1>6. t[1] = node /\ \A p \in 1 .. n : t[p + 1] = s[p]
  BY <1>1
<1>7. \A p \in 1 .. n + 1 : t[p] = IF p = 1 THEN node ELSE s[p - 1]
  OBVIOUS
<1>8. r.hdr = new /\ r.list = [head |-> node, length |-> list.length + 1]
  BY DEF push
<1>9. /\ lk \in [D -> BlockType(D)]
      /\ lk[node].prev = Null /\ lk[node].next = list.head
      /\ lk[node].mgr = hdr[node].mgr /\ lk[node].header = hdr[node].header /\ lk[node].trailer = hdr[node].trailer
      /\ \A a \in D : a # node => lk[a] = hdr[a]
  BY DEF BlockType, ListType
<1>10. n # 0 => list.head \in D /\ list.head = s[1] /\ list.head # node /\ list.head # Null
  BY <1>1, <1>2, <1>3
<1>11. /\ new \in [D -> BlockType(D)]
       /\ new[node].prev = Null /\ new[node].next = list.head
       /\ \A a \in D : /\ new[a].mgr = hdr[a].mgr /\ new[a].header = hdr[a].header /\ new[a].trailer = hdr[a].trailer
                       /\ a # node => new[a].next = hdr[a].next
                       /\ a # node /\ a # list.head => new[a] = hdr[a]
       /\ n # 0 => new[s[1]].prev = node
  <2>1. CASE n = 0
    <3>1. new = lk
      BY <1>2, <2>1
    <3> HIDE DEF new, lk
    <3> QED BY <1>9, <2>1, <3>1
  <2>2. CASE n # 0
    <3>1. new = [lk EXCEPT ![list.head].prev = node]
      BY <1>10, <2>2
    <3> HIDE DEF new, lk
    <3>2. new \in [D -> BlockType(D)]
      BY <1>9, <1>10, <2>2, <3>1 DEF BlockType
    <3>3. \A a \in D : a # list.head => new[a] = lk[a]
      BY <1>9, <3>1
    <3>4. new[list.head].prev = node /\ new[list.head].next = lk[list.head].next /\ new[list.head].mgr = lk[list.head].mgr
          /\ new[list.head].header = lk[list.head].header /\ new[list.head].trailer = lk[list.head].trailer
      BY <1>9, <1>10, <2>2, <3>1 DEF BlockType
    <3> QED BY <1>9, <1>10, <2>2, <3>2, <3>3, <3>4
  <2> QED BY <2>1, <2>2
<1> HIDE DEF new, lk, t, n
<1>12. r.list \in ListType(D)
  BY <1>1, <1>2, <1>8 DEF ListType
<1>13. LinksOnly(hdr, new, s, node)
  <2>1. DOMAIN new = D /\ DOMAIN hdr = D
    BY <1>11
  <2>2. ASSUME NEW a \in D, a # node, ~Among(a, s) PROVE new[a] = hdr[a]
    <3>1. a # list.head
      BY <1>1, <1>2, <2>2 DEF Among, n
    <3> QED BY <1>11, <2>2, <3>1
  <2> QED BY <1>11, <2>1, <2>2 DEF LinksOnly
<1>14. Linked(t, r.list, new)
  <2>1. t \in Seq(DOMAIN new)
    BY <1>5, <1>11
  <2>2. \A p, q \in 1 .. n + 1 : t[p] = t[q] => p = q
    BY <1>1, <1>2, <1>3, <1>7
  <2>3. r.list.length = n + 1 /\ r.list.head = t[1]
    BY <1>2, <1>6, <1>8
  <2>4. ASSUME NEW p \in 1 .. n + 1 PROVE new[t[p]].prev = IF p = 1 THEN Null ELSE t[p - 1]
    <3>1. CASE p = 1
      BY <1>6, <1>11, <3>1
    <3>2. CASE p = 2
      <4>1. n # 0 /\ t[p] = s[1] /\ t[p - 1] = node
        BY <1>1, <1>7, <3>2
      <4> QED BY <1>11, <3>2, <4>1
    <3>3. CASE p > 2
      <4>1. p - 1 \in 1 .. n /\ p - 2 \in 1 .. n /\ t[p] = s[p - 1] /\ t[p - 1] = s[p - 2] /\ n # 0 /\ p - 1 # 1 /\ 1 \in 1 .. n
        BY <1>1, <1>7, <3>3
      <4>2. s[p - 1] \in D /\ s[p - 1] # node /\ s[p - 1] # list.head
        BY <1>1, <1>2, <1>3, <1>10, <4>1
      <4>3. new[s[p - 1]] = hdr[s[p - 1]]
        BY <1>11, <4>2
      <4>4. hdr[s[p - 1]].prev = s[p - 2]
        <5>1. hdr[s[p - 1]].prev = s[(p - 1) - 1]
          BY <1>2, <4>1
        <5> QED BY <5>1
      <4> QED BY <3>3, <4>1, <4>3, <4>4
    <3> QED BY <1>1, <3>1, <3>2, <3>3
  <2>5. ASSUME NEW p \in 1 .. n + 1 PROVE new[t[p]].next = IF p = n + 1 THEN Null ELSE t[p + 1]
    <3>1. CASE p = 1
      <4>1. n # 0 => t[p + 1] = s[1]
        BY <1>1, <1>6, <3>1
      <4> QED BY <1>1, <1>2, <1>6, <1>11, <3>1, <4>1
    <3>2. CASE p # 1
      <4>1. p - 1 \in 1 .. n /\ t[p] = s[p - 1] /\ (p # n + 1 => t[p + 1] = s[p])
        BY <1>1, <1>7, <3>2
      <4>2. new[s[p - 1]].next = hdr[s[p - 1]].next
        BY <1>1, <1>3, <1>11, <4>1
      <4>3. hdr[s[p - 1]].next = IF p - 1 = n THEN Null ELSE s[(p - 1) + 1]
        BY <1>2, <4>1
      <4> QED BY <1>1, <4>1, <4>2, <4>3
    <3> QED BY <3>1, <3>2
  <2>6. n + 1 # 0
    BY <1>1
  <2> QED BY <1>5, <2>1, <2>2, <2>3, <2>4, <2>5, <2>6 DEF Linked
<1>15. Len(t) = Len(s) + 1 /\ \A p \in 1 .. Len(s) : t[p + 1] = s[p]
  BY <1>5, <1>6 DEF n
<1> QED BY <1>6, <1>8, <1>11, <1>12, <1>13, <1>14, <1>15

(* pop: all but the first are left. *)
LEMMA PopLinked ==
  ASSUME NEW D, Null \notin D, NEW hdr \in [D -> BlockType(D)], NEW list \in ListType(D),
         NEW s, Linked(s, list, hdr), Len(s) # 0
  PROVE  LET r == pop(list, hdr)
         IN  /\ r.hdr \in [D -> BlockType(D)] /\ r.list \in ListType(D)
             /\ LinksOnly(hdr, r.hdr, s, s[1])
             /\ \E t : /\ Linked(t, r.list, r.hdr)
                       /\ Len(t) = Len(s) - 1
                       /\ \A p \in 1 .. Len(s) - 1 : t[p] = s[p + 1]
<1> DEFINE n == Len(s)
           t == [p \in 1 .. n - 1 |-> s[p + 1]]
           r == pop(list, hdr)
           nx == hdr[list.head].next
           new == IF nx = Null THEN hdr ELSE [hdr EXCEPT ![nx].prev = Null]
<1>1. s \in Seq(D) /\ n \in Nat /\ n - 1 \in Nat /\ (\A p \in 1 .. n : s[p] \in D) /\ 1 \in 1 .. n
  BY LenProperties, ElementOfSeq DEF Linked
<1>2. /\ \A p, q \in 1 .. n : s[p] = s[q] => p = q
      /\ list.length = n
      /\ list.head = IF n = 0 THEN Null ELSE s[1]
      /\ \A p \in 1 .. n : /\ hdr[s[p]].prev = IF p = 1 THEN Null ELSE s[p - 1]
                           /\ hdr[s[p]].next = IF p = n THEN Null ELSE s[p + 1]
  BY DEF Linked
<1>3. t \in [1 .. n - 1 -> D]
  BY <1>1
<1>4. t \in Seq(D) /\ Len(t) = n - 1
  BY <1>1, <1>3, FunctionIsSeq
<1>5. \A p \in 1 .. n - 1 : t[p] = s[p + 1]
  OBVIOUS
<1>6. r.hdr = new /\ r.list = [head |-> nx, length |-> list.length - 1]
  BY DEF pop
<1>7. nx = IF n = 1 THEN Null ELSE s[2]
  <2>1. list.head = s[1]
    BY <1>1, <1>2
  <2>2. hdr[s[1]].next = IF 1 = n THEN Null ELSE s[1 + 1]
    BY <1>1, <1>2
  <2> QED BY <2>1, <2>2
<1>8. n # 1 => nx \in D /\ nx # Null /\ 2 \in 1 .. n
  <2> HIDE DEF nx, n
  <2>1. n # 1 => 2 \in 1 .. n
    BY <1>1
  <2> QED BY <1>1, <1>7, <2>1
<1>9. /\ new \in [D -> BlockType(D)]
      /\ \A a \in D : /\ new[a].mgr = hdr[a].mgr /\ new[a].header = hdr[a].header /\ new[a].trailer = hdr[a].trailer
                      /\ new[a].next = hdr[a].next
                      /\ a # nx => new[a] = hdr[a]
      /\ n # 1 => new[s[2]].prev = Null
  <2>1. CASE n = 1
    <3>1. new = hdr
      BY <1>7, <2>1
    <3> HIDE DEF new, nx
    <3> QED BY <2>1, <3>1
  <2>2. CASE n # 1
    <3>1. new = [hdr EXCEPT ![nx].prev = Null]
      BY <1>8, <2>2
    <3> HIDE DEF new, nx
    <3>2. new \in [D -> BlockType(D)]
      BY <1>8, <2>2, <3>1 DEF BlockType
    <3>3. \A a \in D : a # nx => new[a] = hdr[a]
      BY <3>1
    <3>4. new[nx].prev = Null /\ new[nx].next = hdr[nx].next /\ new[nx].mgr = hdr[nx].mgr
          /\ new[nx].header = hdr[nx].header /\ new[nx].trailer = hdr[nx].trailer
      BY <1>8, <2>2, <3>1 DEF BlockType
    <3> QED BY <1>7, <1>8, <2>2, <3>2, <3>3, <3>4
  <2> QED BY <2>1, <2>2
<1> HIDE DEF new, nx, t, n
<1>10. r.list \in ListType(D)
  <2>1. nx \in D \union {Null}
    BY <1>7, <1>8
  <2> QED BY <1>1, <1>2, <1>6, <2>1 DEF ListType
<1>11. LinksOnly(hdr, new, s, s[1])
  <2>1. DOMAIN new = D /\ DOMAIN hdr = D
    BY <1>9
  <2>2. ASSUME NEW a \in D, ~Among(a, s) PROVE new[a] = hdr[a]
    <3>1. a # nx
      BY <1>1, <1>7, <1>8, <2>2 DEF Among, n
    <3> QED BY <1>9, <2>2, <3>1
  <2> QED BY <1>9, <2>1, <2>2 DEF LinksOnly
<1>12. Linked(t, r.list, new)
  <2>1. t \in Seq(DOMAIN new)
    BY <1>4, <1>9
  <2>2. ASSUME NEW p \in 1 .. n - 1, NEW q \in 1 .. n - 1, t[p] = t[q] PROVE p = q
    <3>1. p + 1 \in 1 .. n /\ q + 1 \in 1 .. n
      BY <1>1
    <3>2. t[p] = s[p + 1] /\ t[q] = s[q + 1]
      BY <1>5
    <3>3. s[p + 1] = s[q + 1]
      BY <2>2, <3>2
    <3>4. \A a, b \in 1 .. n : s[a] = s[b] => a = b
      BY <1>2
    <3>5. p + 1 = q + 1
      BY <3>1, <3>3, <3>4
    <3> QED BY <1>1, <3>5
  <2>3. r.list.length = n - 1 /\ r.list.head = IF n - 1 = 0 THEN Null ELSE t[1]
    BY <1>1, <1>2, <1>5, <1>6, <1>7
  <2>4. ASSUME NEW p \in 1 .. n - 1 PROVE new[t[p]].prev = IF p = 1 THEN Null ELSE t[p - 1]
    <3>1. CASE p = 1
      BY <1>1, <1>5, <1>9, <3>1
    <3>2. CASE p # 1
      <4>1. p + 1 \in 1 .. n /\ t[p] = s[p + 1] /\ t[p - 1] = s[p] /\ p + 1 # 2 /\ n # 1 /\ p + 1 # 1
        BY <1>1, <1>5, <3>2
      <4>2. s[p + 1] \in D /\ s[p + 1] # nx
        BY <1>1, <1>2, <1>7, <1>8, <4>1
      <4>3. new[s[p + 1]] = hdr[s[p + 1]]
        BY <1>9, <4>2
      <4>4. hdr[s[p + 1]].prev = s[(p + 1) - 1]
        BY <1>2, <4>1
      <4> QED BY <1>1, <3>2, <4>1, <4>3, <4>4
    <3> QED BY <3>1, <3>2
  <2>5. ASSUME NEW p \in 1 .. n - 1 PROVE new[t[p]].next = IF p = n - 1 THEN Null ELSE t[p + 1]
    <3>0. p # n - 1 => p + 1 \in 1 .. n - 1
      BY <1>1
    <3>1. p + 1 \in 1 .. n /\ t[p] = s[p + 1] /\ (p # n - 1 => t[p + 1] = s[(p + 1) + 1])
      BY <1>1, <1>5, <3>0
    <3>2. new[s[p + 1]].next = hdr[s[p + 1]].next
      BY <1>1, <1>9, <3>1
    <3>3. hdr[s[p + 1]].next = IF p + 1 = n THEN Null ELSE s[(p + 1) + 1]
      BY <1>2, <3>1
    <3> QED BY <1>1, <3>1, <3>2, <3>3
  <2> QED BY <1>4, <2>1, <2>2, <2>3, <2>4, <2>5 DEF Linked
<1>13. Len(t) = Len(s) - 1 /\ \A p \in 1 .. Len(s) - 1 : t[p] = s[p + 1]
  BY <1>4, <1>5 DEF n
<1> QED BY <1>6, <1>9, <1>10, <1>11, <1>12, <1>13

(* detach faults exactly on the last of several blocks. *)
LEMMA FaultsOnLast ==
  ASSUME NEW D, Null \notin D, NEW hdr \in [D -> BlockType(D)], NEW list \in ListType(D),
         NEW s, Linked(s, list, hdr), NEW k \in 1 .. Len(s)
  PROVE  /\ DetachFaults(list, hdr, s[k]) <=> (k = Len(s) /\ Len(s) > 1)
         /\ (list.head = s[k] /\ hdr[s[k]].prev = Null) <=> k = 1
<1> DEFINE n == Len(s)
<1>1. s \in Seq(D) /\ n \in Nat /\ (\A p \in 1 .. n : s[p] \in D) /\ 1 \in 1 .. n /\ k \in 1 .. n
  BY LenProperties, ElementOfSeq DEF Linked
<1>2. /\ \A p, q \in 1 .. n : s[p] = s[q] => p = q
      /\ list.head = IF n = 0 THEN Null ELSE s[1]
      /\ \A p \in 1 .. n : /\ hdr[s[p]].prev = IF p = 1 THEN Null ELSE s[p - 1]
                           /\ hdr[s[p]].next = IF p = n THEN Null ELSE s[p + 1]
  BY DEF Linked
<1> HIDE DEF n
<1>3. hdr[s[k]].prev = Null <=> k = 1
  BY <1>1, <1>2
<1>4. hdr[s[k]].next = Null <=> k = n
  BY <1>1, <1>2
<1>5. list.head = s[k] <=> k = 1
  BY <1>1, <1>2
<1> QED BY <1>1, <1>3, <1>4, <1>5 DEF DetachFaults, n

(* detach: all but the k-th node are left. *)
Detached(D, hdr, s, k, r) ==
  /\ r.hdr \in [D -> BlockType(D)] /\ r.list \in ListType(D)
  /\ LinksOnly(hdr, r.hdr, s, s[k])
  /\ \E t : /\ Linked(t, r.list, r.hdr)
            /\ Len(t) = Len(s) - 1
            /\ \A p \in 1 .. Len(s) - 1 : t[p] = IF p < k THEN s[p] ELSE s[p + 1]

LEMMA DetachLinked ==
  ASSUME NEW D, Null \notin D, NEW hdr \in [D -> BlockType(D)], NEW list \in ListType(D),
         NEW s, Linked(s, list, hdr), NEW k \in 1 .. Len(s), ~DetachFaults(list, hdr, s[k])
  PROVE  Detached(D, hdr, s, k, detach(list, hdr, s[k]))
<1> DEFINE n == Len(s)
           t == [p \in 1 .. n - 1 |-> IF p < k THEN s[p] ELSE s[p + 1]]
           r == detach(list, hdr, s[k])
           b == hdr[s[k]].prev
           c == hdr[s[k]].next
           one == [hdr EXCEPT ![b].next = c]
           new == [one EXCEPT ![c].prev = b]
<1>1. s \in Seq(D) /\ n \in Nat /\ n - 1 \in Nat /\ (\A p \in 1 .. n : s[p] \in D) /\ 1 \in 1 .. n /\ k \in 1 .. n
  BY LenProperties, ElementOfSeq DEF Linked
<1>2. /\ \A p, q \in 1 .. n : s[p] = s[q] => p = q
      /\ list.length = n
      /\ list.head = IF n = 0 THEN Null ELSE s[1]
      /\ \A p \in 1 .. n : /\ hdr[s[p]].prev = IF p = 1 THEN Null ELSE s[p - 1]
                           /\ hdr[s[p]].next = IF p = n THEN Null ELSE s[p + 1]
  BY DEF Linked
<1>3. (list.head = s[k] /\ hdr[s[k]].prev = Null) <=> k = 1
  BY FaultsOnLast
<1>4. CASE k = 1
  <2>1. r = pop(list, hdr)
    BY <1>3, <1>4 DEF detach
  <2>2. /\ r.hdr \in [D -> BlockType(D)] /\ r.list \in ListType(D)
        /\ LinksOnly(hdr, r.hdr, s, s[1])
        /\ \E t1 : /\ Linked(t1, r.list, r.hdr)
                   /\ Len(t1) = Len(s) - 1
                   /\ \A p \in 1 .. Len(s) - 1 : t1[p] = s[p + 1]
    BY <1>1, <2>1, PopLinked
  <2> QED BY <1>4, <2>2 DEF Detached
<1>5. CASE k # 1
  <2>1. k # n
    BY <1>1, <1>5, FaultsOnLast
  <2>2. k - 1 \in 1 .. n /\ k + 1 \in 1 .. n /\ b = s[k - 1] /\ c = s[k + 1] /\ b # c /\ b \in D /\ c \in D
    BY <1>1, <1>2, <1>5, <2>1
  <2>3. t \in [1 .. n - 1 -> D]
    BY <1>1
  <2>4. t \in Seq(D) /\ Len(t) = n - 1
    BY <1>1, <2>3, FunctionIsSeq
  <2>5. \A p \in 1 .. n - 1 : t[p] = IF p < k THEN s[p] ELSE s[p + 1]
    OBVIOUS
  <2>6. r = [list |-> [list EXCEPT !.length = @ - 1], hdr |-> new]
    BY <1>3, <1>5 DEF detach
  <2>7. one \in [D -> BlockType(D)] /\ (\A a \in D : a # b => one[a] = hdr[a])
        /\ one[b].next = c /\ one[b].prev = hdr[b].prev /\ one[b].mgr = hdr[b].mgr
        /\ one[b].header = hdr[b].header /\ one[b].trailer = hdr[b].trailer
    <3> HIDE DEF b, c
    <3> QED BY <2>2 DEF BlockType
  <2> HIDE DEF one
  <2>8. new \in [D -> BlockType(D)] /\ (\A a \in D : a # c => new[a] = one[a])
        /\ new[c].prev = b /\ new[c].next = one[c].next /\ new[c].mgr = one[c].mgr
        /\ new[c].header = one[c].header /\ new[c].trailer = one[c].trailer
    <3> HIDE DEF b, c
    <3> QED BY <2>2, <2>7 DEF BlockType
  <2> HIDE DEF b, c, new, t, n
  <2>9. /\ \A a \in D : /\ new[a].mgr = hdr[a].mgr /\ new[a].header = hdr[a].header /\ new[a].trailer = hdr[a].trailer
                        /\ a # b => new[a].next = hdr[a].next
                        /\ a # c => new[a].prev = hdr[a].prev
                        /\ a # b /\ a # c => new[a] = hdr[a]
        /\ new[b].next = c /\ new[c].prev = b
    BY <2>2, <2>7, <2>8
  <2>10. r.list.head = list.head /\ r.list.length = n - 1 /\ r.list \in ListType(D) /\ r.hdr = new
    <3>1. r.hdr = new /\ r.list = [list EXCEPT !.length = @ - 1]
      BY <2>6
    <3> HIDE DEF r
    <3> QED BY <1>1, <1>2, <3>1 DEF ListType
  <2>11. LinksOnly(hdr, new, s, s[k])
    <3>1. DOMAIN new = D /\ DOMAIN hdr = D
      BY <2>8
    <3>2. ASSUME NEW a \in D, ~Among(a, s) PROVE new[a] = hdr[a]
      <4>1. a # b /\ a # c
        BY <2>2, <3>2 DEF Among, n
      <4> QED BY <2>9, <4>1
    <3> QED BY <2>9, <3>1, <3>2 DEF LinksOnly
  <2>12. Linked(t, r.list, new)
    <3>1. t \in Seq(DOMAIN new)
      BY <2>4, <2>8
    <3>2. ASSUME NEW p \in 1 .. n - 1, NEW q \in 1 .. n - 1, t[p] = t[q] PROVE p = q
      <4>1. p \in 1 .. n /\ p + 1 \in 1 .. n /\ q \in 1 .. n /\ q + 1 \in 1 .. n
        BY <1>1
      <4>2. (IF p < k THEN s[p] ELSE s[p + 1]) = (IF q < k THEN s[q] ELSE s[q + 1])
        BY <2>5, <3>2
      <4>3. CASE p < k /\ q < k
        BY <1>2, <4>1, <4>2, <4>3
      <4>4. CASE p < k /\ ~(q < k)
        <5>1. p = q + 1
          BY <1>2, <4>1, <4>2, <4>4
        <5> QED BY <1>1, <4>4, <5>1
      <4>5. CASE ~(p < k) /\ q < k
        <5>1. p + 1 = q
          BY <1>2, <4>1, <4>2, <4>5
        <5> QED BY <1>1, <4>5, <5>1
      <4>6. CASE ~(p < k) /\ ~(q < k)
        <5>1. p + 1 = q + 1
          BY <1>2, <4>1, <4>2, <4>6
        <5> QED BY <5>1
      <4> QED BY <4>3, <4>4, <4>5, <4>6
    <3>3. r.list.length = n - 1 /\ r.list.head = IF n - 1 = 0 THEN Null ELSE t[1]
      BY <1>1, <1>2, <1>5, <2>1, <2>5, <2>10
    <3>4. ASSUME NEW p \in 1 .. n - 1 PROVE new[t[p]].prev = IF p = 1 THEN Null ELSE t[p - 1]
      <4>1. CASE p < k
        <5>1. p \in 1 .. n /\ t[p] = s[p] /\ (p # 1 => t[p - 1] = s[p - 1]) /\ s[p] # c /\ s[p] \in D
          BY <1>1, <1>2, <2>2, <2>5, <4>1
        <5>2. new[s[p]].prev = hdr[s[p]].prev
          BY <2>9, <5>1
        <5> QED BY <1>2, <5>1, <5>2
      <4>2. CASE p = k
        BY <1>1, <1>5, <2>2, <2>5, <2>9, <4>2
      <4>3. CASE p > k
        <5>1. p + 1 \in 1 .. n /\ t[p] = s[p + 1] /\ t[p - 1] = s[p] /\ s[p + 1] # c /\ s[p + 1] \in D /\ p # 1 /\ p + 1 # 1
          BY <1>1, <1>2, <2>2, <2>5, <4>3
        <5>2. new[s[p + 1]].prev = hdr[s[p + 1]].prev
          BY <2>9, <5>1
        <5>3. hdr[s[p + 1]].prev = s[(p + 1) - 1]
          BY <1>2, <5>1
        <5> QED BY <1>1, <5>1, <5>2, <5>3
      <4> QED BY <1>1, <4>1, <4>2, <4>3
    <3>5. ASSUME NEW p \in 1 .. n - 1 PROVE new[t[p]].next = IF p = n - 1 THEN Null ELSE t[p + 1]
      <4>1. CASE p < k - 1
        <5>1. p \in 1 .. n /\ t[p] = s[p] /\ t[p + 1] = s[p + 1] /\ p # n - 1 /\ p # n /\ s[p] # b /\ s[p] \in D
          <6>1. p \in 1 .. n /\ p + 1 \in 1 .. n - 1 /\ p # n - 1 /\ p # n /\ p # k - 1
            BY <1>1, <4>1
          <6>2. t[p] = s[p] /\ t[p + 1] = s[p + 1]
            BY <1>1, <2>5, <4>1, <6>1
          <6> QED BY <1>1, <1>2, <2>2, <6>1, <6>2
        <5>2. new[s[p]].next = hdr[s[p]].next
          BY <2>9, <5>1
        <5> QED BY <1>2, <5>1, <5>2
      <4>2. CASE p = k - 1
        <5>1. t[p] = b /\ t[p + 1] = c /\ p # n - 1
          BY <1>1, <2>1, <2>2, <2>5, <4>2
        <5> QED BY <2>9, <5>1
      <4>3. CASE p >= k
        <5>1. p + 1 \in 1 .. n /\ t[p] = s[p + 1] /\ (p # n - 1 => t[p + 1] = s[(p + 1) + 1]) /\ s[p + 1] # b /\ s[p + 1] \in D
          BY <1>1, <1>2, <2>2, <2>5, <4>3
        <5>2. new[s[p + 1]].next = hdr[s[p + 1]].next
          BY <2>9, <5>1
        <5>3. hdr[s[p + 1]].next = IF p + 1 = n THEN Null ELSE s[(p + 1) + 1]
          BY <1>2, <5>1
        <5> QED BY <1>1, <5>1, <5>2, <5>3
      <4> QED BY <1>1, <4>1, <4>2, <4>3
    <3> QED BY <2>4, <3>1, <3>2, <3>3, <3>4, <3>5 DEF Linked
  <2>13. Len(t) = Len(s) - 1 /\ \A p \in 1 .. Len(s) - 1 : t[p] = IF p < k THEN s[p] ELSE s[p + 1]
    BY <2>4, <2>5 DEF n
  <2> QED BY <2>8, <2>10, <2>11, <2>12, <2>13 DEF Detached
<1> QED BY <1>4, <1>5

(* Following the next pointers meets exactly the linked blocks. *)
LEMMA ChainIs ==
  ASSUME IsFiniteSet(DOMAIN block), Null \notin DOMAIN block, NEW s, NEW list, Linked(s, list, block)
  PROVE  Chain(list) = s
<1> DEFINE n == Len(s)
           N == Cardinality(DOMAIN block)
           Step(w) == LET a == IF w = <<>> THEN list.head ELSE block[Last(w)].next
                      IN  IF a = Null THEN w ELSE Append(w, a)
           Rec(f) == f = [j \in 0 .. N |-> IF j = 0 THEN <<>> ELSE Step(f[j - 1])]
           Cut(j) == SubSeq(s, 1, IF j < n THEN j ELSE n)
           g == [j \in 0 .. N |-> Cut(j)]
           D == DOMAIN block
<1>1. s \in Seq(D) /\ n \in Nat /\ (\A p \in 1 .. n : s[p] \in D) /\ N \in Nat
  BY LenProperties, ElementOfSeq, FS_CardinalityType DEF Linked
<1>2. /\ \A p, q \in 1 .. n : s[p] = s[q] => p = q
      /\ list.head = IF n = 0 THEN Null ELSE s[1]
      /\ \A p \in 1 .. n : block[s[p]].next = IF p = n THEN Null ELSE s[p + 1]
  BY DEF Linked
<1>3. n <= N
  <2>1. s \in [1 .. n -> D]
    BY <1>1
  <2>2. s \in Injection(1 .. n, D)
    BY <1>2, <2>1 DEF Injection, IsInjective
  <2>3. Cardinality(1 .. n) <= N
    BY <2>2, FS_Injection
  <2>4. Cardinality(1 .. n) = n
    <3>1. PICK one \in Int : one = 1
      OBVIOUS
    <3>2. Cardinality(one .. n) = IF one > n THEN 0 ELSE n - one + 1
      <4> HIDE DEF n
      <4> QED BY <1>1, FS_Interval
    <3> HIDE DEF n
    <3> QED BY <1>1, <3>1, <3>2
  <2> QED BY <2>3, <2>4
<1>4. Chain(list) = (CHOOSE f : Rec(f))[N]
  BY DEF Chain
<1> HIDE DEF N, n, D
<1>5. ASSUME NEW j \in Nat
      PROVE  /\ Cut(j) \in Seq(D) /\ Len(Cut(j)) = (IF j < n THEN j ELSE n)
             /\ \A p \in 1 .. (IF j < n THEN j ELSE n) : Cut(j)[p] = s[p]
  <2>1. PICK m \in 0 .. n : m = IF j < n THEN j ELSE n
    BY <1>1
  <2>2. \A p \in 1 .. m : s[p] \in D
    BY <1>1
  <2>3. /\ SubSeq(s, 1, m) \in Seq(D) /\ Len(SubSeq(s, 1, m)) = m
        /\ \A p \in 1 .. m : SubSeq(s, 1, m)[p] = s[p]
    BY <1>1, <2>2, SubSeqProperties
  <2> QED BY <2>1, <2>3
<1> HIDE DEF Cut
<1>6. Cut(0) = <<>>
  <2>1. Cut(0) \in Seq(D) /\ Len(Cut(0)) = 0
    BY <1>1, <1>5
  <2> QED BY <2>1, EmptySeq
<1>7. Cut(N) = s
  <2>1. Cut(N) \in Seq(D) /\ Len(Cut(N)) = n /\ \A p \in 1 .. n : Cut(N)[p] = s[p]
    BY <1>1, <1>3, <1>5
  <2> QED BY <1>1, <2>1, SeqEqual DEF n
<1>8. ASSUME NEW j \in Nat \ {0} PROVE Step(Cut(j - 1)) = Cut(j)
  <2>1. PICK i \in Nat : i = j - 1
    OBVIOUS
  <2>2. /\ Cut(i) \in Seq(D) /\ Len(Cut(i)) = (IF i < n THEN i ELSE n)
        /\ \A p \in 1 .. (IF i < n THEN i ELSE n) : Cut(i)[p] = s[p]
    BY <1>5
  <2>3. /\ Cut(j) \in Seq(D) /\ Len(Cut(j)) = (IF j < n THEN j ELSE n)
        /\ \A p \in 1 .. (IF j < n THEN j ELSE n) : Cut(j)[p] = s[p]
    BY <1>5
  <2> DEFINE a == IF Cut(i) = <<>> THEN list.head ELSE block[Last(Cut(i))].next
  <2>4. a = IF i < n THEN s[j] ELSE Null
    <3>1. CASE i = 0 \/ n = 0
      <4>1. Len(Cut(i)) = 0
        BY <1>1, <2>2, <3>1
      <4>2. Cut(i) = <<>>
        BY <2>2, <4>1, EmptySeq
      <4> QED BY <1>1, <1>2, <2>1, <3>1, <4>2
    <3>2. CASE i # 0 /\ n # 0
      <4>1. PICK m \in 1 .. n : m = IF i < n THEN i ELSE n
        BY <1>1, <3>2
      <4>2. Len(Cut(i)) = m /\ Cut(i)[m] = s[m] /\ m # 0
        BY <1>1, <2>2, <4>1
      <4>3. Cut(i) # <<>> /\ Last(Cut(i)) = s[m]
        BY <2>2, <4>2, EmptySeq DEF Last
      <4>4. a = IF m = n THEN Null ELSE s[m + 1]
        BY <1>2, <4>1, <4>3
      <4> HIDE DEF a
      <4> QED BY <1>1, <2>1, <4>1, <4>4
    <3> QED BY <3>1, <3>2
  <2>5. Step(Cut(i)) = IF a = Null THEN Cut(i) ELSE Append(Cut(i), a)
    OBVIOUS
  <2> HIDE DEF a, Step
  <2>6. CASE i < n
    <3>1. j \in 1 .. n /\ s[j] \in D /\ a = s[j] /\ a # Null /\ j - 1 = i
      BY <1>1, <2>1, <2>4, <2>6 DEF D
    <3>2. /\ Append(Cut(i), s[j]) \in Seq(D) /\ Len(Append(Cut(i), s[j])) = i + 1
          /\ \A p \in 1 .. i : Append(Cut(i), s[j])[p] = Cut(i)[p]
          /\ Append(Cut(i), s[j])[i + 1] = s[j]
      BY <2>2, <2>6, <3>1, AppendProperties
    <3>3. Len(Cut(j)) = j /\ (\A p \in 1 .. j : Cut(j)[p] = s[p]) /\ (\A p \in 1 .. i : Cut(i)[p] = s[p])
      BY <1>1, <2>2, <2>3, <2>6, <3>1
    <3>4. \A p \in 1 .. j : Append(Cut(i), s[j])[p] = Cut(j)[p]
      <4> SUFFICES ASSUME NEW p \in 1 .. j PROVE Append(Cut(i), s[j])[p] = Cut(j)[p]
        OBVIOUS
      <4>1. CASE p = j
        BY <2>1, <3>2, <3>3, <4>1
      <4>2. CASE p # j
        <5>1. p \in 1 .. i
          BY <2>1, <4>2
        <5> QED BY <3>2, <3>3, <5>1
      <4> QED BY <4>1, <4>2
    <3>5. Append(Cut(i), s[j]) = Cut(j)
      BY <2>1, <2>3, <3>2, <3>3, <3>4, SeqEqual
    <3> QED BY <2>1, <2>5, <3>1, <3>5
  <2>7. CASE ~(i < n)
    <3>1. a = Null /\ ~(j < n)
      BY <1>1, <2>1, <2>4, <2>7
    <3>2. Cut(i) = Cut(j)
      BY <2>2, <2>3, <2>7, <3>1, SeqEqual
    <3> QED BY <2>1, <2>5, <3>1, <3>2
  <2> QED BY <2>6, <2>7
<1> HIDE DEF Step
<1>9. Rec(g)
  <2>1. ASSUME NEW j \in 0 .. N PROVE g[j] = IF j = 0 THEN <<>> ELSE Step(g[j - 1])
    <3>1. CASE j = 0
      BY <1>1, <1>6, <3>1
    <3>2. CASE j # 0
      <4>1. j \in Nat \ {0} /\ j - 1 \in 0 .. N
        BY <1>1, <3>2
      <4>2. g[j] = Cut(j) /\ g[j - 1] = Cut(j - 1)
        BY <4>1
      <4> HIDE DEF g
      <4> QED BY <1>8, <3>2, <4>1, <4>2
    <3> QED BY <3>1, <3>2
  <2> DEFINE h == [j \in 0 .. N |-> IF j = 0 THEN <<>> ELSE Step(g[j - 1])]
  <2>2. \A j \in 0 .. N : h[j] = g[j]
    <3> HIDE DEF g
    <3> QED BY <2>1
  <2>3. g = [j \in 0 .. N |-> g[j]] /\ h = [j \in 0 .. N |-> h[j]]
    OBVIOUS
  <2> HIDE DEF g, h
  <2>4. g = h
    BY <2>2, <2>3
  <2> QED BY <2>4 DEF h
<1>10. ASSUME NEW f, Rec(f) PROVE f[N] = s
  <2>1. ASSUME NEW j \in 0 .. N PROVE f[j] = IF j = 0 THEN <<>> ELSE Step(f[j - 1])
    BY <1>10
  <2> HIDE DEF Rec
  <2> DEFINE T == {j \in 0 .. N : f[j] # Cut(j)}
  <2>2. T = {}
    <3> SUFFICES ASSUME T # {} PROVE FALSE
      OBVIOUS
    <3>1. T \subseteq Nat
      BY <1>1
    <3>2. PICK j \in T : \A m \in T : j <= m
      BY <3>1, SmallestNumber
    <3>3. j # 0
      BY <1>6, <2>1, <3>2
    <3>4. j \in Nat \ {0} /\ j - 1 \in 0 .. N /\ ~(j <= j - 1)
      BY <1>1, <3>2, <3>3
    <3>5. f[j - 1] = Cut(j - 1)
      BY <3>2, <3>4
    <3>6. f[j] = Cut(j)
      BY <1>8, <2>1, <3>2, <3>3, <3>4, <3>5
    <3> QED BY <3>2, <3>6
  <2>3. N \in 0 .. N
    BY <1>1
  <2>4. f[N] = Cut(N)
    BY <2>2, <2>3
  <2> QED BY <1>7, <2>4
<1>11. \E f : Rec(f)
  BY <1>9
<1> HIDE DEF Rec
<1>12. Rec(CHOOSE f : Rec(f))
  BY <1>11
<1> QED BY <1>4, <1>10, <1>12

-----------------------------------------------------------------------------
(* What a manager's two lists hold: the kept blocks of its class, the one   *)
(* handed out last first, and its other blocks.                             *)
Owned(i, f, u, ml, hdr, kept, older) ==
  /\ Linked(f, ml.free, hdr)
  /\ Linked(u, ml.used, hdr)
  /\ \A a \in DOMAIN hdr : /\ Among(a, u) <=> (hdr[a].mgr = i /\ a \in kept)
                           /\ Among(a, f) <=> (hdr[a].mgr = i /\ a \notin kept)
  /\ \A p, q \in 1 .. Len(u) : <<u[p], u[q]>> \in older => q < p

SameLinks(old, new, a) == /\ new[a].mgr = old[a].mgr
                          /\ new[a].prev = old[a].prev
                          /\ new[a].next = old[a].next

(* A list does not depend on the blocks that are not on it. *)
LEMMA LinkedFrame ==
  ASSUME NEW hdr, NEW new, NEW list, NEW s, Linked(s, list, hdr), DOMAIN hdr \subseteq DOMAIN new,
         \A a \in DOMAIN hdr : Among(a, s) => SameLinks(hdr, new, a)
  PROVE  Linked(s, list, new)
<1>1. s \in Seq(DOMAIN hdr) /\ Len(s) \in Nat /\ \A p \in 1 .. Len(s) : s[p] \in DOMAIN hdr /\ Among(s[p], s)
  BY LenProperties, ElementOfSeq DEF Linked, Among
<1>2. s \in Seq(DOMAIN new)
  BY <1>1, SeqDef
<1>3. \A p \in 1 .. Len(s) : new[s[p]].prev = hdr[s[p]].prev /\ new[s[p]].next = hdr[s[p]].next
  BY <1>1 DEF SameLinks
<1> QED BY <1>2, <1>3 DEF Linked

(* The lists of a manager do not depend on the blocks of another class. *)
LEMMA OthersKeep ==
  ASSUME NEW i, NEW f, NEW u, NEW ml, NEW hdr, NEW new, NEW kept, NEW kept2, NEW older, NEW older2,
         Owned(i, f, u, ml, hdr, kept, older), DOMAIN hdr \subseteq DOMAIN new,
         \A a \in DOMAIN hdr : /\ new[a].mgr = hdr[a].mgr
                               /\ hdr[a].mgr = i => SameLinks(hdr, new, a) /\ (a \in kept2 <=> a \in kept),
         \A a \in DOMAIN new \ DOMAIN hdr : new[a].mgr # i,
         \A a, b \in DOMAIN hdr : hdr[a].mgr = i /\ hdr[b].mgr = i /\ <<a, b>> \in older2 => <<a, b>> \in older
  PROVE  Owned(i, f, u, ml, new, kept2, older2)
<1>1. /\ Linked(f, ml.free, hdr)
      /\ Linked(u, ml.used, hdr)
      /\ \A a \in DOMAIN hdr : /\ Among(a, u) <=> (hdr[a].mgr = i /\ a \in kept)
                               /\ Among(a, f) <=> (hdr[a].mgr = i /\ a \notin kept)
      /\ \A p, q \in 1 .. Len(u) : <<u[p], u[q]>> \in older => q < p
  BY DEF Owned
<1>2. Linked(f, ml.free, new) /\ Linked(u, ml.used, new)
  BY <1>1, LinkedFrame
<1>3. \A p \in 1 .. Len(u) : u[p] \in DOMAIN hdr /\ Among(u[p], u)
  BY <1>1, LenProperties, ElementOfSeq DEF Linked, Among
<1>4. \A p \in 1 .. Len(f) : f[p] \in DOMAIN hdr /\ Among(f[p], f)
  BY <1>1, LenProperties, ElementOfSeq DEF Linked, Among
<1>5. \A a : (Among(a, u) => a \in DOMAIN hdr) /\ (Among(a, f) => a \in DOMAIN hdr)
  BY <1>3, <1>4 DEF Among
<1>6. \A a \in DOMAIN new : /\ Among(a, u) <=> (new[a].mgr = i /\ a \in kept2)
                            /\ Among(a, f) <=> (new[a].mgr = i /\ a \notin kept2)
  BY <1>1, <1>5
<1>7. ASSUME NEW p \in 1 .. Len(u), NEW q \in 1 .. Len(u), <<u[p], u[q]>> \in older2 PROVE q < p
  BY <1>1, <1>3, <1>7
<1> QED BY <1>2, <1>6, <1>7 DEF Owned

(* A node on neither list goes first on the used list. *)
Added(D, hdr, i, f, u, free, kept, older, node, r) ==
  /\ r.hdr \in [D -> BlockType(D)] /\ r.list \in ListType(D)
  /\ LinksOnly(hdr, r.hdr, u, node)
  /\ \E t : Owned(i, f, t, [free |-> free, used |-> r.list], r.hdr, kept, older)

CanAdd(D, hdr, i, f, u, free, used, kept, older, node) ==
  /\ hdr \in [D -> BlockType(D)] /\ free \in ListType(D) /\ used \in ListType(D) /\ node \in D
  /\ Linked(f, free, hdr) /\ Linked(u, used, hdr)
  /\ ~Among(node, f) /\ ~Among(node, u) /\ hdr[node].mgr = i /\ node \in kept
  /\ \A a \in D : a # node => /\ Among(a, u) <=> (hdr[a].mgr = i /\ a \in kept)
                              /\ Among(a, f) <=> (hdr[a].mgr = i /\ a \notin kept)
  /\ \A p, q \in 1 .. Len(u) : <<u[p], u[q]>> \in older => q < p
  /\ \A a \in D : <<node, a>> \notin older

LEMMA AddUsed ==
  ASSUME NEW D, Null \notin D, NEW hdr, NEW i, NEW f, NEW u, NEW free, NEW used, NEW kept, NEW older, NEW node,
         CanAdd(D, hdr, i, f, u, free, used, kept, older, node)
  PROVE  Added(D, hdr, i, f, u, free, kept, older, node, push(used, hdr, node))
<1> DEFINE r == push(used, hdr, node)
           n == Len(u)
<1>0. /\ hdr \in [D -> BlockType(D)] /\ free \in ListType(D) /\ used \in ListType(D) /\ node \in D
      /\ Linked(f, free, hdr) /\ Linked(u, used, hdr)
      /\ ~Among(node, f) /\ ~Among(node, u) /\ hdr[node].mgr = i /\ node \in kept
      /\ \A a \in D : a # node => /\ Among(a, u) <=> (hdr[a].mgr = i /\ a \in kept)
                                  /\ Among(a, f) <=> (hdr[a].mgr = i /\ a \notin kept)
      /\ \A p, q \in 1 .. Len(u) : <<u[p], u[q]>> \in older => q < p
      /\ \A a \in D : <<node, a>> \notin older
  BY DEF CanAdd
<1>1. /\ r.hdr \in [D -> BlockType(D)] /\ r.list \in ListType(D)
      /\ LinksOnly(hdr, r.hdr, u, node)
      /\ \E t : /\ Linked(t, r.list, r.hdr)
                /\ Len(t) = Len(u) + 1 /\ t[1] = node
                /\ \A p \in 1 .. Len(u) : t[p + 1] = u[p]
  BY <1>0, PushLinked
<1> HIDE DEF r
<1>2. PICK t : /\ Linked(t, r.list, r.hdr)
               /\ Len(t) = n + 1 /\ t[1] = node
               /\ \A p \in 1 .. n : t[p + 1] = u[p]
  BY <1>1
<1>3. n \in Nat /\ (\A p \in 1 .. n : u[p] \in D) /\ DOMAIN r.hdr = D /\ DOMAIN hdr = D
  BY <1>0, <1>1, LenProperties, ElementOfSeq DEF Linked
<1>4. \A p \in 1 .. n + 1 : p = 1 \/ (p - 1 \in 1 .. n /\ t[p] = u[p - 1])
  <2> SUFFICES ASSUME NEW p \in 1 .. n + 1, p # 1 PROVE p - 1 \in 1 .. n /\ t[p] = u[p - 1]
    OBVIOUS
  <2>1. p - 1 \in 1 .. n /\ (p - 1) + 1 = p
    BY <1>3
  <2> QED BY <1>2, <2>1
<1>5. \A a : Among(a, t) <=> (a = node \/ Among(a, u))
  <2>1. ASSUME NEW a, Among(a, t) PROVE a = node \/ Among(a, u)
    BY <1>2, <1>4, <2>1 DEF Among
  <2>2. Among(node, t)
    BY <1>2, <1>3 DEF Among
  <2>3. ASSUME NEW a, Among(a, u) PROVE Among(a, t)
    <3>1. PICK p \in 1 .. n : u[p] = a
      BY <2>3 DEF Among
    <3>2. p + 1 \in 1 .. n + 1 /\ t[p + 1] = a
      BY <1>2, <1>3, <3>1
    <3> QED BY <1>2, <3>2 DEF Among
  <2> QED BY <2>1, <2>2, <2>3
<1>6. \A a \in D : r.hdr[a].mgr = hdr[a].mgr
  BY <1>1, <1>3 DEF LinksOnly
<1>7. \A a \in D : /\ Among(a, t) <=> (r.hdr[a].mgr = i /\ a \in kept)
                   /\ Among(a, f) <=> (r.hdr[a].mgr = i /\ a \notin kept)
  BY <1>0, <1>5, <1>6
<1>8. Linked(f, free, r.hdr)
  <2>1. \A a \in D : Among(a, f) => a # node /\ ~Among(a, u)
    BY <1>0, LenProperties, ElementOfSeq, <1>3 DEF Among
  <2>2. \A a \in D : Among(a, f) => r.hdr[a] = hdr[a]
    BY <1>0, <1>1, <1>3, <2>1 DEF LinksOnly
  <2> QED BY <1>0, <1>3, <2>2, LinkedFrame DEF SameLinks
<1>9. ASSUME NEW p \in 1 .. n + 1, NEW q \in 1 .. n + 1, <<t[p], t[q]>> \in older PROVE q < p
  <2>1. t[q] \in D
    BY <1>0, <1>2, <1>3, <1>4
  <2>2. p # 1
    BY <1>0, <1>2, <1>9, <2>1
  <2>3. CASE q = 1
    BY <1>3, <2>2, <2>3
  <2>4. CASE q # 1
    <3>1. p - 1 \in 1 .. n /\ q - 1 \in 1 .. n /\ t[p] = u[p - 1] /\ t[q] = u[q - 1]
      BY <1>4, <2>2, <2>4
    <3>2. q - 1 < p - 1
      BY <1>0, <1>9, <3>1
    <3> QED BY <1>3, <3>2
  <2> QED BY <2>3, <2>4
<1> DEFINE m2 == [free |-> free, used |-> r.list]
<1>10. Owned(i, f, t, m2, r.hdr, kept, older)
  <2>1. m2.free = free /\ m2.used = r.list
    OBVIOUS
  <2> HIDE DEF m2, n
  <2>2. \A p, q \in 1 .. Len(t) : <<t[p], t[q]>> \in older => q < p
    BY <1>2, <1>9
  <2> QED BY <1>2, <1>3, <1>7, <1>8, <2>1, <2>2 DEF Owned
<1> QED BY <1>1, <1>10 DEF r, Added

(* A call that gives a manager these two lists, and the blocks these links. *)
Relisted(D, hdr, i, kept, older, free, used, new) ==
  /\ new \in [D -> BlockType(D)] /\ used \in ListType(D) /\ free \in ListType(D)
  /\ \A a \in D : /\ new[a].mgr = hdr[a].mgr
                  /\ new[a].header = hdr[a].header
                  /\ new[a].trailer = hdr[a].trailer
                  /\ hdr[a].mgr # i => new[a] = hdr[a]
  /\ \E f, u : Owned(i, f, u, [free |-> free, used |-> used], new, kept, older)

(* alloc_exist: the first free block goes first on the used list. *)
AfterExist(D, hdr, ml, i, kept, older, free) ==
  LET used == push(ml.used, free.hdr, ml.free.head)
  IN  Relisted(D, hdr, i, kept, older, free.list, used.list, used.hdr)

(* Nothing was handed out after the node. *)
Newest(D, older, older2, node) ==
  /\ \A a \in D : <<node, a>> \notin older2
  /\ \A a, b \in D : <<a, b>> \in older2 /\ b # node => <<a, b>> \in older

LEMMA ExistOwned ==
  ASSUME NEW D, Null \notin D, NEW hdr \in [D -> BlockType(D)],
         NEW ml, ml.free \in ListType(D), ml.used \in ListType(D),
         NEW i, NEW f, NEW u, NEW kept, NEW older, Owned(i, f, u, ml, hdr, kept, older), ml.free.head # Null,
         NEW older2, Newest(D, older, older2, ml.free.head)
  PROVE  /\ ml.free.head \in D /\ hdr[ml.free.head].mgr = i /\ ml.free.head \notin kept
         /\ AfterExist(D, hdr, ml, i, kept \union {ml.free.head}, older2, pop(ml.free, hdr))
<1> DEFINE node == ml.free.head
           free == pop(ml.free, hdr)
           used == push(ml.used, free.hdr, node)
           n == Len(f)
           kept2 == kept \union {ml.free.head}
<1>0. /\ \A a \in D : <<ml.free.head, a>> \notin older2
      /\ \A a, b \in D : <<a, b>> \in older2 /\ b # ml.free.head => <<a, b>> \in older
  BY DEF Newest
<1>1. /\ Linked(f, ml.free, hdr)
      /\ Linked(u, ml.used, hdr)
      /\ DOMAIN hdr = D
      /\ \A a \in D : /\ Among(a, u) <=> (hdr[a].mgr = i /\ a \in kept)
                      /\ Among(a, f) <=> (hdr[a].mgr = i /\ a \notin kept)
      /\ \A p, q \in 1 .. Len(u) : <<u[p], u[q]>> \in older => q < p
  BY DEF Owned
<1>2. n # 0 /\ n \in Nat /\ node = f[1] /\ (\A p \in 1 .. n : f[p] \in D) /\ \A p, q \in 1 .. n : f[p] = f[q] => p = q
  BY <1>1, LenProperties, ElementOfSeq DEF Linked
<1>3. node \in D /\ Among(node, f) /\ hdr[node].mgr = i /\ node \notin kept /\ ~Among(node, u)
  BY <1>1, <1>2 DEF Among
<1>4. /\ free.hdr \in [D -> BlockType(D)] /\ free.list \in ListType(D)
      /\ LinksOnly(hdr, free.hdr, f, f[1])
      /\ \E t : /\ Linked(t, free.list, free.hdr)
                /\ Len(t) = Len(f) - 1
                /\ \A p \in 1 .. Len(f) - 1 : t[p] = f[p + 1]
  BY <1>1, <1>2, PopLinked
<1> HIDE DEF free, n, node
<1>5. PICK t : /\ Linked(t, free.list, free.hdr)
               /\ Len(t) = n - 1
               /\ \A p \in 1 .. n - 1 : t[p] = f[p + 1]
  BY <1>4 DEF n
<1>6. \A a : Among(a, t) <=> (a # node /\ Among(a, f))
  <2>1. ASSUME NEW a, Among(a, t) PROVE a # node /\ Among(a, f)
    <3>1. PICK p \in 1 .. n - 1 : t[p] = a
      BY <1>5, <2>1 DEF Among
    <3>2. p + 1 \in 1 .. n /\ f[p + 1] = a /\ p + 1 # 1 /\ 1 \in 1 .. n
      BY <1>2, <1>5, <3>1
    <3> QED BY <1>2, <3>2 DEF Among, n
  <2>2. ASSUME NEW a, a # node, Among(a, f) PROVE Among(a, t)
    <3>1. PICK p \in 1 .. n : f[p] = a
      BY <2>2 DEF Among, n
    <3>2. p - 1 \in 1 .. n - 1 /\ (p - 1) + 1 = p
      BY <1>2, <2>2, <3>1
    <3>3. t[p - 1] = f[(p - 1) + 1]
      BY <1>5, <3>2
    <3>4. t[p - 1] = a
      BY <3>1, <3>2, <3>3
    <3> QED BY <1>5, <3>2, <3>4 DEF Among
  <2> QED BY <2>1, <2>2
<1>7. \A a \in D : /\ free.hdr[a].mgr = hdr[a].mgr /\ free.hdr[a].header = hdr[a].header /\ free.hdr[a].trailer = hdr[a].trailer
                   /\ ~Among(a, f) => free.hdr[a] = hdr[a]
  BY <1>1, <1>2, <1>3, <1>4 DEF LinksOnly
<1>8. Linked(u, ml.used, free.hdr)
  <2>1. \A a \in D : Among(a, u) => free.hdr[a] = hdr[a]
    BY <1>1, <1>7
  <2>2. DOMAIN free.hdr = D
    BY <1>4
  <2> QED BY <1>1, <2>1, <2>2, LinkedFrame DEF SameLinks
<1>10. \A a \in D : a # node => /\ Among(a, u) <=> (free.hdr[a].mgr = i /\ a \in kept2)
                                /\ Among(a, t) <=> (free.hdr[a].mgr = i /\ a \notin kept2)
  BY <1>1, <1>6, <1>7 DEF node
<1>11. \A p, q \in 1 .. Len(u) : <<u[p], u[q]>> \in older2 => q < p
  <2>1. \A p \in 1 .. Len(u) : u[p] \in D /\ u[p] # node
    BY <1>1, <1>3, LenProperties, ElementOfSeq DEF Linked, Among
  <2> QED BY <1>0, <1>1, <2>1 DEF node
<1>12. node \in kept2 /\ (\A a \in D : <<node, a>> \notin older2) /\ free.hdr[node].mgr = i /\ ~Among(node, t)
  BY <1>0, <1>3, <1>6, <1>7 DEF node
<1>13. Added(D, free.hdr, i, t, u, free.list, kept2, older2, node, used)
  <2> DEFINE h == free.hdr
             fl == free.list
             ul == ml.used
  <2>1. h \in [D -> BlockType(D)] /\ fl \in ListType(D) /\ ul \in ListType(D) /\ node \in D
    BY <1>3, <1>4
  <2>2. Linked(t, fl, h) /\ Linked(u, ul, h)
    BY <1>5, <1>8
  <2>3. /\ h[node].mgr = i
        /\ \A a \in D : a # node => /\ Among(a, u) <=> (h[a].mgr = i /\ a \in kept2)
                                    /\ Among(a, t) <=> (h[a].mgr = i /\ a \notin kept2)
    BY <1>10, <1>12
  <2> HIDE DEF h, fl, ul
  <2>4. ~Among(node, t) /\ ~Among(node, u) /\ node \in kept2 /\ (\A a \in D : <<node, a>> \notin older2)
    BY <1>3, <1>12
  <2>5. Added(D, h, i, t, u, fl, kept2, older2, node, push(ul, h, node))
    <3>1. CanAdd(D, h, i, t, u, fl, ul, kept2, older2, node)
      BY <1>11, <2>1, <2>2, <2>3, <2>4 DEF CanAdd
    <3> QED BY <3>1, AddUsed
  <2> QED BY <2>5 DEF h, fl, ul
<1>14. /\ used.hdr \in [D -> BlockType(D)] /\ used.list \in ListType(D)
       /\ LinksOnly(free.hdr, used.hdr, u, node)
       /\ \E u2 : Owned(i, t, u2, [free |-> free.list, used |-> used.list], used.hdr, kept2, older2)
  BY <1>13 DEF Added
<1> HIDE DEF used
<1>15. \A a \in D : /\ used.hdr[a].mgr = hdr[a].mgr
                    /\ used.hdr[a].header = hdr[a].header
                    /\ used.hdr[a].trailer = hdr[a].trailer
                    /\ hdr[a].mgr # i => used.hdr[a] = hdr[a]
  <2>1. DOMAIN free.hdr = D
    BY <1>4
  <2>2. \A a \in D : /\ used.hdr[a].mgr = free.hdr[a].mgr
                     /\ used.hdr[a].header = free.hdr[a].header
                     /\ used.hdr[a].trailer = free.hdr[a].trailer
                     /\ a # node /\ ~Among(a, u) => used.hdr[a] = free.hdr[a]
    BY <1>14, <2>1 DEF LinksOnly
  <2> QED BY <1>1, <1>3, <1>7, <2>2
<1>16. Relisted(D, hdr, i, kept2, older2, free.list, used.list, used.hdr)
  BY <1>4, <1>14, <1>15 DEF Relisted
<1> QED BY <1>3, <1>16 DEF used, free, node, AfterExist

(* free: a block leaves the used list and goes first on the free list. *)
AfterFree(D, hdr, ml, i, node, kept, older, used) ==
  LET free == push(ml.free, used.hdr, node)
  IN  Relisted(D, hdr, i, kept, older, free.list, used.list, free.hdr)

LEMMA FreeOwned ==
  ASSUME NEW D, Null \notin D, NEW hdr \in [D -> BlockType(D)],
         NEW ml, ml.free \in ListType(D), ml.used \in ListType(D), NEW node \in D,
         NEW i, NEW f, NEW u, NEW kept, NEW older, Owned(i, f, u, ml, hdr, kept, older), hdr[node].mgr = i, node \in kept,
         ~DetachFaults(ml.used, hdr, node),
         NEW kept2, NEW older2, kept2 = kept \ {node}, older2 \subseteq older
  PROVE  AfterFree(D, hdr, ml, i, node, kept2, older2, detach(ml.used, hdr, node))
<1> DEFINE used == detach(ml.used, hdr, node)
           free == push(ml.free, used.hdr, node)
           n == Len(u)
<1>1. /\ Linked(f, ml.free, hdr)
      /\ Linked(u, ml.used, hdr)
      /\ DOMAIN hdr = D
      /\ \A a \in D : /\ Among(a, u) <=> (hdr[a].mgr = i /\ a \in kept)
                      /\ Among(a, f) <=> (hdr[a].mgr = i /\ a \notin kept)
      /\ \A p, q \in 1 .. Len(u) : <<u[p], u[q]>> \in older => q < p
  BY DEF Owned
<1>2. n \in Nat /\ (\A p \in 1 .. n : u[p] \in D) /\ \A p, q \in 1 .. n : u[p] = u[q] => p = q
  BY <1>1, LenProperties, ElementOfSeq DEF Linked
<1>3. Among(node, u) /\ ~Among(node, f)
  BY <1>1
<1>4. PICK k \in 1 .. n : u[k] = node
  BY <1>3 DEF Among
<1>5. /\ used.hdr \in [D -> BlockType(D)] /\ used.list \in ListType(D)
      /\ LinksOnly(hdr, used.hdr, u, node)
      /\ \E t : /\ Linked(t, used.list, used.hdr)
                /\ Len(t) = Len(u) - 1
                /\ \A p \in 1 .. Len(u) - 1 : t[p] = IF p < k THEN u[p] ELSE u[p + 1]
  <2>1. ~DetachFaults(ml.used, hdr, u[k])
    BY <1>4
  <2>2. Detached(D, hdr, u, k, detach(ml.used, hdr, u[k]))
    BY <1>1, <2>1, DetachLinked
  <2>3. Detached(D, hdr, u, k, used)
    BY <1>4, <2>2
  <2> QED BY <1>4, <2>3 DEF Detached
<1> HIDE DEF used, n
<1>6. PICK t : /\ Linked(t, used.list, used.hdr)
               /\ Len(t) = n - 1
               /\ \A p \in 1 .. n - 1 : t[p] = IF p < k THEN u[p] ELSE u[p + 1]
  BY <1>5 DEF n
<1> DEFINE From(p) == IF p < k THEN p ELSE p + 1
<1>7. \A p \in 1 .. n - 1 : From(p) \in 1 .. n /\ From(p) # k /\ t[p] = u[From(p)]
  BY <1>2, <1>6
<1>8. \A p, q \in 1 .. n - 1 : From(q) < From(p) => q < p
  BY <1>2
<1> HIDE DEF From
<1>9. \A a : Among(a, t) <=> (a # node /\ Among(a, u))
  <2>1. ASSUME NEW a, Among(a, t) PROVE a # node /\ Among(a, u)
    <3>1. PICK p \in 1 .. n - 1 : t[p] = a
      BY <1>6, <2>1 DEF Among
    <3> QED BY <1>2, <1>4, <1>7, <3>1 DEF Among, n
  <2>2. ASSUME NEW a, a # node, Among(a, u) PROVE Among(a, t)
    <3>1. PICK p \in 1 .. n : u[p] = a
      BY <2>2 DEF Among, n
    <3>2. p # k
      BY <1>4, <2>2, <3>1
    <3>3. CASE p < k
      <4>1. p \in 1 .. n - 1 /\ t[p] = a
        BY <1>2, <1>6, <3>1, <3>3
      <4> QED BY <1>6, <4>1 DEF Among
    <3>4. CASE p > k
      <4>1. p - 1 \in 1 .. n - 1 /\ ~(p - 1 < k) /\ (p - 1) + 1 = p
        BY <1>2, <3>4
      <4>2. t[p - 1] = a
        BY <1>6, <3>1, <4>1
      <4> QED BY <1>6, <4>1, <4>2 DEF Among
    <3> QED BY <1>2, <3>2, <3>3, <3>4
  <2> QED BY <2>1, <2>2
<1>10. \A a \in D : /\ used.hdr[a].mgr = hdr[a].mgr /\ used.hdr[a].header = hdr[a].header /\ used.hdr[a].trailer = hdr[a].trailer
                    /\ ~Among(a, u) => used.hdr[a] = hdr[a]
  BY <1>1, <1>3, <1>5 DEF LinksOnly
<1>11. DOMAIN used.hdr = D
  BY <1>5
<1>12. Linked(f, ml.free, used.hdr)
  <2>1. \A a \in D : Among(a, f) => used.hdr[a] = hdr[a]
    BY <1>1, <1>10
  <2> QED BY <1>1, <1>11, <2>1, LinkedFrame DEF SameLinks
<1>13. /\ free.hdr \in [D -> BlockType(D)] /\ free.list \in ListType(D)
       /\ LinksOnly(used.hdr, free.hdr, f, node)
       /\ \E v : /\ Linked(v, free.list, free.hdr)
                 /\ Len(v) = Len(f) + 1 /\ v[1] = node
                 /\ \A p \in 1 .. Len(f) : v[p + 1] = f[p]
  <2> DEFINE h == used.hdr
  <2>1. h \in [D -> BlockType(D)] /\ Linked(f, ml.free, h)
    BY <1>5, <1>12
  <2> HIDE DEF h
  <2>2. LET r == push(ml.free, h, node)
        IN  /\ r.hdr \in [D -> BlockType(D)] /\ r.list \in ListType(D)
            /\ LinksOnly(h, r.hdr, f, node)
            /\ \E v : /\ Linked(v, r.list, r.hdr)
                      /\ Len(v) = Len(f) + 1 /\ v[1] = node
                      /\ \A p \in 1 .. Len(f) : v[p + 1] = f[p]
    BY <1>3, <2>1, PushLinked
  <2> QED BY <2>2 DEF h
<1> HIDE DEF free
<1> DEFINE m == Len(f)
<1>14. PICK v : /\ Linked(v, free.list, free.hdr)
                /\ Len(v) = m + 1 /\ v[1] = node
                /\ \A p \in 1 .. m : v[p + 1] = f[p]
  BY <1>13
<1>15. m \in Nat
  BY <1>1, LenProperties DEF Linked
<1> HIDE DEF m
<1>16. \A a : Among(a, v) <=> (a = node \/ Among(a, f))
  <2>1. ASSUME NEW a, Among(a, v) PROVE a = node \/ Among(a, f)
    <3>1. PICK p \in 1 .. m + 1 : v[p] = a
      BY <1>14, <2>1 DEF Among
    <3>2. CASE p = 1
      BY <1>14, <3>1, <3>2
    <3>3. CASE p # 1
      <4>1. p - 1 \in 1 .. m /\ (p - 1) + 1 = p
        BY <1>15, <3>3
      <4>2. f[p - 1] = a
        BY <1>14, <3>1, <4>1
      <4> QED BY <4>1, <4>2 DEF Among, m
    <3> QED BY <3>2, <3>3
  <2>2. Among(node, v)
    BY <1>14, <1>15 DEF Among
  <2>3. ASSUME NEW a, Among(a, f) PROVE Among(a, v)
    <3>1. PICK p \in 1 .. m : f[p] = a
      BY <2>3 DEF Among, m
    <3>2. p + 1 \in 1 .. m + 1 /\ v[p + 1] = a
      BY <1>14, <1>15, <3>1
    <3> QED BY <1>14, <3>2 DEF Among
  <2> QED BY <2>1, <2>2, <2>3
<1>17. \A a \in D : /\ free.hdr[a].mgr = used.hdr[a].mgr
                    /\ free.hdr[a].header = used.hdr[a].header
                    /\ free.hdr[a].trailer = used.hdr[a].trailer
                    /\ a # node /\ ~Among(a, f) => free.hdr[a] = used.hdr[a]
  BY <1>11, <1>13 DEF LinksOnly
<1>18. Linked(t, used.list, free.hdr)
  <2>1. \A a \in D : Among(a, t) => free.hdr[a] = used.hdr[a]
    BY <1>1, <1>9, <1>17
  <2>2. DOMAIN free.hdr = D
    BY <1>13
  <2> QED BY <1>6, <1>11, <2>1, <2>2, LinkedFrame DEF SameLinks
<1>19. \A a \in D : /\ free.hdr[a].mgr = hdr[a].mgr
                    /\ free.hdr[a].header = hdr[a].header
                    /\ free.hdr[a].trailer = hdr[a].trailer
                    /\ hdr[a].mgr # i => free.hdr[a] = hdr[a]
  BY <1>1, <1>10, <1>17
<1>20. \A a \in D : /\ Among(a, t) <=> (free.hdr[a].mgr = i /\ a \in kept2)
                    /\ Among(a, v) <=> (free.hdr[a].mgr = i /\ a \notin kept2)
  BY <1>1, <1>9, <1>16, <1>19
<1>21. ASSUME NEW p \in 1 .. n - 1, NEW q \in 1 .. n - 1, <<t[p], t[q]>> \in older2 PROVE q < p
  <2>1. <<u[From(p)], u[From(q)]>> \in older /\ From(p) \in 1 .. n /\ From(q) \in 1 .. n
    BY <1>7, <1>21
  <2>2. From(q) < From(p)
    BY <1>1, <2>1 DEF n
  <2> QED BY <1>8, <2>2
<1> DEFINE m2 == [free |-> free.list, used |-> used.list]
<1>22. Owned(i, v, t, m2, free.hdr, kept2, older2)
  <2>1. m2.free = free.list /\ m2.used = used.list
    OBVIOUS
  <2>2. DOMAIN free.hdr = D
    BY <1>13
  <2> HIDE DEF m2
  <2>3. \A p, q \in 1 .. Len(t) : <<t[p], t[q]>> \in older2 => q < p
    BY <1>6, <1>21
  <2> QED BY <1>14, <1>18, <1>20, <2>1, <2>2, <2>3 DEF Owned
<1>23. Relisted(D, hdr, i, kept2, older2, free.list, used.list, free.hdr)
  BY <1>5, <1>13, <1>19, <1>22 DEF Relisted
<1> QED BY <1>23 DEF free, used, AfterFree

-----------------------------------------------------------------------------
(* The inductive invariant. *)

Blocks == DOMAIN block

Taken == Held \union leaked

(* Which of two held blocks was handed out first. *)
Older == {p \in Blocks \X Blocks : \E j, k \in DOMAIN handed : j < k /\ p = <<handed[j].at, handed[k].at>>}

PoolTypes ==
  /\ cur \in beg .. (beg + ArenaSize)
  /\ Blocks \subseteq beg .. (cur - 1)
  /\ block \in [Blocks -> BlockType(Blocks)]
  /\ lists \in [Managers -> [free : ListType(Blocks), used : ListType(Blocks)]]
  /\ leaked \subseteq Blocks
  /\ crashed \in BOOLEAN

HandedInv ==
  /\ handed \in Seq([at : Blocks, size : Requests])
  /\ \A j, k \in DOMAIN handed : handed[j].at = handed[k].at => j = k
  /\ \A k \in DOMAIN handed : handed[k].at \notin leaked
  /\ \A k \in DOMAIN handed : block[handed[k].at].mgr = find_block_manager(align8(handed[k].size))

ListsOwned == \A i \in Managers : \E f, u : Owned(i, f, u, lists[i], block, Taken, Older)

PoolIInv == PoolTypes /\ HandedInv /\ FreeBlocksAreIntact /\ (~crashed => ListsOwned)

LEMMA HandedDomain ==
  ASSUME HandedInv
  PROVE  /\ DOMAIN handed = 1 .. Len(handed) /\ Len(handed) \in Nat
         /\ \A k \in DOMAIN handed : handed[k].at \in Blocks /\ handed[k].size \in Requests
         /\ handed \in Seq([at : Blocks, size : Requests])
<1> DEFINE S == [at : Blocks, size : Requests]
<1>1. handed \in Seq(S)
  BY DEF HandedInv
<1>2. \A e \in S : e.at \in Blocks /\ e.size \in Requests
  OBVIOUS
<1> HIDE DEF S
<1>3. \A k \in 1 .. Len(handed) : handed[k] \in S
  BY <1>1, ElementOfSeq
<1>4. DOMAIN handed = 1 .. Len(handed) /\ Len(handed) \in Nat
  BY <1>1, LenProperties
<1> QED BY <1>1, <1>2, <1>3, <1>4 DEF S

LEMMA HandOutStep ==
  ASSUME HandedInv, NEW a, a \in Blocks', NEW size \in Requests, a \notin Taken, Blocks \subseteq Blocks',
         HandOut(a, size), UNCHANGED leaked,
         block'[a].mgr = find_block_manager(align8(size)),
         \A b \in Blocks : block'[b].mgr = block[b].mgr
  PROVE  /\ HandedInv'
         /\ Taken' = Taken \union {a}
         /\ \A b : <<a, b>> \notin Older'
         /\ \A b, c : <<b, c>> \in Older' /\ c # a => <<b, c>> \in Older
<1> DEFINE n == Len(handed)
           e == [at |-> a, size |-> size]
           S == [at : Blocks', size : Requests]
<1>1. /\ DOMAIN handed = 1 .. n /\ n \in Nat
      /\ \A k \in DOMAIN handed : handed[k].at \in Blocks /\ handed[k].size \in Requests
      /\ handed \in Seq([at : Blocks, size : Requests])
  BY HandedDomain
<1>2. handed \in Seq(S)
  <2>1. \A k \in 1 .. n : handed[k] \in [at : Blocks, size : Requests]
    BY <1>1, ElementOfSeq
  <2>2. \A k \in 1 .. n : handed[k] \in S
    BY <2>1
  <2>3. handed \in [1 .. n -> S]
    BY <1>1, <2>2, LenProperties
  <2> HIDE DEF S
  <2> QED BY <1>1, <2>3, FunctionIsSeq
<1>3. e \in S /\ e.at = a /\ e.size = size
  OBVIOUS
<1>4. handed' = Append(handed, e)
  BY DEF HandOut
<1> HIDE DEF S, e
<1>5. /\ handed' \in Seq(S) /\ Len(handed') = n + 1 /\ DOMAIN handed' = 1 .. n + 1
      /\ \A k \in 1 .. n : handed'[k] = handed[k]
      /\ handed'[n + 1] = e
  BY <1>1, <1>2, <1>3, <1>4, AppendProperties, LenProperties
<1>6. \A k \in DOMAIN handed' : k \in DOMAIN handed \/ k = n + 1
  BY <1>1, <1>5
<1>7. Held' = Held \union {a}
  <2>1. ASSUME NEW x \in Held' PROVE x \in Held \union {a}
    <3>1. PICK k \in DOMAIN handed' : x = handed'[k].at
      BY <2>1 DEF Held
    <3> QED BY <1>1, <1>3, <1>5, <1>6, <3>1 DEF Held
  <2>2. a \in Held'
    <3>1. n + 1 \in DOMAIN handed'
      BY <1>1, <1>5
    <3> QED BY <1>3, <1>5, <3>1 DEF Held
  <2>3. ASSUME NEW x \in Held PROVE x \in Held'
    <3>1. PICK k \in DOMAIN handed : x = handed[k].at
      BY <2>3 DEF Held
    <3>2. k \in DOMAIN handed' /\ handed'[k].at = x
      BY <1>1, <1>5, <3>1
    <3> QED BY <3>2 DEF Held
  <2> QED BY <2>1, <2>2, <2>3
<1>8. Taken' = Taken \union {a}
  BY <1>7 DEF Taken
<1>9. \A k \in DOMAIN handed : handed[k].at # a /\ handed[k].at \in Taken
  BY DEF Taken, Held
<1>10. HandedInv'
  <2>1. \A j, k \in DOMAIN handed' : handed'[j].at = handed'[k].at => j = k
    BY <1>1, <1>3, <1>5, <1>6, <1>9 DEF HandedInv
  <2>2. \A k \in DOMAIN handed' : handed'[k].at \notin leaked'
    BY <1>1, <1>3, <1>5, <1>6 DEF HandedInv, Taken
  <2>3. ASSUME NEW k \in DOMAIN handed'
        PROVE  block'[handed'[k].at].mgr = find_block_manager(align8(handed'[k].size))
    <3>1. CASE k \in DOMAIN handed
      <4>1. handed'[k] = handed[k] /\ handed[k].at \in Blocks
        BY <1>1, <1>5, <3>1
      <4> QED BY <3>1, <4>1 DEF HandedInv
    <3>2. CASE k = n + 1
      BY <1>3, <1>5, <3>2
    <3> QED BY <1>6, <3>1, <3>2
  <2> QED BY <1>5, <2>1, <2>2, <2>3 DEF HandedInv, S
<1>11. ASSUME NEW b, NEW c, <<b, c>> \in Older' PROVE b # a /\ (c # a => <<b, c>> \in Older)
  <2>1. PICK j \in DOMAIN handed', k \in DOMAIN handed' : j < k /\ b = handed'[j].at /\ c = handed'[k].at
    BY <1>11 DEF Older
  <2>2. j \in DOMAIN handed
    BY <1>1, <1>5, <2>1
  <2>3. b = handed[j].at /\ b \in Blocks
    BY <1>1, <1>5, <2>1, <2>2
  <2>4. ASSUME c # a PROVE <<b, c>> \in Older
    <3>1. k \in DOMAIN handed
      BY <1>3, <1>5, <1>6, <2>1, <2>4
    <3>2. c = handed[k].at /\ c \in Blocks
      BY <1>1, <1>5, <2>1, <3>1
    <3> QED BY <2>1, <2>2, <2>3, <3>1, <3>2 DEF Older
  <2> QED BY <1>9, <2>2, <2>3, <2>4
<1> QED BY <1>8, <1>10, <1>11

(* What is handed out stays so when another block is handed out. *)
LEMMA HandOutKeepsHeld ==
  ASSUME HandedInv, NEW e, handed' = Append(handed, e)
  PROVE  Held \subseteq Held'
<1> DEFINE n == Len(handed)
           S == [at : Blocks, size : Requests] \union {e}
<1>1. DOMAIN handed = 1 .. n /\ n \in Nat /\ handed \in Seq([at : Blocks, size : Requests])
  BY HandedDomain
<1>2. handed \in [1 .. n -> S]
  BY <1>1, LenProperties, ElementOfSeq
<1>3. e \in S
  OBVIOUS
<1> HIDE DEF S
<1>4. handed \in Seq(S)
  BY <1>1, <1>2, FunctionIsSeq
<1>5. DOMAIN handed' = 1 .. n + 1 /\ \A k \in 1 .. n : handed'[k] = handed[k]
  <2>1. handed' \in Seq(S) /\ Len(handed') = n + 1 /\ \A k \in 1 .. n : handed'[k] = handed[k]
    BY <1>3, <1>4, AppendProperties
  <2> QED BY <2>1, LenProperties
<1> QED BY <1>1, <1>5 DEF Held

(* A block given back is the only one that is no longer held. *)
LEMMA OthersStillHeld ==
  ASSUME HandedInv, NEW k \in DOMAIN handed, handed' = RemoveAt(handed, k)
  PROVE  \A x \in Held : x # handed[k].at => x \in Held'
<1> DEFINE n == Len(handed)
           S == [at : Blocks, size : Requests]
<1>1. DOMAIN handed = 1 .. n /\ n \in Nat /\ handed \in Seq(S)
  BY HandedDomain
<1> HIDE DEF S
<1>2. /\ DOMAIN handed' = 1 .. n - 1
      /\ \A j \in 1 .. n - 1 : handed'[j] = IF j < k THEN handed[j] ELSE handed[j + 1]
  <2>1. /\ RemoveAt(handed, k) \in Seq(S) /\ Len(RemoveAt(handed, k)) = n - 1
        /\ \A j \in 1 .. n - 1 : RemoveAt(handed, k)[j] = IF j < k THEN handed[j] ELSE handed[j + 1]
    BY <1>1, RemoveAtProperties
  <2> QED BY <2>1, LenProperties
<1>3. ASSUME NEW j \in DOMAIN handed, j # k PROVE \E i \in DOMAIN handed' : handed'[i] = handed[j]
  <2>1. CASE j < k
    <3>1. j \in DOMAIN handed'
      BY <1>1, <1>2, <2>1
    <3> QED BY <1>2, <2>1, <3>1
  <2>2. CASE j > k
    <3>1. j - 1 \in DOMAIN handed' /\ ~(j - 1 < k) /\ (j - 1) + 1 = j
      BY <1>1, <1>2, <2>2
    <3>2. handed'[j - 1] = handed[(j - 1) + 1]
      BY <1>2, <3>1
    <3>3. handed'[j - 1] = handed[j]
      BY <3>1, <3>2
    <3> QED BY <3>1, <3>3
  <2> QED BY <1>1, <1>3, <2>1, <2>2
<1>4. ASSUME NEW x \in Held, x # handed[k].at PROVE x \in Held'
  <2>1. PICK j \in DOMAIN handed : x = handed[j].at
    BY <1>4 DEF Held
  <2>2. PICK i \in DOMAIN handed' : handed'[i] = handed[j]
    BY <1>3, <1>4, <2>1
  <2> QED BY <2>1, <2>2 DEF Held
<1> QED BY <1>4

LEMMA TakeBackStep ==
  ASSUME HandedInv, NEW k \in DOMAIN handed, handed' = RemoveAt(handed, k), Blocks' = Blocks,
         leaked' \subseteq leaked \union {handed[k].at},
         \A b \in Blocks : block'[b].mgr = block[b].mgr
  PROVE  /\ HandedInv'
         /\ Held' = Held \ {handed[k].at}
         /\ Older' \subseteq Older
         /\ handed[k].at \in Blocks /\ handed[k].at \in Held /\ handed[k].at \notin leaked
<1> DEFINE n == Len(handed)
           S == [at : Blocks, size : Requests]
<1>1. /\ DOMAIN handed = 1 .. n /\ n \in Nat
      /\ \A j \in DOMAIN handed : handed[j].at \in Blocks /\ handed[j].size \in Requests
      /\ handed \in Seq(S)
  BY HandedDomain
<1> HIDE DEF S
<1>2. /\ handed' \in Seq(S) /\ Len(handed') = n - 1 /\ DOMAIN handed' = 1 .. n - 1
      /\ \A j \in 1 .. n - 1 : handed'[j] = IF j < k THEN handed[j] ELSE handed[j + 1]
  <2>1. /\ RemoveAt(handed, k) \in Seq(S) /\ Len(RemoveAt(handed, k)) = n - 1
        /\ \A j \in 1 .. n - 1 : RemoveAt(handed, k)[j] = IF j < k THEN handed[j] ELSE handed[j + 1]
    BY <1>1, RemoveAtProperties
  <2> QED BY <2>1, LenProperties
<1> DEFINE From(j) == IF j < k THEN j ELSE j + 1
<1>3. \A j \in DOMAIN handed' : From(j) \in DOMAIN handed /\ From(j) # k /\ handed'[j] = handed[From(j)]
  BY <1>1, <1>2
<1>4. \A i, j \in DOMAIN handed' : (i < j => From(i) < From(j)) /\ (From(i) = From(j) => i = j)
  BY <1>1, <1>2
<1> HIDE DEF From
<1>5. \A i, j \in DOMAIN handed : handed[i].at = handed[j].at => i = j
  BY DEF HandedInv
<1>6. Held' = Held \ {handed[k].at}
  <2>1. ASSUME NEW x \in Held' PROVE x \in Held /\ x # handed[k].at
    <3>1. PICK j \in DOMAIN handed' : x = handed'[j].at
      BY <2>1 DEF Held
    <3>2. x = handed[From(j)].at /\ From(j) \in DOMAIN handed /\ From(j) # k
      BY <1>3, <3>1
    <3> QED BY <1>5, <3>2 DEF Held
  <2>2. \A x \in Held : x # handed[k].at => x \in Held'
    BY OthersStillHeld
  <2> QED BY <2>1, <2>2
<1>7. HandedInv'
  <2>1. \A i, j \in DOMAIN handed' : handed'[i].at = handed'[j].at => i = j
    BY <1>3, <1>4, <1>5
  <2>2. \A j \in DOMAIN handed' : handed'[j].at \notin leaked'
    <3>1. \A j \in DOMAIN handed' : handed'[j].at # handed[k].at /\ handed'[j].at \notin leaked
      BY <1>3, <1>5 DEF HandedInv
    <3> QED BY <3>1
  <2>3. \A j \in DOMAIN handed' : block'[handed'[j].at].mgr = find_block_manager(align8(handed'[j].size))
    BY <1>1, <1>3 DEF HandedInv
  <2> QED BY <1>2, <2>1, <2>2, <2>3 DEF HandedInv, S
<1>8. Older' \subseteq Older
  <2>1. ASSUME NEW x \in Older' PROVE x \in Older
    <3>1. x \in Blocks \X Blocks
      BY <2>1 DEF Older
    <3>2. PICK i \in DOMAIN handed', j \in DOMAIN handed' : i < j /\ x = <<handed'[i].at, handed'[j].at>>
      BY <2>1 DEF Older
    <3>3. From(i) < From(j) /\ x = <<handed[From(i)].at, handed[From(j)].at>>
          /\ From(i) \in DOMAIN handed /\ From(j) \in DOMAIN handed
      BY <1>3, <1>4, <3>2
    <3> QED BY <3>1, <3>3 DEF Older
  <2> QED BY <2>1
<1> QED BY <1>1, <1>6, <1>7, <1>8 DEF HandedInv, Held

(* A class that alloc() picks is one of the managers. *)
LEMMA PickedManager ==
  ASSUME NEW n, find_block_manager(n) # None
  PROVE  find_block_manager(n) \in Managers
BY FoundManager

(* A manager's lists are the only thing that a call changes, of its class. *)
LEMMA ListsKept ==
  ASSUME PoolTypes, ListsOwned, NEW i \in Managers, NEW new, block' = new,
         Blocks \subseteq DOMAIN new,
         \A a \in Blocks : new[a].mgr = block[a].mgr /\ (block[a].mgr # i => new[a] = block[a]),
         \A a \in DOMAIN new \ Blocks : new[a].mgr = i,
         \A a \in Blocks : block[a].mgr # i => (a \in Taken' <=> a \in Taken),
         \A a, b \in Blocks : block[b].mgr # i /\ <<a, b>> \in Older' => <<a, b>> \in Older,
         \A j \in Managers : j # i => lists'[j] = lists[j],
         \E f, u : Owned(i, f, u, lists'[i], new, Taken', Older')
  PROVE  ListsOwned'
<1>1. ASSUME NEW j \in Managers, j # i PROVE \E f, u : Owned(j, f, u, lists'[j], new, Taken', Older')
  <2>1. PICK f, u : Owned(j, f, u, lists[j], block, Taken, Older)
    BY DEF ListsOwned
  <2>2. \A a \in Blocks : /\ new[a].mgr = block[a].mgr
                          /\ block[a].mgr = j => SameLinks(block, new, a) /\ (a \in Taken' <=> a \in Taken)
    BY <1>1 DEF SameLinks
  <2>3. \A a \in DOMAIN new \ Blocks : new[a].mgr # j
    BY <1>1
  <2>4. \A a, b \in Blocks : block[a].mgr = j /\ block[b].mgr = j /\ <<a, b>> \in Older' => <<a, b>> \in Older
    BY <1>1
  <2>5. Owned(j, f, u, lists[j], new, Taken', Older')
    BY <2>1, <2>2, <2>3, <2>4, OthersKeep DEF Blocks
  <2> QED BY <1>1, <2>5
<1> QED BY <1>1 DEF ListsOwned

LEMMA NullIsNoBlock ==
  ASSUME PoolTypes
  PROVE  Null \notin Blocks /\ cur \notin Blocks /\ cur # Null
BY DEF PoolTypes, Null, beg

LEMMA AllocNewKeeps ==
  ASSUME PoolIInv, NEW size \in Requests, AllocNew(size)
  PROVE  PoolIInv'
<1> DEFINE i == find_block_manager(align8(size))
           D == Blocks \union {cur}
           fresh == [mgr |-> i, prev |-> Null, next |-> Null, header |-> TRUE, trailer |-> TRUE]
           raw == [a \in D |-> IF a = cur THEN fresh ELSE block[a]]
           r == push(lists[i].used, raw, cur)
<1>1. /\ ~crashed /\ i # None /\ free_size >= impl_size(i)
      /\ block' = r.hdr /\ lists' = [lists EXCEPT ![i].used = r.list]
      /\ cur' = cur + impl_size(i) /\ HandOut(cur, size) /\ UNCHANGED <<leaked, crashed>>
  BY DEF AllocNew, Blocks
<1>2. i \in Managers
  BY <1>1, PickedManager
<1>3. /\ cur \in beg .. (beg + ArenaSize)
      /\ Blocks \subseteq beg .. (cur - 1)
      /\ block \in [Blocks -> BlockType(Blocks)]
      /\ lists \in [Managers -> [free : ListType(Blocks), used : ListType(Blocks)]]
      /\ leaked \subseteq Blocks /\ crashed \in BOOLEAN
  BY DEF PoolIInv, PoolTypes
<1>4. Null \notin D /\ cur \notin Blocks
  BY NullIsNoBlock DEF PoolIInv
<1>5. Held \subseteq Blocks
  BY HandedDomain DEF PoolIInv, Held
<1>6. cur \notin Taken
  BY <1>3, <1>4, <1>5 DEF Taken
<1>7. PICK f, u : Owned(i, f, u, lists[i], block, Taken, Older)
  BY <1>1, <1>2 DEF PoolIInv, ListsOwned
<1> HIDE DEF i
<1>8. /\ raw \in [D -> BlockType(D)]
      /\ raw[cur].mgr = i /\ raw[cur].header /\ raw[cur].trailer
      /\ \A a \in Blocks : raw[a] = block[a]
  <2>1. fresh \in BlockType(D)
    BY <1>2 DEF BlockType
  <2>2. \A a \in Blocks : block[a] \in BlockType(D)
    <3>1. \A b \in BlockType(Blocks) : b \in BlockType(D)
      BY DEF BlockType
    <3> QED BY <1>3, <3>1
  <2>3. fresh.mgr = i /\ fresh.header /\ fresh.trailer
    OBVIOUS
  <2> HIDE DEF fresh
  <2> QED BY <1>4, <2>1, <2>2, <2>3
<1> HIDE DEF raw
<1>9. \A l \in ListType(Blocks) : l \in ListType(D)
  BY DEF ListType
<1>10. /\ lists[i].free \in ListType(Blocks) /\ lists[i].used \in ListType(Blocks)
       /\ lists[i].free \in ListType(D) /\ lists[i].used \in ListType(D)
  <2>1. lists[i].free \in ListType(Blocks) /\ lists[i].used \in ListType(Blocks)
    BY <1>2, <1>3
  <2> QED BY <1>9, <2>1
<1>11. /\ Linked(f, lists[i].free, block)
       /\ Linked(u, lists[i].used, block)
       /\ \A a \in Blocks : /\ Among(a, u) <=> (block[a].mgr = i /\ a \in Taken)
                            /\ Among(a, f) <=> (block[a].mgr = i /\ a \notin Taken)
       /\ \A p, q \in 1 .. Len(u) : <<u[p], u[q]>> \in Older => q < p
  BY <1>7 DEF Owned, Blocks
<1>12. (\A p \in 1 .. Len(u) : u[p] \in Blocks) /\ (\A p \in 1 .. Len(f) : f[p] \in Blocks)
  BY <1>11, LenProperties, ElementOfSeq DEF Linked, Blocks
<1>13. ~Among(cur, f) /\ ~Among(cur, u)
  BY <1>4, <1>12 DEF Among
<1>14. Linked(f, lists[i].free, raw) /\ Linked(u, lists[i].used, raw)
  <2>1. DOMAIN raw = D
    BY <1>8
  <2>2. Blocks \subseteq DOMAIN raw /\ \A a \in Blocks : SameLinks(block, raw, a)
    BY <1>8, <2>1 DEF SameLinks
  <2> QED BY <1>11, <2>2, LinkedFrame DEF Blocks
<1> DEFINE kept == Taken \union {cur}
           older == {x \in D \X D : x \in Older \/ (x[2] = cur /\ x[1] # cur)}
<1>15. CanAdd(D, raw, i, f, u, lists[i].free, lists[i].used, kept, older, cur)
  <2>1. \A a \in D : a # cur => /\ Among(a, u) <=> (raw[a].mgr = i /\ a \in kept)
                                /\ Among(a, f) <=> (raw[a].mgr = i /\ a \notin kept)
    BY <1>8, <1>11
  <2>2. \A p, q \in 1 .. Len(u) : <<u[p], u[q]>> \in older => q < p
    <3>1. \A p, q \in 1 .. Len(u) : <<u[p], u[q]>> \in older => <<u[p], u[q]>> \in Older
      BY <1>4, <1>12
    <3> QED BY <1>11, <3>1
  <2>3. \A a \in D : <<cur, a>> \notin older
    <3>1. \A a : <<cur, a>> \notin Older
      BY <1>4 DEF Older
    <3> QED BY <3>1
  <2>4. cur \in kept /\ cur \in D
    OBVIOUS
  <2> HIDE DEF kept, older, D
  <2> QED BY <1>8, <1>10, <1>13, <1>14, <2>1, <2>2, <2>3, <2>4 DEF CanAdd
<1>16. Added(D, raw, i, f, u, lists[i].free, kept, older, cur, r)
  <2> HIDE DEF D, kept, older
  <2> QED BY <1>4, <1>15, AddUsed
<1> HIDE DEF r
<1>17. /\ r.hdr \in [D -> BlockType(D)] /\ r.list \in ListType(D)
       /\ LinksOnly(raw, r.hdr, u, cur)
       /\ \E t : Owned(i, f, t, [free |-> lists[i].free, used |-> r.list], r.hdr, kept, older)
  BY <1>16 DEF Added
<1>18. Blocks' = D
  BY <1>1, <1>17 DEF Blocks
<1>19. /\ \A a \in Blocks : /\ block'[a].mgr = block[a].mgr
                            /\ block'[a].header = block[a].header
                            /\ block'[a].trailer = block[a].trailer
                            /\ block[a].mgr # i => block'[a] = block[a]
       /\ block'[cur].mgr = i /\ block'[cur].header /\ block'[cur].trailer
  <2>1. \A a \in D : /\ r.hdr[a].mgr = raw[a].mgr
                     /\ r.hdr[a].header = raw[a].header
                     /\ r.hdr[a].trailer = raw[a].trailer
                     /\ a # cur /\ ~Among(a, u) => r.hdr[a] = raw[a]
    BY <1>8, <1>17 DEF LinksOnly
  <2> QED BY <1>1, <1>4, <1>8, <1>11, <2>1
<1>20. /\ HandedInv'
       /\ Taken' = kept
       /\ \A b : <<cur, b>> \notin Older'
       /\ \A b, c : <<b, c>> \in Older' /\ c # cur => <<b, c>> \in Older
  <2>1. UNCHANGED leaked
    BY <1>1
  <2>2. HandedInv
    BY DEF PoolIInv
  <2>3. block'[cur].mgr = find_block_manager(align8(size))
    BY <1>19 DEF i
  <2> QED BY <1>1, <1>6, <1>18, <1>19, <2>1, <2>2, <2>3, HandOutStep
<1>21. PoolTypes'
  <2>1. impl_size(i) \in Nat \ {0}
    BY <1>2, Widths, MempoolAssumption DEF impl_size, SizeOfChecksum
  <2>2. cur' \in beg .. (beg + ArenaSize) /\ cur < cur'
    BY <1>1, <1>3, <2>1, MempoolAssumption DEF free_size, beg
  <2>3. D \subseteq beg .. (cur' - 1)
    <3>0. PICK c \in Nat : c = cur'
      BY <2>2, MempoolAssumption DEF beg
    <3>1. cur \in Nat /\ cur < c /\ beg \in Nat /\ beg <= cur
      BY <1>3, <2>2, <3>0, MempoolAssumption DEF beg
    <3>2. ASSUME NEW a \in Blocks PROVE a \in beg .. (c - 1)
      <4>1. a \in beg .. (cur - 1)
        BY <1>3
      <4> QED BY <3>1, <4>1
    <3>3. cur \in beg .. (c - 1)
      BY <3>1
    <3> QED BY <3>0, <3>2, <3>3
  <2>4. lists' \in [Managers -> [free : ListType(D), used : ListType(D)]]
    <3>1. lists' = [lists EXCEPT ![i].used = r.list] /\ r.list \in ListType(D)
      BY <1>1, <1>17
    <3>2. lists \in [Managers -> [free : ListType(D), used : ListType(D)]]
      <4>1. \A l \in [free : ListType(Blocks), used : ListType(Blocks)] : l \in [free : ListType(D), used : ListType(D)]
        BY <1>9
      <4> QED BY <1>3, <4>1
    <3> HIDE DEF D
    <3> QED BY <1>2, <3>1, <3>2
  <2>5. leaked' \subseteq D /\ crashed' \in BOOLEAN
    BY <1>1, <1>3
  <2>6. block' \in [D -> BlockType(D)]
    BY <1>1, <1>17
  <2> HIDE DEF D
  <2> QED BY <1>18, <2>2, <2>3, <2>4, <2>5, <2>6 DEF PoolTypes
<1>22. FreeBlocksAreIntact'
  <2>1. \A a \in Blocks' \ Taken' : a \in Blocks \ Taken
    BY <1>18, <1>20
  <2> QED BY <1>19, <2>1 DEF PoolIInv, FreeBlocksAreIntact, Taken, Blocks
<1>23. ListsOwned'
  <2> DEFINE ml == [free |-> lists[i].free, used |-> r.list]
  <2>1. lists'[i] = ml /\ \A j \in Managers : j # i => lists'[j] = lists[j]
    <3>1. lists[i] = [free |-> lists[i].free, used |-> lists[i].used]
      BY <1>2, <1>3
    <3>2. lists' = [lists EXCEPT ![i].used = r.list]
      BY <1>1
    <3> QED BY <1>2, <1>3, <3>1, <3>2
  <2>2. PICK t : Owned(i, f, t, ml, r.hdr, kept, older)
    BY <1>17
  <2> HIDE DEF ml
  <2>3. Owned(i, f, t, lists'[i], block', Taken', Older')
    <3>1. Older' \subseteq older
      <4>1. \A x \in Older' : \E a, b \in D : x = <<a, b>>
        BY <1>18 DEF Older
      <4> QED BY <1>20, <4>1
    <3> HIDE DEF older, kept, D
    <3>2. Owned(i, f, t, ml, r.hdr, kept, Older')
      BY <2>2, <3>1 DEF Owned
    <3> QED BY <1>1, <1>20, <2>1, <3>2
  <2>4. Blocks \subseteq DOMAIN block'
    BY <1>18 DEF Blocks
  <2>5. \A a \in Blocks : block'[a].mgr = block[a].mgr /\ (block[a].mgr # i => block'[a] = block[a])
    BY <1>19
  <2>6. \A a \in DOMAIN block' \ Blocks : block'[a].mgr = i
    BY <1>18, <1>19 DEF Blocks
  <2>7. \A a \in Blocks : a \in Taken' <=> a \in Taken
    BY <1>4, <1>20
  <2>8. \A a, b \in Blocks : <<a, b>> \in Older' => <<a, b>> \in Older
    BY <1>4, <1>20
  <2>9. PoolTypes /\ ListsOwned
    BY <1>1 DEF PoolIInv
  <2> QED BY <1>2, <2>1, <2>3, <2>4, <2>5, <2>6, <2>7, <2>8, <2>9, ListsKept
<1> QED BY <1>20, <1>21, <1>22, <1>23 DEF PoolIInv

LEMMA AllocExistKeeps ==
  ASSUME PoolIInv, NEW size \in Requests, AllocExist(size)
  PROVE  PoolIInv'
<1> DEFINE i == find_block_manager(align8(size))
           ml == lists[i]
           node == ml.free.head
           free == pop(ml.free, block)
           used == push(ml.used, free.hdr, node)
<1>1. /\ ~crashed /\ i # None /\ node # Null
      /\ block' = used.hdr
      /\ lists' = [lists EXCEPT ![i] = [free |-> free.list, used |-> used.list]]
      /\ HandOut(node, size) /\ UNCHANGED <<cur, leaked, crashed>>
  BY DEF AllocExist
<1>2. i \in Managers
  BY <1>1, PickedManager
<1>3. /\ cur \in beg .. (beg + ArenaSize)
      /\ Blocks \subseteq beg .. (cur - 1)
      /\ block \in [Blocks -> BlockType(Blocks)]
      /\ lists \in [Managers -> [free : ListType(Blocks), used : ListType(Blocks)]]
      /\ leaked \subseteq Blocks /\ crashed \in BOOLEAN
  BY DEF PoolIInv, PoolTypes
<1>4. Null \notin Blocks
  BY NullIsNoBlock DEF PoolIInv
<1>5. PICK f, u : Owned(i, f, u, ml, block, Taken, Older)
  BY <1>1, <1>2 DEF PoolIInv, ListsOwned
<1>6. ml.free \in ListType(Blocks) /\ ml.used \in ListType(Blocks)
  BY <1>2, <1>3
<1> DEFINE kept2 == Taken \union {node}
           older2 == {x \in Blocks \X Blocks : x[1] # node /\ (x \in Older \/ x[2] = node)}
<1>7. /\ ml.free.head \in Blocks /\ block[ml.free.head].mgr = i /\ ml.free.head \notin Taken
      /\ AfterExist(Blocks, block, ml, i, kept2, older2, pop(ml.free, block))
  <2> HIDE DEF i, ml
  <2>2. Newest(Blocks, Older, older2, ml.free.head)
    BY DEF Newest
  <2> HIDE DEF older2
  <2>4. block \in [Blocks -> BlockType(Blocks)] /\ ml.free.head # Null
    BY <1>1, <1>3
  <2>5. AfterExist(Blocks, block, ml, i, kept2, older2, pop(ml.free, block))
    BY <1>4, <1>5, <1>6, <2>2, <2>4, ExistOwned
  <2>6. ml.free.head \in Blocks /\ block[ml.free.head].mgr = i /\ ml.free.head \notin Taken
    BY <1>4, <1>5, <1>6, <2>2, <2>4, ExistOwned
  <2> QED BY <2>5, <2>6
<1>8. /\ node \in Blocks /\ block[node].mgr = i /\ node \notin Taken
      /\ used.hdr \in [Blocks -> BlockType(Blocks)] /\ used.list \in ListType(Blocks) /\ free.list \in ListType(Blocks)
      /\ \A a \in Blocks : /\ used.hdr[a].mgr = block[a].mgr
                           /\ used.hdr[a].header = block[a].header
                           /\ used.hdr[a].trailer = block[a].trailer
                           /\ block[a].mgr # i => used.hdr[a] = block[a]
      /\ \E f2, u2 : Owned(i, f2, u2, [free |-> free.list, used |-> used.list], used.hdr, kept2, older2)
  <2>1. Relisted(Blocks, block, i, kept2, older2, free.list, used.list, used.hdr)
    BY <1>7 DEF AfterExist
  <2> HIDE DEF used, free, ml, i, kept2, older2
  <2> QED BY <1>7, <2>1 DEF Relisted
<1> HIDE DEF used, free, node, ml, i
<1>9. Blocks' = Blocks
  BY <1>1, <1>8 DEF Blocks
<1>10. /\ HandedInv'
       /\ Taken' = kept2
       /\ \A b : <<node, b>> \notin Older'
       /\ \A b, c : <<b, c>> \in Older' /\ c # node => <<b, c>> \in Older
  <2>1. UNCHANGED leaked /\ HandedInv
    BY <1>1 DEF PoolIInv
  <2>2. block'[node].mgr = find_block_manager(align8(size))
    BY <1>1, <1>8 DEF i
  <2>3. \A b \in Blocks : block'[b].mgr = block[b].mgr
    BY <1>1, <1>8
  <2> QED BY <1>1, <1>8, <1>9, <2>1, <2>2, <2>3, HandOutStep
<1>11. PoolTypes'
  <2>1. lists' \in [Managers -> [free : ListType(Blocks), used : ListType(Blocks)]]
    BY <1>1, <1>2, <1>3, <1>8
  <2>2. block' \in [Blocks -> BlockType(Blocks)]
    BY <1>1, <1>8
  <2> QED BY <1>1, <1>3, <1>9, <2>1, <2>2 DEF PoolTypes
<1>12. FreeBlocksAreIntact'
  <2>1. \A a \in Blocks' \ Taken' : a \in Blocks \ Taken
    BY <1>9, <1>10
  <2>2. \A a \in Blocks : block'[a].header = block[a].header /\ block'[a].trailer = block[a].trailer
    BY <1>1, <1>8
  <2> QED BY <2>1, <2>2 DEF PoolIInv, FreeBlocksAreIntact, Taken, Blocks
<1>13. ListsOwned'
  <2> DEFINE m2 == [free |-> free.list, used |-> used.list]
  <2>1. lists'[i] = m2 /\ \A j \in Managers : j # i => lists'[j] = lists[j]
    BY <1>1, <1>2, <1>3
  <2>2. PICK f2, u2 : Owned(i, f2, u2, m2, used.hdr, kept2, older2)
    BY <1>8
  <2> HIDE DEF m2
  <2>3. Owned(i, f2, u2, lists'[i], block', Taken', Older')
    <3>1. Older' \subseteq older2
      <4>1. \A x \in Older' : \E a, b \in Blocks : x = <<a, b>>
        BY <1>9 DEF Older
      <4> QED BY <1>10, <4>1
    <3> HIDE DEF older2, kept2
    <3>2. Owned(i, f2, u2, m2, used.hdr, kept2, Older')
      BY <2>2, <3>1 DEF Owned
    <3> QED BY <1>1, <1>10, <2>1, <3>2
  <2>4. Blocks \subseteq DOMAIN block' /\ DOMAIN block' \ Blocks = {}
    BY <1>9 DEF Blocks
  <2>5. \A a \in Blocks : block'[a].mgr = block[a].mgr /\ (block[a].mgr # i => block'[a] = block[a])
    BY <1>1, <1>8
  <2>6. \A a \in Blocks : block[a].mgr # i => (a \in Taken' <=> a \in Taken)
    BY <1>8, <1>10
  <2>7. \A a, b \in Blocks : block[b].mgr # i /\ <<a, b>> \in Older' => <<a, b>> \in Older
    BY <1>8, <1>10
  <2>8. PoolTypes /\ ListsOwned
    BY <1>1 DEF PoolIInv
  <2> QED BY <1>2, <2>1, <2>3, <2>4, <2>5, <2>6, <2>7, <2>8, ListsKept
<1> QED BY <1>10, <1>11, <1>12, <1>13 DEF PoolIInv

(* A call that leaves the lists and the links alone leaves them well formed, *)
(* as long as no block starts or ceases to be held or leaked.               *)
LEMMA ListsUntouched ==
  ASSUME PoolTypes, ListsOwned, UNCHANGED lists, Blocks' = Blocks,
         \A a \in Blocks : SameLinks(block, block', a),
         Taken' = Taken, Older' \subseteq Older
  PROVE  ListsOwned'
<1>1. ASSUME NEW i \in Managers PROVE \E f, u : Owned(i, f, u, lists[i], block', Taken, Older')
  <2>1. PICK f, u : Owned(i, f, u, lists[i], block, Taken, Older)
    BY DEF ListsOwned
  <2>2. DOMAIN block \subseteq DOMAIN block' /\ DOMAIN block' \ DOMAIN block = {}
    BY DEF Blocks
  <2>3. \A a \in DOMAIN block : block'[a].mgr = block[a].mgr /\ SameLinks(block, block', a)
    BY DEF SameLinks, Blocks
  <2> DEFINE new == block'
             older2 == Older'
  <2>4. /\ DOMAIN block \subseteq DOMAIN new
        /\ \A a \in DOMAIN block : new[a].mgr = block[a].mgr /\ SameLinks(block, new, a)
        /\ \A a \in DOMAIN new \ DOMAIN block : new[a].mgr # i
        /\ older2 \subseteq Older
    BY <2>2, <2>3
  <2> HIDE DEF new, older2
  <2>5. Owned(i, f, u, lists[i], new, Taken, older2)
    BY <2>1, <2>4, OthersKeep
  <2> QED BY <2>5 DEF new, older2
<1> QED BY <1>1 DEF ListsOwned

LEMMA FreeRefusedKeeps ==
  ASSUME PoolIInv, NEW k \in DOMAIN handed, FreeRefused(k)
  PROVE  PoolIInv'
<1>1. /\ ~crashed /\ handed' = RemoveAt(handed, k) /\ leaked' = leaked \union {handed[k].at}
      /\ UNCHANGED <<cur, block, lists, crashed>>
  BY DEF FreeRefused
<1>2. Blocks' = Blocks
  BY <1>1 DEF Blocks
<1>3. /\ HandedInv'
      /\ Held' = Held \ {handed[k].at}
      /\ Older' \subseteq Older
      /\ handed[k].at \in Blocks /\ handed[k].at \in Held /\ handed[k].at \notin leaked
  BY <1>1, <1>2, TakeBackStep DEF PoolIInv
<1>4. Taken' = Taken
  BY <1>1, <1>3 DEF Taken
<1>5. PoolTypes'
  BY <1>1, <1>2, <1>3 DEF PoolIInv, PoolTypes
<1>6. FreeBlocksAreIntact'
  BY <1>1, <1>4 DEF PoolIInv, FreeBlocksAreIntact, Taken
<1>7. ListsOwned'
  BY <1>1, <1>2, <1>3, <1>4, ListsUntouched DEF PoolIInv, SameLinks
<1> QED BY <1>3, <1>5, <1>6, <1>7 DEF PoolIInv

LEMMA FreeKeeps ==
  ASSUME PoolIInv, NEW k \in DOMAIN handed, Free(k)
  PROVE  PoolIInv'
<1> DEFINE node == handed[k].at
           i == block[node].mgr
           ml == lists[i]
           used == detach(ml.used, block, node)
           free == push(ml.free, used.hdr, node)
<1>1. /\ ~crashed /\ Passes(node) /\ ~DetachFaults(ml.used, block, node)
      /\ block' = free.hdr
      /\ lists' = [lists EXCEPT ![i] = [free |-> free.list, used |-> used.list]]
      /\ handed' = RemoveAt(handed, k) /\ UNCHANGED <<cur, leaked, crashed>>
  BY DEF Free
<1>2. /\ cur \in beg .. (beg + ArenaSize)
      /\ Blocks \subseteq beg .. (cur - 1)
      /\ block \in [Blocks -> BlockType(Blocks)]
      /\ lists \in [Managers -> [free : ListType(Blocks), used : ListType(Blocks)]]
      /\ leaked \subseteq Blocks /\ crashed \in BOOLEAN
  BY DEF PoolIInv, PoolTypes
<1>3. Null \notin Blocks
  BY NullIsNoBlock DEF PoolIInv
<1>4. node \in Blocks /\ node \in Held /\ node \notin leaked /\ node \in Taken
  BY HandedDomain DEF PoolIInv, HandedInv, Held, Taken
<1>5. i \in Managers
  BY <1>2, <1>4 DEF BlockType
<1> HIDE DEF node
<1>6. PICK f, u : Owned(i, f, u, ml, block, Taken, Older)
  BY <1>1, <1>5 DEF PoolIInv, ListsOwned
<1>7. ml.free \in ListType(Blocks) /\ ml.used \in ListType(Blocks)
  BY <1>2, <1>5
<1>8. block[node].mgr = i
  OBVIOUS
<1> DEFINE kept2 == Taken \ {node}
           older2 == Older \intersect Older'
<1>9. AfterFree(Blocks, block, ml, i, node, kept2, older2, detach(ml.used, block, node))
  <2> HIDE DEF i, ml
  <2>1. kept2 = Taken \ {node} /\ older2 \subseteq Older
    OBVIOUS
  <2> HIDE DEF kept2, older2
  <2> QED BY <1>1, <1>2, <1>3, <1>4, <1>6, <1>7, <1>8, <2>1, FreeOwned
<1>10. /\ free.hdr \in [Blocks -> BlockType(Blocks)] /\ used.list \in ListType(Blocks) /\ free.list \in ListType(Blocks)
       /\ \A a \in Blocks : /\ free.hdr[a].mgr = block[a].mgr
                            /\ free.hdr[a].header = block[a].header
                            /\ free.hdr[a].trailer = block[a].trailer
                            /\ block[a].mgr # i => free.hdr[a] = block[a]
       /\ \E f2, u2 : Owned(i, f2, u2, [free |-> free.list, used |-> used.list], free.hdr, kept2, older2)
  <2>1. Relisted(Blocks, block, i, kept2, older2, free.list, used.list, free.hdr)
    BY <1>9 DEF AfterFree
  <2> HIDE DEF used, free, ml, i, kept2, older2
  <2> QED BY <2>1 DEF Relisted
<1> HIDE DEF used, free, ml, i
<1>11. Blocks' = Blocks
  BY <1>1, <1>10 DEF Blocks
<1>12. HandedInv' /\ Held' = Held \ {node} /\ Older' \subseteq Older
  <2>1. \A b \in Blocks : block'[b].mgr = block[b].mgr
    BY <1>1, <1>10
  <2>2. leaked' \subseteq leaked \union {node} /\ HandedInv
    BY <1>1 DEF PoolIInv
  <2> QED BY <1>1, <1>11, <2>1, <2>2, TakeBackStep DEF node
<1>13. Taken' = kept2
  BY <1>1, <1>4, <1>12 DEF Taken
<1>14. PoolTypes'
  <2>1. lists' \in [Managers -> [free : ListType(Blocks), used : ListType(Blocks)]]
    BY <1>1, <1>2, <1>5, <1>10
  <2>2. block' \in [Blocks -> BlockType(Blocks)]
    BY <1>1, <1>10
  <2> QED BY <1>1, <1>2, <1>11, <2>1, <2>2 DEF PoolTypes
<1>15. FreeBlocksAreIntact'
  <2>1. \A a \in Blocks' \ Taken' : a \in Blocks /\ (a = node \/ a \notin Taken)
    BY <1>11, <1>13
  <2>2. \A a \in Blocks : block'[a].header = block[a].header /\ block'[a].trailer = block[a].trailer
    BY <1>1, <1>10
  <2>3. block[node].header /\ block[node].trailer
    BY <1>1 DEF Passes
  <2> QED BY <2>1, <2>2, <2>3 DEF PoolIInv, FreeBlocksAreIntact, Taken, Blocks
<1>16. ListsOwned'
  <2> DEFINE m2 == [free |-> free.list, used |-> used.list]
  <2>1. lists'[i] = m2 /\ \A j \in Managers : j # i => lists'[j] = lists[j]
    BY <1>1, <1>2, <1>5
  <2>2. PICK f2, u2 : Owned(i, f2, u2, m2, free.hdr, kept2, older2)
    BY <1>10
  <2> HIDE DEF m2
  <2>3. Owned(i, f2, u2, lists'[i], block', Taken', Older')
    <3>1. older2 = Older'
      BY <1>12
    <3> HIDE DEF older2, kept2
    <3> QED BY <1>1, <1>13, <2>1, <2>2, <3>1
  <2>4. Blocks \subseteq DOMAIN block' /\ DOMAIN block' \ Blocks = {}
    BY <1>11 DEF Blocks
  <2>5. \A a \in Blocks : block'[a].mgr = block[a].mgr /\ (block[a].mgr # i => block'[a] = block[a])
    BY <1>1, <1>10
  <2>6. \A a \in Blocks : block[a].mgr # i => (a \in Taken' <=> a \in Taken)
    BY <1>8, <1>13
  <2>7. \A a, b \in Blocks : <<a, b>> \in Older' => <<a, b>> \in Older
    BY <1>12
  <2>8. PoolTypes /\ ListsOwned
    BY <1>1 DEF PoolIInv
  <2> QED BY <1>5, <2>1, <2>3, <2>4, <2>5, <2>6, <2>7, <2>8, ListsKept
<1> QED BY <1>12, <1>14, <1>15, <1>16 DEF PoolIInv

LEMMA FreeFaultsKeeps ==
  ASSUME PoolIInv, NEW k \in DOMAIN handed, FreeFaults(k)
  PROVE  PoolIInv'
<1>1. /\ Passes(handed[k].at) /\ crashed' = TRUE /\ handed' = RemoveAt(handed, k)
      /\ UNCHANGED <<cur, block, lists, leaked>>
  BY DEF FreeFaults
<1>2. Blocks' = Blocks
  BY <1>1 DEF Blocks
<1>3. HandedInv' /\ Held' = Held \ {handed[k].at}
  BY <1>1, <1>2, TakeBackStep DEF PoolIInv
<1>4. PoolTypes'
  BY <1>1, <1>2 DEF PoolIInv, PoolTypes
<1>5. FreeBlocksAreIntact'
  BY <1>1, <1>3 DEF PoolIInv, FreeBlocksAreIntact, Passes
<1> QED BY <1>1, <1>3, <1>4, <1>5 DEF PoolIInv

LEMMA DamageKeeps ==
  ASSUME PoolIInv, NEW k \in DOMAIN handed, Damage(k, "header") \/ Damage(k, "trailer")
  PROVE  PoolIInv'
<1> DEFINE node == handed[k].at
<1>1. node \in Blocks /\ node \in Taken
  BY HandedDomain DEF PoolIInv, Held, Taken
<1>2. /\ ~crashed /\ UNCHANGED <<cur, lists, handed, leaked, crashed>>
      /\ \/ block' = [block EXCEPT ![node].header = FALSE]
         \/ block' = [block EXCEPT ![node].trailer = FALSE]
  BY DEF Damage
<1> HIDE DEF node
<1>3. block \in [Blocks -> BlockType(Blocks)]
  BY DEF PoolIInv, PoolTypes
<1>4. block' \in [Blocks -> BlockType(Blocks)]
  <2>1. block[node] \in BlockType(Blocks)
    BY <1>1, <1>3
  <2>2. /\ [block[node] EXCEPT !.header = FALSE] \in BlockType(Blocks)
        /\ [block[node] EXCEPT !.trailer = FALSE] \in BlockType(Blocks)
    BY <2>1 DEF BlockType
  <2> QED BY <1>1, <1>2, <1>3, <2>2
<1>5. \A a \in Blocks : SameLinks(block, block', a) /\ (a # node => block'[a] = block[a])
  BY <1>1, <1>2, <1>3 DEF BlockType, SameLinks
<1>6. Blocks' = Blocks
  BY <1>4 DEF Blocks
<1>7. Held' = Held /\ Taken' = Taken
  BY <1>2 DEF Held, Taken
<1>8. Older' = Older
  BY <1>2, <1>6 DEF Older
<1>9. HandedInv'
  <2>1. \A j \in DOMAIN handed : handed[j].at \in Blocks
    BY HandedDomain DEF PoolIInv
  <2> QED BY <1>2, <1>5, <1>6, <2>1 DEF PoolIInv, HandedInv, SameLinks
<1>10. PoolTypes'
  BY <1>2, <1>4, <1>6 DEF PoolIInv, PoolTypes
<1>11. FreeBlocksAreIntact'
  BY <1>1, <1>5, <1>6, <1>7 DEF PoolIInv, FreeBlocksAreIntact, Taken, Blocks
<1>12. ListsOwned'
  BY <1>2, <1>5, <1>6, <1>7, <1>8, ListsUntouched DEF PoolIInv
<1> QED BY <1>9, <1>10, <1>11, <1>12 DEF PoolIInv

LEMMA PoolInit ==
  ASSUME Init
  PROVE  PoolIInv
<1>1. /\ cur = beg /\ block = [a \in {} |-> Null] /\ handed = <<>> /\ leaked = {} /\ crashed = FALSE
      /\ lists = [i \in Managers |-> [free |-> EmptyList, used |-> EmptyList]]
  BY DEF Init
<1>2. Blocks = {} /\ Held = {} /\ Taken = {}
  BY <1>1 DEF Blocks, Held, Taken
<1>3. block \in [Blocks -> BlockType(Blocks)]
  BY <1>1, <1>2
<1>4. EmptyList \in ListType(Blocks)
  BY DEF EmptyList, ListType
<1>5. PoolTypes
  <2>1. lists \in [Managers -> [free : ListType(Blocks), used : ListType(Blocks)]]
    BY <1>1, <1>4
  <2>2. cur \in beg .. (beg + ArenaSize)
    BY <1>1, MempoolAssumption DEF beg
  <2> QED BY <1>1, <1>2, <1>3, <2>1, <2>2 DEF PoolTypes
<1>6. HandedInv
  BY <1>1 DEF HandedInv
<1>7. FreeBlocksAreIntact
  BY <1>2 DEF FreeBlocksAreIntact, Blocks
<1>8. ListsOwned
  <2>1. ASSUME NEW i \in Managers PROVE Owned(i, <<>>, <<>>, lists[i], block, Taken, Older)
    <3>1. lists[i].free = EmptyList /\ lists[i].used = EmptyList
      BY <1>1
    <3>2. Linked(<<>>, EmptyList, block)
      BY DEF Linked, EmptyList
    <3>3. \A a : ~Among(a, <<>>)
      BY DEF Among
    <3>4. DOMAIN block = {} /\ \A p, q \in 1 .. Len(<<>>) : <<(<<>>)[p], (<<>>)[q]>> \in Older => q < p
      BY <1>1
    <3> QED BY <3>1, <3>2, <3>3, <3>4 DEF Owned
  <2> QED BY <2>1 DEF ListsOwned
<1> QED BY <1>5, <1>6, <1>7, <1>8 DEF PoolIInv

LEMMA PoolStutters ==
  ASSUME PoolIInv, UNCHANGED vars
  PROVE  PoolIInv'
<1>1. UNCHANGED <<cur, block, lists, handed, leaked, crashed>>
  BY DEF vars
<1>2. UNCHANGED <<Blocks, Taken, Older>>
  BY <1>1 DEF Blocks, Taken, Held, Older
<1>3. PoolTypes'
  BY <1>1, <1>2 DEF PoolIInv, PoolTypes
<1>4. HandedInv'
  BY <1>1, <1>2 DEF PoolIInv, HandedInv
<1>5. FreeBlocksAreIntact'
  BY <1>1, <1>2 DEF PoolIInv, FreeBlocksAreIntact, Held
<1>6. ListsOwned => ListsOwned'
  BY <1>1, <1>2 DEF ListsOwned
<1> QED BY <1>1, <1>3, <1>4, <1>5, <1>6 DEF PoolIInv

LEMMA PoolStep ==
  ASSUME PoolIInv, [Next]_vars
  PROVE  PoolIInv'
<1>1. ASSUME NEW size \in Requests, AllocFails(size) PROVE PoolIInv'
  BY <1>1, PoolStutters DEF AllocFails
<1>2. ASSUME NEW size \in Requests, AllocNew(size) PROVE PoolIInv'
  BY <1>2, AllocNewKeeps
<1>3. ASSUME NEW size \in Requests, AllocExist(size) PROVE PoolIInv'
  BY <1>3, AllocExistKeeps
<1>4. ASSUME NEW k \in DOMAIN handed, FreeRefused(k) PROVE PoolIInv'
  BY <1>4, FreeRefusedKeeps
<1>5. ASSUME NEW k \in DOMAIN handed, Free(k) PROVE PoolIInv'
  BY <1>5, FreeKeeps
<1>6. ASSUME NEW k \in DOMAIN handed, FreeFaults(k) PROVE PoolIInv'
  BY <1>6, FreeFaultsKeeps
<1>7. ASSUME NEW k \in DOMAIN handed, Damage(k, "header") \/ Damage(k, "trailer") PROVE PoolIInv'
  BY <1>7, DamageKeeps
<1> QED BY <1>1, <1>2, <1>3, <1>4, <1>5, <1>6, <1>7, PoolStutters DEF Next

LEMMA PoolInvariant == Spec => []PoolIInv
BY PoolInit, PoolStep, PTL DEF Spec

-----------------------------------------------------------------------------
(* What the invariant says of the chains. *)

LEMMA BlocksAreFinite ==
  ASSUME PoolTypes
  PROVE  IsFiniteSet(DOMAIN block)
<1>1. cur \in Int /\ beg \in Int
  BY MempoolAssumption DEF PoolTypes, beg
<1> DEFINE I == beg .. (cur - 1)
<1>2. IsFiniteSet(I)
  BY <1>1, FS_Interval
<1>3. Blocks \subseteq I
  BY DEF PoolTypes
<1> HIDE DEF I
<1> QED BY <1>2, <1>3, FS_Subset DEF Blocks

LEMMA LinkedIsWell ==
  ASSUME PoolTypes, NEW list, NEW s, Linked(s, list, block)
  PROVE  /\ Chain(list) = s /\ WellLinked(list)
         /\ \A a : a \in ToSet(Chain(list)) <=> Among(a, s)
<1>1. Chain(list) = s
  BY BlocksAreFinite, NullIsNoBlock, ChainIs DEF Blocks
<1>2. s \in Seq(DOMAIN block) /\ Len(s) \in Nat /\ DOMAIN s = 1 .. Len(s)
  BY LenProperties DEF Linked
<1>3. IsInjective(s) /\ Len(s) = list.length
  BY <1>2 DEF Linked, IsInjective
<1>4. s = <<>> \/ block[Last(s)].next = Null
  <2> SUFFICES ASSUME s # <<>> PROVE block[Last(s)].next = Null
    OBVIOUS
  <2>1. Len(s) \in 1 .. Len(s)
    BY <1>2, EmptySeq
  <2> QED BY <2>1 DEF Linked, Last
<1>5. \A k \in DOMAIN s : block[s[k]].prev = IF k = 1 THEN Null ELSE s[k - 1]
  BY <1>2 DEF Linked
<1>6. WellLinked(list)
  BY <1>1, <1>3, <1>4, <1>5 DEF WellLinked
<1>7. \A a : a \in ToSet(s) <=> Among(a, s)
  BY <1>2 DEF ToSet, Among
<1> QED BY <1>1, <1>6, <1>7

LEMMA PoolIInvImplies ==
  ASSUME PoolIInv
  PROVE  PoolInv
<1>1. TypeOK
  <2> USE DEF PoolIInv, PoolTypes
  <2>1. \A a \in DOMAIN block : block[a] \in [mgr : Managers, prev : DOMAIN block \union {Null},
                                              next : DOMAIN block \union {Null},
                                              header : BOOLEAN, trailer : BOOLEAN]
    BY DEF Blocks, BlockType
  <2>2. \A i \in Managers, l \in {"free", "used"} :
           lists[i][l] \in [head : DOMAIN block \union {Null}, length : Nat]
    <3>1. \A i \in Managers : lists[i].free \in ListType(Blocks) /\ lists[i].used \in ListType(Blocks)
      OBVIOUS
    <3> QED BY <3>1 DEF ListType, Blocks
  <2>3. handed \in Seq([at : DOMAIN block, size : Requests])
    BY DEF HandedInv, Blocks
  <2> QED BY <2>1, <2>2, <2>3 DEF TypeOK, Blocks
<1>2. ListsPartitionBlocks
  <2> SUFFICES ASSUME ~crashed, NEW i \in Managers
               PROVE  LET own == {a \in DOMAIN block : block[a].mgr = i}
                      IN  /\ WellLinked(lists[i].free) /\ WellLinked(lists[i].used)
                          /\ ToSet(Chain(lists[i].used)) = own \intersect (Held \union leaked)
                          /\ ToSet(Chain(lists[i].free)) = own \ (Held \union leaked)
    BY DEF ListsPartitionBlocks
  <2>1. PICK f, u : Owned(i, f, u, lists[i], block, Taken, Older)
    BY DEF PoolIInv, ListsOwned
  <2>2. /\ Linked(f, lists[i].free, block)
        /\ Linked(u, lists[i].used, block)
        /\ \A a \in DOMAIN block : /\ Among(a, u) <=> (block[a].mgr = i /\ a \in Taken)
                                   /\ Among(a, f) <=> (block[a].mgr = i /\ a \notin Taken)
    BY <2>1 DEF Owned
  <2>3. /\ WellLinked(lists[i].free) /\ WellLinked(lists[i].used)
        /\ \A a : a \in ToSet(Chain(lists[i].free)) <=> Among(a, f)
        /\ \A a : a \in ToSet(Chain(lists[i].used)) <=> Among(a, u)
    BY <2>2, LinkedIsWell DEF PoolIInv
  <2>4. \A a : (Among(a, f) => a \in DOMAIN block) /\ (Among(a, u) => a \in DOMAIN block)
    BY <2>2, LenProperties, ElementOfSeq DEF Linked, Among
  <2> QED BY <2>2, <2>3, <2>4 DEF Taken
<1> QED BY <1>1, <1>2 DEF PoolInv, PoolIInv

(* After any sequence of alloc(), free() and refused free() calls, damage to  *)
(* blocks included, the pool is well formed until free() dies: both lists of  *)
(* every manager are properly linked and hold the blocks of their class       *)
(* between them, and no block on a free list is ever damaged                  *)
(* (mempool.cpp:14-51, 72-125).                                               *)
THEOREM PoolStaysWellFormed == Spec => []PoolInv
BY PoolInvariant, PoolIInvImplies, PTL

(* Every block handed out is as large as the request, but for requests larger *)
(* than the last class, which get a block too small (mempool.cpp:64-70).      *)
THEOREM BlocksHoldRequests == Spec => []BlockHoldsRequest
<1>1. PoolIInv => BlockHoldsRequest
  <2> SUFFICES ASSUME PoolIInv, NEW k \in DOMAIN handed
               PROVE  block_size(block[handed[k].at].mgr) >= handed[k].size
                        <=> handed[k].size <= block_size(IntBits - 4)
    BY DEF BlockHoldsRequest
  <2> DEFINE i == block[handed[k].at].mgr
  <2>1. handed[k].at \in Blocks /\ handed[k].size \in Requests
    BY HandedDomain DEF PoolIInv
  <2>2. i = find_block_manager(align8(handed[k].size))
    BY DEF PoolIInv, HandedInv
  <2>3. i \in Managers
    BY <2>1 DEF PoolIInv, PoolTypes, BlockType
  <2>4. i # None
    BY <2>3, MempoolAssumption DEF Managers, None
  <2> HIDE DEF i
  <2>5. block_size(i) >= handed[k].size <=> handed[k].size <= block_size(IntBits - 4)
    BY <2>1, <2>2, <2>4, PickedClass
  <2> QED BY <2>5 DEF i
<1> QED BY <1>1, PoolInvariant, PTL

(* The block that free() dies on. *)
LEMMA FaultyFree ==
  ASSUME PoolIInv, ~crashed, NEW k \in DOMAIN handed
  PROVE  LET a    == handed[k].at
             used == lists[block[a].mgr].used
         IN  DetachFaults(used, block, a) <=> (used.length > 1 /\ IsOldest(a) /\ Last(Chain(used)) = a)
<1> DEFINE a == handed[k].at
           i == block[a].mgr
           used == lists[i].used
<1>1. a \in Blocks /\ a \in Taken
  BY HandedDomain DEF PoolIInv, Held, Taken
<1> HIDE DEF a
<1>2. i \in Managers /\ block[a].mgr = i
  BY <1>1 DEF PoolIInv, PoolTypes, BlockType
<1>3. used \in ListType(Blocks) /\ block \in [Blocks -> BlockType(Blocks)] /\ PoolTypes
  BY <1>2 DEF PoolIInv, PoolTypes
<1>4. PICK f, u : Owned(i, f, u, lists[i], block, Taken, Older)
  BY <1>2 DEF PoolIInv, ListsOwned
<1>5. /\ Linked(u, used, block)
      /\ \A b \in Blocks : Among(b, u) <=> (block[b].mgr = i /\ b \in Taken)
      /\ \A p, q \in 1 .. Len(u) : <<u[p], u[q]>> \in Older => q < p
  BY <1>4 DEF Owned, Blocks
<1> HIDE DEF used, i
<1>6. PICK p \in 1 .. Len(u) : u[p] = a
  BY <1>1, <1>2, <1>5 DEF Among
<1>7. Chain(used) = u /\ used.length = Len(u) /\ Last(Chain(used)) = u[Len(u)]
  <2>1. Chain(used) = u
    BY <1>3, <1>5, LinkedIsWell
  <2>2. used.length = Len(u)
    BY <1>5 DEF Linked
  <2>3. Last(Chain(used)) = u[Len(u)]
    BY <2>1 DEF Last
  <2> QED BY <2>1, <2>2, <2>3
<1>8. DetachFaults(used, block, a) <=> (p = Len(u) /\ Len(u) > 1)
  <2>1. DetachFaults(used, block, u[p]) <=> (p = Len(u) /\ Len(u) > 1)
    BY <1>3, <1>5, NullIsNoBlock, FaultsOnLast
  <2> QED BY <1>6, <2>1
<1>9. u[Len(u)] = a => p = Len(u)
  <2>1. Len(u) \in 1 .. Len(u)
    BY <1>6
  <2> QED BY <1>5, <1>6, <2>1 DEF Linked
<1>10. ASSUME p = Len(u) PROVE IsOldest(a)
  <2> SUFFICES ASSUME NEW m \in DOMAIN handed, handed[m].at = a, NEW j \in 1 .. (m - 1), block[handed[j].at].mgr = i
               PROVE  FALSE
    BY <1>2 DEF IsOldest
  <2>1. j \in DOMAIN handed /\ j < m
    BY HandedDomain DEF PoolIInv
  <2>2. handed[j].at \in Blocks /\ handed[j].at \in Taken
    BY <2>1, HandedDomain DEF PoolIInv, Held, Taken
  <2>3. PICK q \in 1 .. Len(u) : u[q] = handed[j].at
    BY <1>5, <2>2 DEF Among
  <2>4. <<u[q], u[p]>> \in Older
    BY <1>1, <1>6, <2>1, <2>2, <2>3 DEF Older
  <2>5. p < q
    BY <1>5, <2>4
  <2> QED BY <1>10, <2>5
<1>11. DetachFaults(used, block, a) <=> (used.length > 1 /\ IsOldest(a) /\ Last(Chain(used)) = a)
  BY <1>6, <1>7, <1>8, <1>9, <1>10
<1> QED BY <1>11 DEF a, i, used

(* free() dies exactly when it is given the block of its class that was       *)
(* handed out first, with another of that class still on the used list        *)
(* (mempool.cpp:111-124).                                                     *)
THEOREM FaultsAreOnTheOldest == Spec => FaultsOnlyOnTheOldest
<1> DEFINE A == \A a \in Held \ Held' :
                   LET used == lists[block[a].mgr].used
                   IN  Passes(a) => (crashed' <=> /\ used.length > 1
                                                  /\ IsOldest(a)
                                                  /\ Last(Chain(used)) = a)
<1>1. ASSUME PoolIInv, Next PROVE A
  <2>1. ASSUME Held \subseteq Held' PROVE A
    BY <2>1
  <2>2. ASSUME NEW k \in DOMAIN handed, handed' = RemoveAt(handed, k), ~crashed,
               ~Passes(handed[k].at) \/ (crashed' <=> DetachFaults(lists[block[handed[k].at].mgr].used, block, handed[k].at))
        PROVE  A
    <3>1. \A a \in Held \ Held' : a = handed[k].at
      BY <1>1, <2>2, OthersStillHeld DEF PoolIInv
    <3> QED BY <1>1, <2>2, <3>1, FaultyFree
  <2>3. ASSUME NEW size \in Requests, AllocFails(size) PROVE A
    BY <2>1, <2>3 DEF AllocFails, vars, Held
  <2>4. ASSUME NEW size \in Requests, AllocNew(size) PROVE A
    BY <1>1, <2>1, <2>4, HandOutKeepsHeld DEF AllocNew, HandOut, PoolIInv
  <2>5. ASSUME NEW size \in Requests, AllocExist(size) PROVE A
    BY <1>1, <2>1, <2>5, HandOutKeepsHeld DEF AllocExist, HandOut, PoolIInv
  <2>6. ASSUME NEW k \in DOMAIN handed, FreeRefused(k) PROVE A
    BY <2>2, <2>6 DEF FreeRefused
  <2>7. ASSUME NEW k \in DOMAIN handed, Free(k) PROVE A
    <3>1. ~crashed /\ ~crashed' /\ handed' = RemoveAt(handed, k)
          /\ ~DetachFaults(lists[block[handed[k].at].mgr].used, block, handed[k].at)
      BY <2>7 DEF Free
    <3> HIDE DEF A
    <3> QED BY <2>2, <3>1
  <2>8. ASSUME NEW k \in DOMAIN handed, FreeFaults(k) PROVE A
    <3>1. ~crashed /\ crashed' /\ handed' = RemoveAt(handed, k)
          /\ DetachFaults(lists[block[handed[k].at].mgr].used, block, handed[k].at)
      BY <2>8 DEF FreeFaults
    <3> HIDE DEF A
    <3> QED BY <2>2, <3>1
  <2>9. ASSUME NEW k \in DOMAIN handed, Damage(k, "header") \/ Damage(k, "trailer") PROVE A
    BY <2>1, <2>9 DEF Damage, Held
  <2> QED BY <1>1, <2>3, <2>4, <2>5, <2>6, <2>7, <2>8, <2>9 DEF Next
<1>2. FaultsOnlyOnTheOldest <=> [][A]_vars
  BY DEF FaultsOnlyOnTheOldest
<1> HIDE DEF A
<1>3. PoolIInv /\ [Next]_vars => [A]_vars
  BY <1>1
<1> QED BY <1>2, <1>3, PoolInvariant, PTL DEF Spec

-----------------------------------------------------------------------------
(* backtrace. *)

(* Where backtrace_get_addrinfo is, and what frame_info and addrinfo can   *)
(* hold there.                                                             *)
LookupInv ==
  /\ lookup # "open" => frame <= Depth /\ loader = "dump" /\ module[frame] # Wild
  /\ bfds = 1 <=> lookup # "open"
  /\ \A i \in 1 .. Depth : module[i] <= i
  /\ \A r \in reported : r.frame < frame /\ r.module <= r.frame
  /\ \A f \in Fields :
       /\ \/ info[f] \in {Garbage, NoInfo}
          \/ optimised /\ info[f] \in 1 .. frame - 1
          \/ lookup = "report" /\ info[f] = frame
       /\ info[f] = Garbage => \A s \in reported : optimised /\ s.info[f] = Garbage

(* How far save and load are, and what they have returned by then. *)
SaveInv ==
  /\ saver \in {"capture", "fdopen"} => put = 0
  /\ saver = "write" => put < Items
  /\ saver = "fclose" => put = Items \/ savedRet = -1
  /\ savedRet = 0 => saver = "done"

LoadInv ==
  /\ loader = "capture" => saver = "done"
  /\ loader \in {"capture", "fdopen"} => got = 0
  /\ loader = "read" => got < Items
  /\ loader # "done" => loadRet = NoReturn
  /\ reported # {} => loader \in {"dump", "done", "dead"}
  /\ loader = "dump" \/ reported # {} => got = Items \/ (got = 0 /\ saver = "done")
  /\ loadRet = 0 => got \in {0, Items}
  /\ later /\ loader # "fdopen" => saver \in {"done", "dead"}

DumpInv ==
  DumpTypeOK /\ OwnLookupOnly /\ LookupInv /\ WholeDumpOrNothing /\ SaveInv /\ LoadInv

LEMMA ItemsType == Items \in Nat /\ Items > 0
BY DumpAssumption DEF Items

(* However many frames in a row dladdr does not know, frame_info names the *)
(* module of the frame or of an earlier one, or none.                      *)
LEMMA FilledFrames ==
  ASSUME FillFrameInfo
  PROVE  /\ module' \in [1 .. Depth -> {Wild} \cup 1 .. Depth]
         /\ \A i \in 1 .. Depth : module'[i] <= i
<1> USE DumpAssumption DEF Wild
<1>1. PICK m \in [1 .. Depth -> {Wild} \cup 1 .. Depth] :
        /\ module' = m
        /\ \A i \in 1 .. Depth :
             \/ m[i] = i
             \/ m[i] = (IF i = 1 THEN Wild ELSE m[i - 1])
             \/ optimised /\ m[i] = Wild
  BY DEF FillFrameInfo
<1>2. ASSUME NEW k \in 1 .. Depth, m[k] > k PROVE FALSE
  <2> DEFINE Later == {i \in Nat : i \in 1 .. Depth /\ m[i] > i}
  <2>1. PICK i \in Later : \A j \in Later : i <= j
    <3>1. Later \subseteq Nat /\ k \in Later
      BY <1>2
    <3> HIDE DEF Later
    <3> QED BY <3>1, SmallestNumber
  <2>2. i \in 1 .. Depth /\ m[i] > i
    OBVIOUS
  <2>3. i > 1 /\ m[i] = m[i - 1]
    BY <1>1, <2>2
  <2>4. i - 1 \in 1 .. Depth /\ m[i - 1] > i - 1
    BY <1>1, <2>2, <2>3
  <2> QED BY <2>1, <2>2, <2>4
<1>3. \A i \in 1 .. Depth : m[i] <= i
  BY <1>2
<1> QED BY <1>1, <1>3

LEMMA InitDump == ASSUME DumpInit PROVE DumpInv
<1> USE ItemsType, DumpAssumption DEF DumpInit, Garbage, NoInfo, Wild
<1>1. DumpTypeOK
  <2>1. /\ optimised \in BOOLEAN /\ pipe \in BOOLEAN /\ later \in BOOLEAN
        /\ lost \in BOOLEAN /\ writeEnd \in BOOLEAN /\ readEnd \in BOOLEAN
    OBVIOUS
  <2>2. /\ stored \in 0 .. put /\ put \in 0 .. Items /\ put - stored <= BufferItems
        /\ got \in 0 .. stored /\ frame \in 1 .. Depth + 1 /\ bfds \in 0 .. 1
    OBVIOUS
  <2>3. saver \in {"capture", "done"} /\ loader \in {"fdopen", "capture"}
    OBVIOUS
  <2>4. LookupTypeOK BY DEF LookupTypeOK, Info
  <2> QED BY <2>1, <2>2, <2>3, <2>4 DEF DumpTypeOK
<1>2. OwnLookupOnly BY DEF OwnLookupOnly
<1>3. LookupInv BY DEF LookupInv
<1>4. WholeDumpOrNothing BY DEF WholeDumpOrNothing
<1>5. SaveInv /\ LoadInv BY DEF SaveInv, LoadInv
<1> QED BY <1>1, <1>2, <1>3, <1>4, <1>5 DEF DumpInv

(* A step of the saver, or of the callers. *)
LEMMA SaveKeepsDump ==
  ASSUME DumpInv, Save \/ SaverDies \/ CallerCloses
  PROVE  DumpInv'
<1> USE ItemsType, DumpAssumption
<1> DEFINE Frame == UNCHANGED <<optimised, pipe, later, loader, got, loadRet, lookup, frame, bfds, info, reported>>
<1>1. Frame
  BY DEF Save, SaverDies, CallerCloses, chosen, loading, dumping
<1>2. DumpTypeOK /\ SaveInv /\ WholeDumpOrNothing /\ LoadInv
  BY DEF DumpInv
<1>3. readEnd' \in BOOLEAN
  BY <1>2 DEF DumpTypeOK, Save, SaverDies, CallerCloses, loading
<1>4. /\ module' \in [1 .. Depth -> {Wild} \cup 1 .. Depth]
      /\ \A i \in 1 .. Depth : module'[i] <= i
      /\ lookup # "open" => module' = module
  <2>1. CASE Capture
    <3>1. lookup = "open"
      BY <2>1 DEF Capture, DumpInv, LookupInv, LoadInv, SaveInv, DumpTypeOK
    <3> QED BY <2>1, <3>1, FilledFrames DEF Capture
  <2>2. CASE UNCHANGED module
    BY <2>2 DEF DumpInv, LookupInv, DumpTypeOK, LookupTypeOK
  <2> QED BY <2>1, <2>2 DEF Save, SaverDies, CallerCloses
<1>5. LookupInv' /\ OwnLookupOnly' /\ LookupTypeOK'
  <2>1. LookupTypeOK'
    BY <1>1, <1>4 DEF DumpInv, DumpTypeOK, LookupTypeOK
  <2>2. OwnLookupOnly'
    BY <1>1 DEF DumpInv, OwnLookupOnly, Garbage, NoInfo
  <2>3. LookupInv'
    BY <1>1, <1>4 DEF DumpInv, LookupInv, Garbage, NoInfo
  <2> QED BY <2>1, <2>2, <2>3
<1> HIDE DEF DumpInv
<1> DEFINE Goal == DumpTypeOK' /\ SaveInv' /\ WholeDumpOrNothing' /\ LoadInv'
<1> USE DEF SaveReturns, Flushing, CanFail
<1>6. ASSUME Capture PROVE Goal
  <2> USE <1>1, <1>2, <1>3, <1>5, <1>6 DEF Capture
  <2>1. DumpTypeOK' BY DEF DumpTypeOK
  <2>2. SaveInv' BY DEF DumpTypeOK, SaveInv
  <2>3. LoadInv' BY DEF DumpTypeOK, LoadInv
  <2>4. WholeDumpOrNothing' BY DEF DumpTypeOK, WholeDumpOrNothing, SaveInv, LoadInv
  <2> QED BY <2>1, <2>2, <2>3, <2>4
<1>7. ASSUME SaveOpens PROVE Goal
  <2> USE <1>1, <1>2, <1>3, <1>5, <1>7 DEF SaveOpens
  <2>1. DumpTypeOK' BY DEF DumpTypeOK
  <2>2. SaveInv' BY DEF DumpTypeOK, SaveInv
  <2>3. LoadInv' BY DEF DumpTypeOK, LoadInv
  <2>4. WholeDumpOrNothing' BY DEF DumpTypeOK, WholeDumpOrNothing, SaveInv, LoadInv
  <2> QED BY <2>1, <2>2, <2>3, <2>4
<1>8. ASSUME SaveRefused PROVE Goal
  <2> USE <1>1, <1>2, <1>3, <1>5, <1>8 DEF SaveRefused
  <2>1. DumpTypeOK' BY DEF DumpTypeOK
  <2>2. SaveInv' BY DEF DumpTypeOK, SaveInv
  <2>3. LoadInv' BY DEF DumpTypeOK, LoadInv
  <2>4. WholeDumpOrNothing' BY DEF DumpTypeOK, WholeDumpOrNothing, SaveInv, LoadInv
  <2> QED BY <2>1, <2>2, <2>3, <2>4
<1>9. ASSUME Fwrite PROVE Goal
  <2> USE <1>1, <1>2, <1>3, <1>5, <1>9 DEF Fwrite
  <2>1. DumpTypeOK' BY DEF DumpTypeOK
  <2>2. SaveInv' BY DEF DumpTypeOK, SaveInv
  <2>3. LoadInv' BY DEF DumpTypeOK, LoadInv
  <2>4. WholeDumpOrNothing' BY DEF DumpTypeOK, WholeDumpOrNothing, SaveInv, LoadInv
  <2> QED BY <2>1, <2>2, <2>3, <2>4
<1>10. ASSUME Flush PROVE Goal
  <2> USE <1>1, <1>2, <1>3, <1>5, <1>10 DEF Flush
  <2>1. DumpTypeOK' BY DEF DumpTypeOK
  <2>2. SaveInv' BY DEF DumpTypeOK, SaveInv
  <2>3. LoadInv' BY DEF DumpTypeOK, LoadInv
  <2>4. WholeDumpOrNothing' BY DEF DumpTypeOK, WholeDumpOrNothing, SaveInv, LoadInv
  <2> QED BY <2>1, <2>2, <2>3, <2>4
<1>11. ASSUME FwriteFails PROVE Goal
  <2> USE <1>1, <1>2, <1>3, <1>5, <1>11 DEF FwriteFails
  <2>1. DumpTypeOK' BY DEF DumpTypeOK
  <2>2. SaveInv' BY DEF DumpTypeOK, SaveInv
  <2>3. LoadInv' BY DEF DumpTypeOK, LoadInv
  <2>4. WholeDumpOrNothing' BY DEF DumpTypeOK, WholeDumpOrNothing, SaveInv, LoadInv
  <2> QED BY <2>1, <2>2, <2>3, <2>4
<1>12. ASSUME SaveCloses PROVE Goal
  <2> USE <1>1, <1>2, <1>3, <1>5, <1>12 DEF SaveCloses
  <2>1. DumpTypeOK'
    <3>1. /\ saver' = "done" /\ lost' \in BOOLEAN /\ writeEnd' \in BOOLEAN
          /\ savedRet' \in {0, -1, NoReturn} /\ UNCHANGED <<put, stored>>
      BY DEF SaveReturns
    <3> QED BY <3>1 DEF DumpTypeOK
  <2>2. SaveInv' BY DEF DumpTypeOK, SaveInv
  <2>3. LoadInv' BY DEF DumpTypeOK, LoadInv
  <2>4. WholeDumpOrNothing' BY DEF DumpTypeOK, WholeDumpOrNothing, SaveInv, LoadInv
  <2> QED BY <2>1, <2>2, <2>3, <2>4
<1>13. ASSUME SaverDies PROVE Goal
  <2> USE <1>1, <1>2, <1>3, <1>5, <1>13 DEF SaverDies, Crash
  <2>1. DumpTypeOK'
    <3>1. writeEnd' \in BOOLEAN BY DEF DumpTypeOK
    <3>2. UNCHANGED <<put, stored, lost, savedRet>> OBVIOUS
    <3>3. saver' \in {"capture", "fdopen", "write", "fclose", "done", "dead"} BY DEF DumpTypeOK
    <3> QED BY <3>1, <3>2, <3>3, <1>1, <1>2, <1>3 DEF DumpTypeOK
  <2>2. SaveInv' BY DEF DumpTypeOK, SaveInv
  <2>3. LoadInv' BY DEF DumpTypeOK, LoadInv
  <2>4. WholeDumpOrNothing' BY DEF DumpTypeOK, WholeDumpOrNothing, SaveInv, LoadInv
  <2> QED BY <2>1, <2>2, <2>3, <2>4
<1>14. ASSUME CallerCloses PROVE Goal
  <2> USE <1>1, <1>2, <1>3, <1>5, <1>14 DEF CallerCloses
  <2>1. DumpTypeOK'
    <3>1. writeEnd' \in BOOLEAN BY DEF DumpTypeOK
    <3>2. UNCHANGED <<put, stored, lost, savedRet>> OBVIOUS
    <3>3. saver' \in {"capture", "fdopen", "write", "fclose", "done", "dead"} BY DEF DumpTypeOK
    <3> QED BY <3>1, <3>2, <3>3, <1>1, <1>2, <1>3 DEF DumpTypeOK
  <2>2. SaveInv' BY DEF DumpTypeOK, SaveInv
  <2>3. LoadInv' BY DEF DumpTypeOK, LoadInv
  <2>4. WholeDumpOrNothing' BY DEF DumpTypeOK, WholeDumpOrNothing, SaveInv, LoadInv
  <2> QED BY <2>1, <2>2, <2>3, <2>4
<1> QED BY <1>5, <1>6, <1>7, <1>8, <1>9, <1>10, <1>11, <1>12, <1>13, <1>14 DEF Save, DumpInv

(* A step of load up to the frames, or of backtrace_dump. *)
LEMMA ReadKeepsDump ==
  ASSUME DumpInv, Load,
         DumpCaptures \/ LoadOpens \/ Fread \/ FreadShort \/ DumpDone \/ DumpDies
  PROVE  DumpInv'
<1> USE ItemsType, DumpAssumption DEF LoadReturns, EndOfData
<1>1. UNCHANGED <<optimised, pipe, later, saver, put, stored, lost, savedRet, writeEnd,
                  lookup, frame, bfds, info, reported>>
  BY DEF Load, DumpCaptures, LoadOpens, Fread, FreadShort,
         DumpDone, DumpDies, chosen, saving, dumping
<1>2. DumpTypeOK /\ SaveInv /\ WholeDumpOrNothing /\ LoadInv
  BY DEF DumpInv
<1>3. LookupInv' /\ OwnLookupOnly' /\ SaveInv' /\ LookupTypeOK'
  <2>1. SaveInv'
    BY <1>1 DEF DumpInv, SaveInv
  <2>2. OwnLookupOnly'
    BY <1>1 DEF DumpInv, OwnLookupOnly, Garbage, NoInfo
  <2>3. /\ module' \in [1 .. Depth -> {Wild} \cup 1 .. Depth]
        /\ \A i \in 1 .. Depth : module'[i] <= i
    <3>1. CASE FillFrameInfo
      BY <3>1, FilledFrames
    <3>2. CASE UNCHANGED module
      BY <3>2 DEF DumpInv, LookupInv, DumpTypeOK, LookupTypeOK
    <3> QED BY <3>1, <3>2 DEF Load, DumpCaptures, LoadOpens, Fread, FreadShort, DumpDone,
                              DumpDies, BfdOpens, BfdRefused, FindLine, Report
  <2>4. lookup = "open" \/ (loader' = "dump" /\ UNCHANGED module)
    <3>1. lookup = "open" \/ loader = "dump"
      BY DEF DumpInv, LookupInv
    <3>2. lookup = "open" \/ ~(frame > Depth)
      BY DEF DumpInv, LookupInv, DumpTypeOK, LookupTypeOK
    <3>3. CASE loader # "dump"
      BY <3>1, <3>3
    <3>4. CASE loader = "dump"
      <4>1. DumpDone \/ DumpDies
        BY <3>4 DEF DumpCaptures, LoadOpens, Fread, FreadShort
      <4> QED BY <4>1, <3>2 DEF DumpDone, DumpDies
    <3> QED BY <3>3, <3>4
  <2>5. LookupInv'
    BY <1>1, <2>3, <2>4 DEF DumpInv, LookupInv, Garbage, NoInfo
  <2>6. LookupTypeOK'
    BY <1>1, <2>3 DEF DumpInv, DumpTypeOK, LookupTypeOK
  <2> QED BY <2>1, <2>2, <2>5, <2>6
<1> DEFINE Goal == DumpTypeOK' /\ WholeDumpOrNothing' /\ LoadInv'
<1>4. ASSUME DumpCaptures PROVE Goal
  <2> USE <1>1, <1>2, <1>3, <1>4 DEF DumpCaptures
  <2>1. DumpTypeOK' BY DEF DumpTypeOK
  <2>2. LoadInv' BY DEF DumpTypeOK, LoadInv
  <2>3. WholeDumpOrNothing' BY DEF DumpTypeOK, WholeDumpOrNothing, LoadInv
  <2> QED BY <2>1, <2>2, <2>3
<1>5. ASSUME LoadOpens PROVE Goal
  <2> USE <1>1, <1>2, <1>3, <1>5 DEF LoadOpens
  <2>1. DumpTypeOK' BY DEF DumpTypeOK
  <2>2. LoadInv' BY DEF DumpTypeOK, LoadInv
  <2>3. WholeDumpOrNothing' BY DEF DumpTypeOK, WholeDumpOrNothing, LoadInv
  <2> QED BY <2>1, <2>2, <2>3
<1>6. ASSUME Fread PROVE Goal
  <2> USE <1>1, <1>2, <1>3, <1>6 DEF Fread
  <2>1. DumpTypeOK' BY DEF DumpTypeOK
  <2>2. LoadInv' BY DEF DumpTypeOK, LoadInv
  <2>3. WholeDumpOrNothing' BY DEF DumpTypeOK, WholeDumpOrNothing, LoadInv
  <2> QED BY <2>1, <2>2, <2>3
<1>7. ASSUME FreadShort PROVE Goal
  <2> USE <1>1, <1>2, <1>3, <1>7 DEF FreadShort
  <2>1. DumpTypeOK'
    <3>1. readEnd' \in BOOLEAN OBVIOUS
    <3>2. UNCHANGED got /\ loader' = "done" /\ loadRet' \in {0, -1} OBVIOUS
    <3> QED BY <3>1, <3>2, <1>1, <1>2 DEF DumpTypeOK
  <2>2. LoadInv' BY DEF DumpTypeOK, LoadInv
  <2>3. WholeDumpOrNothing' BY DEF DumpTypeOK, WholeDumpOrNothing, LoadInv
  <2> QED BY <2>1, <2>2, <2>3
<1>8. ASSUME DumpDone PROVE Goal
  <2> USE <1>1, <1>2, <1>3, <1>8 DEF DumpDone
  <2>1. DumpTypeOK'
    <3>1. readEnd' \in BOOLEAN OBVIOUS
    <3>2. UNCHANGED got /\ loader' = "done" /\ loadRet' \in {0, -1} OBVIOUS
    <3> QED BY <3>1, <3>2, <1>1, <1>2 DEF DumpTypeOK
  <2>2. LoadInv' BY DEF DumpTypeOK, LoadInv
  <2>3. WholeDumpOrNothing' BY DEF DumpTypeOK, WholeDumpOrNothing, LoadInv
  <2> QED BY <2>1, <2>2, <2>3
<1>9. ASSUME DumpDies PROVE Goal
  <2> USE <1>1, <1>2, <1>3, <1>9 DEF DumpDies
  <2>1. DumpTypeOK' BY DEF DumpTypeOK
  <2>2. LoadInv' BY DEF DumpTypeOK, LoadInv
  <2>3. WholeDumpOrNothing' BY DEF DumpTypeOK, WholeDumpOrNothing, LoadInv
  <2> QED BY <2>1, <2>2, <2>3
<1> QED BY <1>3, <1>4, <1>5, <1>6, <1>7, <1>8, <1>9 DEF DumpInv

(* A step of backtrace_dump_frames. *)
LEMMA FramesKeepDump ==
  ASSUME DumpInv, Load,
         BfdOpens \/ BfdRefused \/ FindLine \/ Report
  PROVE  DumpInv'
<1> USE ItemsType, DumpAssumption DEF NextFrame, Garbage, NoInfo, Wild
<1>1. UNCHANGED <<optimised, pipe, later, saver, put, stored, lost, savedRet, writeEnd,
                  loader, got, loadRet, readEnd, module>>
  BY DEF Load, DumpCaptures, LoadOpens, Fread, FreadShort, BfdOpens, BfdRefused, FindLine, Report,
         DumpDone, DumpDies, chosen, saving, loading, LoadReturns
<1>2. DumpTypeOK /\ LookupTypeOK /\ OwnLookupOnly /\ LookupInv /\ WholeDumpOrNothing /\ LoadInv
  BY DEF DumpInv, DumpTypeOK
<1>3. SaveInv'
  BY <1>1 DEF DumpInv, SaveInv
<1>4. loader = "dump"
  BY DEF BfdOpens, BfdRefused, FindLine, Report
<1>5. LoadInv' /\ WholeDumpOrNothing'
  <2>1. LoadInv' BY <1>1, <1>2, <1>4 DEF DumpTypeOK, LoadInv
  <2>2. WholeDumpOrNothing' BY <1>1, <1>2, <1>4 DEF DumpTypeOK, WholeDumpOrNothing, LoadInv
  <2> QED BY <2>1, <2>2
<1> DEFINE Goal == LookupTypeOK' /\ OwnLookupOnly' /\ LookupInv'
<1>6. ASSUME BfdOpens \/ BfdRefused PROVE Goal
  <2> USE <1>1, <1>2, <1>4, <1>6 DEF BfdOpens, BfdRefused
  <2>1. LookupTypeOK' BY DEF LookupTypeOK, LookupInv
  <2>2. OwnLookupOnly' BY DEF OwnLookupOnly
  <2>3. LookupInv' BY DEF LookupTypeOK, LookupInv
  <2> QED BY <2>1, <2>2, <2>3
<1>7. ASSUME FindLine PROVE Goal
  <2>1. /\ lookup = "search" /\ lookup' = "report" /\ UNCHANGED <<frame, bfds, reported>>
        /\ info' \in Info /\ \A f \in Fields : info'[f] \in {info[f], frame}
    BY <1>2, <1>7 DEF FindLine, LookupTypeOK
  <2>2. frame \in 1 .. Depth
    BY <1>2, <2>1 DEF LookupTypeOK, LookupInv
  <2> USE <1>1, <1>2, <1>4, <2>1, <2>2
  <2>3. LookupTypeOK' BY DEF LookupTypeOK
  <2>4. OwnLookupOnly' BY DEF OwnLookupOnly
  <2>5. LookupInv' BY DEF LookupInv
  <2> QED BY <2>3, <2>4, <2>5
<1>8. ASSUME Report PROVE Goal
  <2> DEFINE r == [frame |-> frame, module |-> module[frame], info |-> info]
  <2>1. /\ lookup = "report" /\ lookup' = "open" /\ frame' = frame + 1 /\ bfds' = bfds - 1
        /\ reported' = reported \cup {r}
        /\ info' = IF optimised THEN info ELSE [f \in Fields |-> NoInfo]
    BY <1>8 DEF Report, FieldsCleared
  <2>2. frame \in 1 .. Depth /\ module[frame] \in 1 .. Depth /\ module[frame] <= frame /\ bfds = 1
    BY <1>2, <2>1 DEF LookupTypeOK, LookupInv
  <2>3. /\ r \in [frame : 1 .. Depth, module : 1 .. Depth, info : Info]
        /\ r.frame = frame /\ r.module = module[frame] /\ r.info = info
    BY <1>2, <2>2 DEF LookupTypeOK
  <2> HIDE DEF r
  <2>4. info' \in Info /\ \A f \in Fields : info'[f] = IF optimised THEN info[f] ELSE NoInfo
    BY <1>2, <2>1 DEF LookupTypeOK, Info
  <2>5. LookupTypeOK'
    BY <1>1, <1>2, <2>1, <2>2, <2>3, <2>4 DEF LookupTypeOK
  <2>6. OwnLookupOnly'
    <3> SUFFICES ASSUME NEW x \in reported', NEW f \in Fields
                 PROVE  \/ x.info[f] \in {x.frame, NoInfo}
                        \/ /\ x.info[f] = Garbage
                           /\ \A s \in reported' :
                                s.frame < x.frame => optimised /\ s.info[f] = Garbage
                        \/ optimised /\ x.info[f] \in 1 .. x.frame - 1
      BY <1>1 DEF OwnLookupOnly
    <3>1. CASE x = r
      BY <1>2, <2>1, <2>2, <2>3, <3>1 DEF LookupInv
    <3>2. CASE x \in reported
      <4>1. x.frame < frame
        BY <1>2, <3>2 DEF LookupInv
      <4>2. x.frame \in Nat
        BY <1>2, <3>2 DEF LookupTypeOK
      <4> QED BY <1>2, <2>1, <2>2, <2>3, <3>2, <4>1, <4>2 DEF OwnLookupOnly
    <3> QED BY <2>1, <3>1, <3>2
  <2>7. LookupInv'
    <3>1. \A x \in reported' : x.frame < frame' /\ x.module <= x.frame
      BY <1>2, <2>1, <2>2, <2>3 DEF LookupInv, LookupTypeOK
    <3>2. ASSUME NEW f \in Fields
          PROVE  /\ \/ info'[f] \in {Garbage, NoInfo}
                    \/ optimised /\ info'[f] \in 1 .. frame' - 1
                 /\ info'[f] = Garbage => \A s \in reported' : optimised /\ s.info[f] = Garbage
      BY <1>2, <2>1, <2>2, <2>3, <2>4, <3>2 DEF LookupInv
    <3> QED BY <1>1, <1>2, <2>1, <2>2, <3>1, <3>2 DEF LookupInv
  <2> QED BY <2>5, <2>6, <2>7
<1>9. Goal
  BY <1>6, <1>7, <1>8
<1>10. DumpTypeOK'
  BY <1>1, <1>2, <1>9 DEF DumpTypeOK
<1> QED BY <1>3, <1>5, <1>9, <1>10 DEF DumpInv

LEMMA DumpInvariant == DumpSpec => []DumpInv
<1>1. DumpInit => DumpInv BY InitDump
<1>2. DumpInv /\ [DumpNext]_dump_vars => DumpInv'
  <2> SUFFICES ASSUME DumpInv, [DumpNext]_dump_vars PROVE DumpInv'
    OBVIOUS
  <2>1. CASE Save \/ SaverDies \/ CallerCloses
    BY <2>1, SaveKeepsDump
  <2>2. CASE Load
    BY <2>2, ReadKeepsDump, FramesKeepDump DEF Load
  <2>3. CASE UNCHANGED dump_vars
    <3> USE <2>3 DEF dump_vars, chosen, saving, loading, dumping
    <3>1. DumpTypeOK' /\ SaveInv' /\ LoadInv' /\ WholeDumpOrNothing'
      BY DEF DumpInv, DumpTypeOK, LookupTypeOK, SaveInv, LoadInv, WholeDumpOrNothing
    <3>2. LookupInv'
      BY DEF DumpInv, LookupInv, Garbage, NoInfo
    <3>3. OwnLookupOnly'
      BY DEF DumpInv, OwnLookupOnly, Garbage, NoInfo
    <3> QED BY <3>1, <3>2, <3>3 DEF DumpInv
  <2> QED BY <2>1, <2>2, <2>3 DEF DumpNext
<1> QED BY <1>1, <1>2, PTL DEF DumpSpec

(* Whatever backtrace_dump or backtrace_dump_load reports of a frame was    *)
(* found by the lookup for that frame, or is null, or uninitialised if no   *)
(* frame was reported before, unless the build optimises the clearing of    *)
(* addrinfo away; the module searched is the frame's or an earlier one's,   *)
(* however many frames dladdr does not know; and no bfd outlives its frame: *)
(* for any depth, buffer and pipe.                                          *)
THEOREM FramesKeepTheirOwnLookup ==
  DumpSpec => []BacktraceInv
<1>1. DumpInv => BacktraceInv
  BY DEF DumpInv, LookupInv, BacktraceInv
<1> QED BY <1>1, DumpInvariant, PTL

(* Whenever the saving process dies and wherever its buffers were, load     *)
(* reports a whole dump or nothing, does not refuse a dump that was stored  *)
(* whole, and save's 0 means that it was, unless the last flush failed.     *)
THEOREM DumpsAreWholeOrNothing ==
  DumpSpec => []WholeDumpOrNothing
<1>1. DumpInv => WholeDumpOrNothing BY DEF DumpInv, WholeDumpOrNothing
<1> QED BY <1>1, DumpInvariant, PTL

-----------------------------------------------------------------------------
(* file_descriptor. *)

(* The constants. *)
LEMMA InvalidIsNoNumber == Invalid \notin Numbers
BY DescriptorAssumption DEF Invalid, Numbers

LEMMA RawIsNoObject == Raw \in Holders /\ Objects \subseteq Holders /\ Raw \notin Objects
BY DescriptorAssumption DEF Holders

LEMMA InitOwned == DescriptorInit => OwnershipInv
BY InvalidIsNoNumber, RawIsNoObject, DescriptorAssumption DEF DescriptorInit, OwnershipInv,
                                                              DescriptorTypeOK, OwnedOnce

(* The step of each member function. *)
LEMMA NextOwned == OwnershipInv /\ [DescriptorNext]_descriptor_vars => OwnershipInv'
<1> SUFFICES ASSUME OwnershipInv, [DescriptorNext]_descriptor_vars PROVE OwnershipInv'
  OBVIOUS
<1> USE InvalidIsNoNumber, RawIsNoObject, DescriptorAssumption
<1>1. CASE Open
  BY <1>1 DEF Open, OwnershipInv, DescriptorTypeOK, OwnedOnce, Lowest
<1>2. ASSUME NEW o \in Objects, Construct(o) PROVE OwnershipInv'
  BY <1>2 DEF Construct, OwnershipInv, DescriptorTypeOK, OwnedOnce
<1>3. ASSUME NEW o \in Objects, Destruct(o) PROVE OwnershipInv'
  BY <1>3 DEF Destruct, Closed, OwnershipInv, DescriptorTypeOK, OwnedOnce
<1>4. ASSUME NEW o \in Objects, Close(o) PROVE OwnershipInv'
  BY <1>4 DEF Close, Closed, OwnershipInv, DescriptorTypeOK, OwnedOnce
<1>5. ASSUME NEW o \in Objects, Release(o) PROVE OwnershipInv'
  BY <1>5 DEF Release, OwnershipInv, DescriptorTypeOK, OwnedOnce
<1>6. ASSUME NEW o \in Objects, NEW p \in Objects, CopyConstruct(o, p) PROVE OwnershipInv'
  <2>1. CASE fd[p] = Invalid \/ Exhausted
    BY <1>6, <2>1 DEF CopyConstruct, Duplicate, Closed, OwnershipInv, DescriptorTypeOK,
                      OwnedOnce
  <2>2. CASE ~(fd[p] = Invalid \/ Exhausted)
    BY <1>6, <2>2 DEF CopyConstruct, Duplicate, Closed, Lowest, OwnershipInv,
                      DescriptorTypeOK, OwnedOnce
  <2> QED BY <2>1, <2>2
<1>7. ASSUME NEW o \in Objects, NEW p \in Objects, MoveConstruct(o, p) PROVE OwnershipInv'
  BY <1>7 DEF MoveConstruct, OwnershipInv, DescriptorTypeOK, OwnedOnce
<1>8. ASSUME NEW o \in Objects, NEW p \in Objects, CopyAssign(o, p) PROVE OwnershipInv'
  <2>1. CASE fd[p] = Invalid \/ Exhausted
    BY <1>8, <2>1 DEF CopyAssign, Duplicate, Closed, OwnershipInv, DescriptorTypeOK, OwnedOnce
  <2>2. CASE ~(fd[p] = Invalid \/ Exhausted)
    BY <1>8, <2>2 DEF CopyAssign, Duplicate, Closed, Lowest, OwnershipInv, DescriptorTypeOK,
                      OwnedOnce
  <2> QED BY <2>1, <2>2
<1>9. ASSUME NEW o \in Objects, NEW p \in Objects, MoveAssign(o, p) PROVE OwnershipInv'
  BY <1>9 DEF MoveAssign, Closed, OwnershipInv, DescriptorTypeOK, OwnedOnce
<1>10. CASE UNCHANGED descriptor_vars
  BY <1>10 DEF descriptor_vars, OwnershipInv, DescriptorTypeOK, OwnedOnce
<1> QED BY <1>1, <1>2, <1>3, <1>4, <1>5, <1>6, <1>7, <1>8, <1>9, <1>10 DEF DescriptorNext

(* Through any sequence of copies, moves, assignments, closes and failed   *)
(* duplications every open number has exactly one holder and every number  *)
(* held is open, for every descriptor limit and any number of objects.     *)
THEOREM DescriptorsAreOwnedOnce == DescriptorSpec => []OwnershipInv
<1>1. DescriptorInit => OwnershipInv BY InitOwned
<1>2. OwnershipInv /\ [DescriptorNext]_descriptor_vars => OwnershipInv' BY NextOwned
<1> QED BY <1>1, <1>2, PTL DEF DescriptorSpec

-----------------------------------------------------------------------------
(* The refinement: the file behind each holder, and the files that are     *)
(* open.                                                                   *)
File == [h \in Holders |-> IF fd[h] = Invalid THEN NoFile ELSE table[fd[h]]]
OpenFiles == {f \in Files : \E n \in Numbers : table[n] = f}

(* Every open number has a holder, so a file is open exactly as long as    *)
(* somebody refers to it.                                                  *)
LEMMA OpenIsHeld ==
  ASSUME OwnershipInv'
  PROVE  OpenFiles' = {f \in Files : \E h \in Holders : File'[h] = f}
BY InvalidIsNoNumber, DescriptorAssumption DEF OpenFiles, File, OwnershipInv,
                                               DescriptorTypeOK, OwnedOnce

(* All other holders refer to what they did. *)
Keep(others) == \A i \in Holders \ others : File'[i] = File[i]

(* A step is one of the abstract ones if it changes what the holders refer *)
(* to as that does.                                                        *)
LEMMA Drops ==
  ASSUME OwnershipInv', NEW h \in Holders, Keep({h}), File'[h] = NoFile
  PROVE  Abstract!Next
<1>1. Abstract!Drop(h)
  <2>1. File' = [File EXCEPT ![h] = NoFile]
    BY DEF Keep, File
  <2>2. OpenFiles' = {e \in Files : \E i \in Holders : [File EXCEPT ![h] = NoFile][i] = e}
    BY <2>1, OpenIsHeld
  <2> QED BY <2>1, <2>2 DEF Abstract!Drop, Abstract!Refer, File, OpenFiles
<1> QED BY <1>1 DEF Abstract!Next

LEMMA Takes ==
  ASSUME OwnershipInv', NEW h \in Holders, NEW f \in Files \ OpenFiles,
         Keep({h}), File[h] = NoFile, File'[h] = f
  PROVE  Abstract!Next
<1>1. Abstract!Take(h)
  <2>1. File' = [File EXCEPT ![h] = f]
    BY DEF Keep, File
  <2>2. OpenFiles' = {e \in Files : \E i \in Holders : [File EXCEPT ![h] = f][i] = e}
    BY <2>1, OpenIsHeld
  <2> QED BY <2>1, <2>2 DEF Abstract!Take, Abstract!Refer, File, OpenFiles
<1> QED BY <1>1 DEF Abstract!Next

LEMMA Shares ==
  ASSUME OwnershipInv', NEW h \in Holders, NEW g \in Holders \ {h},
         Keep({h}), File'[h] = File[g]
  PROVE  Abstract!Next
<1>1. Abstract!Share(h, g)
  <2>1. File' = [File EXCEPT ![h] = File[g]]
    <3>1. File = [i \in Holders |-> File[i]] /\ File' = [i \in Holders |-> File'[i]]
      BY DEF File
    <3>2. \A i \in Holders : File'[i] = [File EXCEPT ![h] = File[g]][i]
      BY <3>1 DEF Keep
    <3> QED BY <3>1, <3>2
  <2>2. OpenFiles' = {e \in Files : \E i \in Holders : [File EXCEPT ![h] = File[g]][i] = e}
    BY <2>1, OpenIsHeld
  <2>3. Abstract!Refer([File EXCEPT ![h] = File[g]])
    BY <2>1, <2>2 DEF Abstract!Refer, File, OpenFiles
  <2> QED BY <2>3 DEF Abstract!Share, File
<1> QED BY <1>1 DEF Abstract!Next

LEMMA Moves ==
  ASSUME OwnershipInv', NEW h \in Holders, NEW g \in Holders \ {h},
         Keep({h, g}), File'[h] = File[g], File'[g] = NoFile
  PROVE  Abstract!Next
<1>1. Abstract!Move(h, g)
  <2>1. File' = [File EXCEPT ![h] = File[g], ![g] = NoFile]
    <3>1. File = [i \in Holders |-> File[i]] /\ File' = [i \in Holders |-> File'[i]]
      BY DEF File
    <3>2. \A i \in Holders : File'[i] = [File EXCEPT ![h] = File[g], ![g] = NoFile][i]
      BY <3>1 DEF Keep
    <3> QED BY <3>1, <3>2
  <2>2. OpenFiles' = {e \in Files : \E i \in Holders : [File EXCEPT ![h] = File[g], ![g] = NoFile][i] = e}
    BY <2>1, OpenIsHeld
  <2>3. Abstract!Refer([File EXCEPT ![h] = File[g], ![g] = NoFile])
    BY <2>1, <2>2 DEF Abstract!Refer, File, OpenFiles
  <2> QED BY <2>3 DEF Abstract!Move, File
<1> QED BY <1>1 DEF Abstract!Next

LEMMA InitRefines == DescriptorInit => Abstract!Init
BY RawIsNoObject, DescriptorAssumption DEF DescriptorInit, Abstract!Init

LEMMA StepRefines ==
  ASSUME OwnershipInv, OwnershipInv', [DescriptorNext]_descriptor_vars
  PROVE  [Abstract!Next]_(Abstract!vars)
<1> USE InvalidIsNoNumber, RawIsNoObject, DescriptorAssumption
<1>1. CASE Open
  <2>1. PICK f \in Files \ OpenFiles : Keep({Raw}) /\ File[Raw] = NoFile /\ File'[Raw] = f
    BY <1>1 DEF Open, OpenFiles, Lowest, Keep, File, OwnershipInv, DescriptorTypeOK, OwnedOnce
  <2> QED BY <2>1, Takes
<1>2. ASSUME NEW o \in Objects, Destruct(o) \/ Close(o) PROVE Abstract!Next
  <2>1. Keep({o}) /\ File'[o] = NoFile
    BY <1>2 DEF Destruct, Close, Closed, Keep, File, OwnershipInv, DescriptorTypeOK, OwnedOnce
  <2> QED BY <2>1, Drops
<1>3. ASSUME NEW o \in Objects, Construct(o) PROVE Abstract!Next
  <2>1. Keep({o, Raw}) /\ File'[o] = File[Raw] /\ File'[Raw] = NoFile
    BY <1>3 DEF Construct, Keep, File, OwnershipInv, DescriptorTypeOK, OwnedOnce
  <2> QED BY <2>1, Moves
<1>4. ASSUME NEW o \in Objects, Release(o) PROVE Abstract!Next
  <2>1. Keep({Raw, o}) /\ File'[Raw] = File[o] /\ File'[o] = NoFile
    BY <1>4 DEF Release, Keep, File, OwnershipInv, DescriptorTypeOK, OwnedOnce
  <2> QED BY <2>1, Moves
<1>5. ASSUME NEW o \in Objects, NEW p \in Objects, MoveConstruct(o, p) \/ MoveAssign(o, p)
      PROVE  Abstract!Next
  <2>1. o # p /\ Keep({o, p}) /\ File'[o] = File[p] /\ File'[p] = NoFile
    BY <1>5 DEF MoveConstruct, MoveAssign, Closed, Keep, File, OwnershipInv, DescriptorTypeOK,
                OwnedOnce
  <2> QED BY <2>1, Moves
<1>6. ASSUME NEW o \in Objects, NEW p \in Objects, CopyConstruct(o, p) \/ CopyAssign(o, p)
      PROVE  Abstract!Next
  <2>1. o # p /\ Duplicate(o, p, fd[o])
    BY <1>6 DEF CopyConstruct, CopyAssign, OwnershipInv, OwnedOnce
  <2>2. CASE fd[p] = Invalid \/ Exhausted
    <3>1. Keep({o}) /\ File'[o] = NoFile
      BY <2>1, <2>2 DEF Duplicate, Closed, Keep, File, OwnershipInv, DescriptorTypeOK, OwnedOnce
    <3> QED BY <3>1, Drops
  <2>3. CASE ~(fd[p] = Invalid \/ Exhausted)
    <3>1. Keep({o}) /\ File'[o] = File[p]
      BY <2>1, <2>3 DEF Duplicate, Closed, Lowest, Keep, File, OwnershipInv, DescriptorTypeOK,
                        OwnedOnce
    <3> QED BY <2>1, <3>1, Shares
  <2> QED BY <2>2, <2>3
<1>7. CASE UNCHANGED descriptor_vars
  BY <1>7 DEF descriptor_vars, Abstract!vars
<1> QED BY <1>1, <1>2, <1>3, <1>4, <1>5, <1>6, <1>7 DEF DescriptorNext

(* Seen through the files they refer to, the objects are handles that know *)
(* no numbers: copies share the file, moves hand it on, and a file is      *)
(* closed by the step that takes its last holder away.                     *)
THEOREM DescriptorsAreHandles == DescriptorSpec => ImplementsHandles
<1>1. DescriptorInit => Abstract!Init BY InitRefines
<1>2. OwnershipInv /\ OwnershipInv' /\ [DescriptorNext]_descriptor_vars => [Abstract!Next]_(Abstract!vars)
  BY StepRefines
<1> QED BY <1>1, <1>2, DescriptorsAreOwnedOnce, PTL DEF DescriptorSpec, ImplementsHandles,
                                                        Abstract!Spec

-----------------------------------------------------------------------------
(* hex: what hex_str computes is the value of the notation. *)

LEMMA Division ==
  ASSUME NEW c \in Nat \ {0}, NEW n \in Nat
  PROVE  (n \div c) * c + (n % c) = n /\ n \div c \in Nat /\ n % c \in 0 .. c - 1
<1>1. (n \div c) * c + (n % c) = n
  OBVIOUS
<1>2. n \div c \in Nat
  OBVIOUS
<1>3. n % c \in 0 .. c - 1
  OBVIOUS
<1> QED BY <1>1, <1>2, <1>3

(* Quotient and remainder are determined by what they add up to. *)
LEMMA QuotientAndRemainder ==
  ASSUME NEW c \in Nat \ {0}, NEW q \in Int, NEW e \in 0 .. c - 1, NEW n \in Nat, n = q * c + e
  PROVE  n % c = e /\ n \div c = q
<1>1. PICK s \in Nat, t \in 0 .. c - 1 : s * c + t = n /\ t = n % c /\ s = n \div c
  BY Division
<1>2. PICK d \in Int : d = q - s
  OBVIOUS
<1>3. PICK u \in Int, v \in Int : u = q * c /\ v = s * c /\ u + e = n /\ v + t = n
  BY <1>1
<1>4. q * c - s * c = (q - s) * c
  OBVIOUS
<1>5. d * c = t - e
  <2>1. d * c = u - v
    BY <1>2, <1>3, <1>4
  <2>2. u - v = t - e
    BY <1>3
  <2> QED BY <2>1, <2>2
<1>6. d = 0
  <2>1. CASE d >= 1
    <3>1. d * c >= 1 * c
      BY <2>1
    <3> QED BY <1>5, <3>1
  <2>2. CASE d <= -1
    <3>1. d * c <= (-1) * c
      BY <2>2
    <3> QED BY <1>5, <3>1
  <2> QED BY <2>1, <2>2
<1>7. q = s
  <2>1. q - s = 0
    BY <1>2, <1>6
  <2>2. \A i, j \in Int : i - j = 0 => i = j
    OBVIOUS
  <2> QED BY <2>1, <2>2
<1>8. t = e
  <2>1. d * c = 0
    BY <1>6
  <2> QED BY <1>5, <2>1
<1> QED BY <1>1, <1>7, <1>8

(* A recursion over numbers whose steps stay in a set has a solution.      *)
Recursion(f, S, L, base, step) ==
  f \in [0 .. L -> S] /\ f[0] = base /\ \A n \in 1 .. L : f[n] = step[<<f[n - 1], n>>]

LEMMA RecursionExists ==
  ASSUME NEW S, NEW L \in Nat, NEW base \in S, NEW step \in [S \X (1 .. L) -> S]
  PROVE  \E f : Recursion(f, S, L, base, step)
<1> DEFINE Solves(f, m) == f[0] = base /\ \A n \in 1 .. m : f[n] = step[<<f[n - 1], n>>]
           Solved(m) == \E f \in [0 .. m -> S] : Solves(f, m)
           Bad == {m \in 0 .. L : ~Solved(m)}
<1>1. Solved(0)
  <2> DEFINE f == [i \in 0 .. 0 |-> base]
  <2>1. f \in [0 .. 0 -> S] /\ f[0] = base
    OBVIOUS
  <2>2. 1 .. 0 = {}
    OBVIOUS
  <2> HIDE DEF f
  <2>3. Solves(f, 0)
    BY <2>1, <2>2
  <2> QED BY <2>1, <2>3
<1>2. ASSUME NEW m \in Nat, m + 1 <= L, Solved(m) PROVE Solved(m + 1)
  <2>1. PICK f \in [0 .. m -> S] : Solves(f, m)
    BY <1>2
  <2> DEFINE g == [i \in 0 .. m + 1 |-> IF i = m + 1 THEN step[<<f[m], m + 1>>] ELSE f[i]]
  <2>2. f[m] \in S /\ <<f[m], m + 1>> \in S \X (1 .. L)
    BY <1>2
  <2>3. \A i \in 0 .. m + 1 : i = m + 1 \/ i \in 0 .. m
    OBVIOUS
  <2>4. step[<<f[m], m + 1>>] \in S
    BY <2>2
  <2>5. g \in [0 .. m + 1 -> S]
    BY <2>3, <2>4
  <2>6. g[m + 1] = step[<<f[m], m + 1>>] /\ \A i \in 0 .. m : g[i] = f[i]
    <3>1. \A i \in 0 .. m : i \in 0 .. m + 1 /\ i # m + 1
      OBVIOUS
    <3>2. m + 1 \in 0 .. m + 1
      OBVIOUS
    <3> QED BY <3>1, <3>2
  <2> HIDE DEF g
  <2>7. ASSUME NEW n \in 1 .. m + 1 PROVE g[n] = step[<<g[n - 1], n>>]
    <3>1. CASE n = m + 1
      <4>1. n - 1 = m /\ m \in 0 .. m
        BY <3>1
      <4> QED BY <2>6, <3>1, <4>1
    <3>2. CASE n # m + 1
      <4>1. n \in 1 .. m /\ n \in 0 .. m /\ n - 1 \in 0 .. m
        BY <3>2
      <4>2. f[n] = step[<<f[n - 1], n>>]
        BY <2>1, <4>1
      <4> QED BY <2>6, <4>1, <4>2
    <3> QED BY <3>1, <3>2
  <2>8. g[0] = base
    <3>1. 0 \in 0 .. m
      OBVIOUS
    <3> QED BY <2>1, <2>6, <3>1
  <2>9. Solves(g, m + 1)
    BY <2>7, <2>8
  <2> HIDE DEF Solves
  <2> QED BY <2>5, <2>9
<1> HIDE DEF Solved
<1>3. Bad = {}
  <2> SUFFICES ASSUME Bad # {} PROVE FALSE
    OBVIOUS
  <2>1. Bad \subseteq Nat
    OBVIOUS
  <2>2. PICK m \in Bad : \A i \in Bad : m <= i
    BY <2>1, SmallestNumber
  <2>3. m \in 0 .. L /\ ~Solved(m) /\ m # 0
    BY <1>1, <2>2
  <2>4. m - 1 \in Nat /\ m - 1 \in 0 .. L /\ (m - 1) + 1 = m /\ m <= L /\ ~(m <= m - 1)
    BY <2>3
  <2>5. Solved(m - 1)
    BY <2>2, <2>4
  <2> QED BY <1>2, <2>3, <2>4, <2>5
<1>4. L \in 0 .. L
  OBVIOUS
<1>5. Solved(L)
  BY <1>3, <1>4
<1> QED BY <1>5 DEF Solved, Recursion

(* A character's code in the table is what the notation says. *)
LEMMA TableOfDigits ==
  ASSUME NEW c \in Nat
  PROVE  /\ hex_map(c) # -1 <=> IsDigit(c)
         /\ IsDigit(c) => hex_map(c) = Digit(c)
         /\ hex_map(c) \in -1 .. 15
<1>1. \A d \in 0 .. 15 : DigitCodes[d] = IF d < 10 THEN 48 + d ELSE 65 + d - 10
  BY DEF DigitCodes
<1>2. hex_map(c) = IF c \in 48 .. 57 THEN c - 48
                   ELSE IF c \in 65 .. 70 THEN c - 55
                   ELSE IF c \in 97 .. 102 THEN c - 87 ELSE -1
  BY DEF hex_map
<1>3. hex_map(c) \in -1 .. 15
  BY <1>2
<1>4. ASSUME NEW d \in 0 .. 15, Upper(c) = DigitCodes[d] PROVE hex_map(c) = d
  <2>1. Upper(c) = IF d < 10 THEN 48 + d ELSE 65 + d - 10
    BY <1>1, <1>4
  <2> QED BY <1>2, <2>1 DEF Upper
<1>5. ASSUME hex_map(c) # -1 PROVE hex_map(c) \in 0 .. 15 /\ Upper(c) = DigitCodes[hex_map(c)]
  <2>1. PICK d \in 0 .. 15 : d = hex_map(c)
    BY <1>3, <1>5
  <2>2. Upper(c) = IF d < 10 THEN 48 + d ELSE 65 + d - 10
    BY <1>2, <1>5, <2>1 DEF Upper
  <2> QED BY <1>1, <2>1, <2>2
<1>6. IsDigit(c) <=> \E d \in 0 .. 15 : Upper(c) = DigitCodes[d]
  BY DEF IsDigit
<1>7. hex_map(c) # -1 <=> IsDigit(c)
  <2>1. ASSUME NEW d \in 0 .. 15, hex_map(c) = d PROVE hex_map(c) # -1
    BY <2>1
  <2> QED BY <1>4, <1>5, <1>6, <2>1
<1>8. ASSUME IsDigit(c) PROVE hex_map(c) = Digit(c)
  <2>1. \E d \in 0 .. 15 : Upper(c) = DigitCodes[d]
    BY <1>6, <1>8
  <2>2. Digit(c) \in 0 .. 15 /\ Upper(c) = DigitCodes[Digit(c)]
    BY <2>1 DEF Digit
  <2> QED BY <1>4, <2>2
<1> QED BY <1>3, <1>7, <1>8

(* A digit added to a remainder, and the remainder of a remainder when one *)
(* divisor divides the other.                                              *)
LEMMA ShiftedRemainder ==
  ASSUME NEW m \in Nat \ {0}, NEW v \in Nat, NEW d \in Nat
  PROVE  (d + (v % m) * 16) % m = (v * 16 + d) % m
<1>1. PICK q \in Nat, r \in 0 .. m - 1 : q * m + r = v /\ r = v % m
  BY Division
<1>2. PICK x \in Nat : x = d + r * 16
  OBVIOUS
<1>3. PICK a \in Nat, b \in 0 .. m - 1 : a * m + b = x /\ b = x % m
  BY Division
<1>4. PICK y \in Nat : y = v * 16 + d
  OBVIOUS
<1>5. y = (q * 16 + a) * m + b
  <2>1. (q * 16 + a) * m = (q * m) * 16 + a * m
    OBVIOUS
  <2>2. PICK s \in Int, t \in Int : s = q * m /\ t = a * m
    OBVIOUS
  <2>3. y = s * 16 + t + b
    <3>1. s + r = v /\ t + b = x
      BY <1>1, <1>3, <2>2
    <3>2. s * 16 + r * 16 + d = y
      BY <1>4, <3>1
    <3> QED BY <1>2, <3>1, <3>2
  <2> QED BY <2>1, <2>2, <2>3
<1>6. y % m = b
  <2>1. PICK k \in Int : k = q * 16 + a
    OBVIOUS
  <2>2. y = k * m + b
    BY <1>5, <2>1
  <2> QED BY <2>2, QuotientAndRemainder
<1> QED BY <1>1, <1>2, <1>3, <1>4, <1>6

Divides(m, w) == \E k \in Nat \ {0} : w = k * m

LEMMA RemainderOfRemainder ==
  ASSUME NEW m \in Nat \ {0}, NEW w \in Nat, Divides(m, w), NEW v \in Nat
  PROVE  (v % w) % m = v % m
<1> PICK k \in Nat \ {0} : w = k * m
  BY DEF Divides
<1>1. w \in Nat \ {0}
  <2>1. k * m \in Nat /\ k * m >= 1 * m
    OBVIOUS
  <2> QED BY <2>1
<1>2. PICK q \in Nat, r \in 0 .. w - 1 : q * w + r = v /\ r = v % w
  BY <1>1, Division
<1>3. PICK a \in Nat, b \in 0 .. m - 1 : a * m + b = r /\ b = r % m
  <2>1. r \in Nat
    BY <1>1
  <2> QED BY <2>1, Division
<1>4. PICK p \in Int : p = q * k + a
  OBVIOUS
<1>5. v = p * m + b
  <2>1. (q * k + a) * m = q * (k * m) + a * m
    OBVIOUS
  <2>2. PICK s \in Int, t \in Int : s = q * w /\ t = a * m
    BY <1>1
  <2>3. v = s + t + b
    BY <1>2, <1>3, <2>2
  <2> QED BY <1>4, <2>1, <2>2, <2>3
<1>6. v % m = b
  BY <1>5, QuotientAndRemainder
<1> QED BY <1>2, <1>3, <1>6

(* The numbers the prefixes of a text stand for; a character that is no    *)
(* digit counts for nothing.                                               *)
Worth(c) == IF IsDigit(c) THEN Digit(c) ELSE 0

PrefixValues(h, str, L) ==
  /\ h \in [0 .. L -> Nat] /\ h[0] = 0
  /\ \A n \in 1 .. L : h[n] = h[n - 1] * 16 + Worth(str[n])

LEMMA WorthType ==
  ASSUME NEW c
  PROVE  Worth(c) \in 0 .. 15
<1>1. IsDigit(c) => \E d \in 0 .. 15 : Upper(c) = DigitCodes[d]
  BY DEF IsDigit
<1>2. IsDigit(c) => Digit(c) \in 0 .. 15
  BY <1>1 DEF Digit
<1> QED BY <1>2 DEF Worth

LEMMA PrefixValuesExist ==
  ASSUME NEW str, NEW L \in Nat
  PROVE  \E h : PrefixValues(h, str, L)
<1> DEFINE step == [x \in Nat \X (1 .. L) |-> x[1] * 16 + Worth(str[x[2]])]
<1>1. ASSUME NEW v \in Nat, NEW n \in 1 .. L
      PROVE  <<v, n>> \in Nat \X (1 .. L) /\ step[<<v, n>>] = v * 16 + Worth(str[n])
  <2>1. <<v, n>> \in Nat \X (1 .. L) /\ <<v, n>>[1] = v /\ <<v, n>>[2] = n
    OBVIOUS
  <2> QED BY <2>1
<1>2. step \in [Nat \X (1 .. L) -> Nat]
  <2> SUFFICES ASSUME NEW x \in Nat \X (1 .. L) PROVE x[1] * 16 + Worth(str[x[2]]) \in Nat
    OBVIOUS
  <2>1. x[1] \in Nat /\ Worth(str[x[2]]) \in Nat
    <3>1. Worth(str[x[2]]) \in 0 .. 15
      BY WorthType
    <3>2. \A d \in 0 .. 15 : d \in Nat
      OBVIOUS
    <3> QED BY <3>1, <3>2
  <2> QED BY <2>1
<1> HIDE DEF step
<1>3. PICK h \in [0 .. L -> Nat] : h[0] = 0 /\ \A n \in 1 .. L : h[n] = step[<<h[n - 1], n>>]
  <2>1. PICK zero \in Nat : zero = 0
    OBVIOUS
  <2>2. \E h : Recursion(h, Nat, L, zero, step)
    BY <1>2, RecursionExists
  <2> QED BY <2>1, <2>2 DEF Recursion
<1>4. ASSUME NEW n \in 1 .. L PROVE h[n] = h[n - 1] * 16 + Worth(str[n])
  <2>1. n - 1 \in 0 .. L
    OBVIOUS
  <2>2. h[n - 1] \in Nat
    BY <2>1
  <2> QED BY <1>1, <1>3, <2>2
<1> QED BY <1>3, <1>4 DEF PrefixValues

(* The value of a text of digits, digit by digit from the left, is the one *)
(* that counts each digit for its place.                                   *)
LEMMA ValueOfDigits ==
  ASSUME NEW str, NEW L \in 0 .. MaxLength, Len(str) = L, \A i \in 1 .. L : IsDigit(str[i]),
         NEW h, PrefixValues(h, str, L)
  PROVE  Value(str) = h[L]
<1> DEFINE Place(n) == Worth(str[n]) * 16 ^ (L - n)
           Rec(f) == f = [n \in 0 .. L |-> IF n = 0 THEN 0 ELSE f[n - 1] + Digit(str[n]) * 16 ^ (L - n)]
           step == [x \in Nat \X (1 .. L) |-> x[1] + Place(x[2])]
<1>1. L \in Nat
  BY HexAssumption
<1>2. ASSUME NEW n \in 0 .. L PROVE 16 ^ (L - n) \in Nat
  <2>1. L - n \in 0 .. MaxLength
    BY <1>1, HexAssumption
  <2> QED BY <2>1, HexPowers
<1>3. ASSUME NEW n \in 1 .. L PROVE Place(n) \in Nat /\ Place(n) = Digit(str[n]) * 16 ^ (L - n)
  <2>1. Worth(str[n]) \in Nat
    <3>1. Worth(str[n]) \in 0 .. 15
      BY WorthType
    <3> QED BY <3>1
  <2>2. n \in 0 .. L
    BY <1>1
  <2>3. PICK p \in Nat : p = 16 ^ (L - n)
    BY <1>2, <2>2
  <2>4. PICK d \in Nat : d = Worth(str[n])
    BY <2>1
  <2>5. Place(n) = d * p
    BY <2>3, <2>4
  <2>6. Worth(str[n]) = Digit(str[n])
    BY DEF Worth
  <2> QED BY <2>5, <2>6
<1>4. Value(str) = (CHOOSE f : Rec(f))[L]
  BY DEF Value
<1> HIDE DEF Place
<1>5. \E f : Rec(f)
  <2>1. step \in [Nat \X (1 .. L) -> Nat]
    <3> SUFFICES ASSUME NEW x \in Nat \X (1 .. L) PROVE x[1] + Place(x[2]) \in Nat
      OBVIOUS
    <3>1. x[1] \in Nat /\ x[2] \in 1 .. L
      OBVIOUS
    <3>2. Place(x[2]) \in Nat
      BY <1>3, <3>1
    <3> QED BY <3>1, <3>2
  <2>2. \A v \in Nat, n \in 1 .. L : step[<<v, n>>] = v + Place(n)
    <3> SUFFICES ASSUME NEW v \in Nat, NEW n \in 1 .. L PROVE step[<<v, n>>] = v + Place(n)
      OBVIOUS
    <3>1. <<v, n>> \in Nat \X (1 .. L) /\ <<v, n>>[1] = v /\ <<v, n>>[2] = n
      OBVIOUS
    <3> QED BY <3>1
  <2> HIDE DEF step
  <2>3. PICK f \in [0 .. L -> Nat] : f[0] = 0 /\ \A n \in 1 .. L : f[n] = step[<<f[n - 1], n>>]
    <3>1. PICK zero \in Nat : zero = 0
      OBVIOUS
    <3>2. \E f : Recursion(f, Nat, L, zero, step)
      BY <1>1, <2>1, RecursionExists
    <3> QED BY <3>1, <3>2 DEF Recursion
  <2>4. ASSUME NEW n \in 0 .. L
        PROVE  f[n] = IF n = 0 THEN 0 ELSE f[n - 1] + Digit(str[n]) * 16 ^ (L - n)
    <3>1. CASE n = 0
      BY <2>3, <3>1
    <3>2. CASE n # 0
      <4>1. n \in 1 .. L /\ n - 1 \in 0 .. L
        BY <1>1, <3>2
      <4>2. f[n - 1] \in Nat
        BY <4>1
      <4>3. f[n] = f[n - 1] + Place(n)
        BY <2>2, <2>3, <4>1, <4>2
      <4> QED BY <1>3, <3>2, <4>1, <4>3
    <3> QED BY <3>1, <3>2
  <2> DEFINE g == [n \in 0 .. L |-> IF n = 0 THEN 0 ELSE f[n - 1] + Digit(str[n]) * 16 ^ (L - n)]
  <2>5. \A n \in 0 .. L : f[n] = g[n]
    BY <2>4
  <2>6. f = [n \in 0 .. L |-> f[n]] /\ g = [n \in 0 .. L |-> g[n]]
    OBVIOUS
  <2> HIDE DEF g
  <2>7. f = g
    BY <2>5, <2>6
  <2> QED BY <2>7 DEF g
<1> HIDE DEF step
<1>6. ASSUME NEW f, Rec(f) PROVE f[L] = h[L]
  <2>1. ASSUME NEW n \in 0 .. L
        PROVE  f[n] = IF n = 0 THEN 0 ELSE f[n - 1] + Digit(str[n]) * 16 ^ (L - n)
    BY <1>6
  <2> HIDE DEF Rec
  <2> DEFINE Bad == {n \in 0 .. L : f[n] # h[n] * 16 ^ (L - n)}
  <2>2. Bad = {}
    <3> SUFFICES ASSUME Bad # {} PROVE FALSE
      OBVIOUS
    <3>1. Bad \subseteq Nat
      BY <1>1
    <3>2. PICK n \in Bad : \A m \in Bad : n <= m
      BY <3>1, SmallestNumber
    <3>3. n \in 0 .. L /\ f[n] # h[n] * 16 ^ (L - n) /\ n \in Nat
      BY <3>1, <3>2
    <3>4. PICK p \in Nat : p = 16 ^ (L - n)
      BY <1>2, <3>3
    <3>5. n # 0
      <4> SUFFICES ASSUME n = 0 PROVE FALSE
        OBVIOUS
      <4>1. f[n] = 0 /\ h[n] = 0
        BY <2>1, <3>3 DEF PrefixValues
      <4>2. h[n] * p = 0
        BY <4>1
      <4> QED BY <3>3, <3>4, <4>1, <4>2
    <3>6. n \in 1 .. L /\ n - 1 \in 0 .. L /\ ~(n <= n - 1) /\ L - (n - 1) = (L - n) + 1 /\ L - n \in 0 .. MaxLength
      BY <1>1, <3>3, <3>5, HexAssumption
    <3>7. f[n - 1] = h[n - 1] * 16 ^ (L - (n - 1))
      BY <3>2, <3>6
    <3>8. 16 ^ (L - (n - 1)) = 16 * p
      BY <3>4, <3>6, HexPowers
    <3>9. PICK d \in Nat : d = Worth(str[n]) /\ d = Digit(str[n])
      <4>1. Worth(str[n]) \in 0 .. 15 /\ \A d \in 0 .. 15 : d \in Nat
        BY WorthType
      <4>2. Worth(str[n]) \in Nat
        BY <4>1
      <4> QED BY <3>6, <4>2 DEF Worth
    <3>10. PICK v \in Nat : v = h[n - 1]
      BY <3>6 DEF PrefixValues
    <3>11. h[n] = v * 16 + d
      BY <3>6, <3>9, <3>10 DEF PrefixValues
    <3>12. f[n] = v * (16 * p) + d * p
      BY <2>1, <3>3, <3>4, <3>5, <3>7, <3>8, <3>9, <3>10
    <3>13. v * (16 * p) + d * p = (v * 16 + d) * p
      OBVIOUS
    <3> QED BY <3>3, <3>4, <3>11, <3>12, <3>13
  <2>3. L \in 0 .. L /\ L - L = 0
    BY <1>1
  <2>4. f[L] = h[L] * 16 ^ (L - L)
    BY <2>2, <2>3
  <2>5. h[L] \in Nat
    BY <2>3 DEF PrefixValues
  <2> QED BY <2>3, <2>4, <2>5, HexPowers
<1> HIDE DEF Rec
<1>7. Rec(CHOOSE f : Rec(f))
  BY <1>5
<1> QED BY <1>4, <1>6, <1>7

(* What hex_str computes: the value of a text of digits, as far as the     *)
(* widest type has room for it, and an error for any other text.           *)
LEMMA ScanOfText ==
  ASSUME NEW str, NEW L \in Nat, Len(str) = L, \A i \in 1 .. L : str[i] \in Nat,
         NEW h, PrefixValues(h, str, L)
  PROVE  /\ hex_str(str).ok <=> \A i \in 1 .. L : IsDigit(str[i])
         /\ hex_str(str).ok => hex_str(str).val = h[L] % 2 ^ Width["uint64"]
<1> DEFINE S == [ok : BOOLEAN, val : Nat]
           start == [ok |-> TRUE, val |-> 0]
           tmp(n) == hex_map(str[n])
           Read(acc, n) == IF acc.ok /\ tmp(n) # -1
                           THEN [acc EXCEPT !.val = (tmp(n) + acc.val * 16) % 2 ^ Width["uint64"]]
                           ELSE [acc EXCEPT !.ok = FALSE]
           Rec(f) == f = [n \in 0 .. L |-> IF n = 0 THEN start ELSE Read(f[n - 1], n)]
           step == [x \in S \X (1 .. L) |-> Read(x[1], x[2])]
<1>1. PICK m \in Nat \ {0} : m = 2 ^ Width["uint64"]
  <2>1. Width["uint64"] \in 0 .. Width["uint64"]
    BY HexAssumption
  <2> QED BY <2>1, HexPowers
<1>2. hex_str(str) = (CHOOSE f : Rec(f))[L]
  BY DEF hex_str
<1>3. ASSUME NEW n \in 1 .. L
      PROVE  /\ tmp(n) # -1 <=> IsDigit(str[n])
             /\ tmp(n) # -1 => tmp(n) \in Nat /\ tmp(n) = Worth(str[n])
  <2>1. /\ tmp(n) # -1 <=> IsDigit(str[n])
        /\ IsDigit(str[n]) => tmp(n) = Digit(str[n])
        /\ tmp(n) \in -1 .. 15
    BY TableOfDigits
  <2> HIDE DEF tmp
  <2>2. \A d \in -1 .. 15 : d = -1 \/ d \in Nat
    OBVIOUS
  <2>3. tmp(n) # -1 => tmp(n) \in Nat
    BY <2>1, <2>2
  <2> QED BY <2>1, <2>3 DEF Worth
<1> HIDE DEF tmp
<1>4. ASSUME NEW acc \in S, NEW n \in 1 .. L
      PROVE  /\ Read(acc, n) \in S
             /\ Read(acc, n).ok <=> acc.ok /\ IsDigit(str[n])
             /\ acc.ok /\ IsDigit(str[n]) => Read(acc, n).val = (tmp(n) + acc.val * 16) % m
  <2>1. CASE acc.ok /\ tmp(n) # -1
    <3>1. Read(acc, n) = [acc EXCEPT !.val = (tmp(n) + acc.val * 16) % m]
      BY <1>1, <2>1
    <3>2. (tmp(n) + acc.val * 16) % m \in Nat
      <4>1. acc.val \in Nat /\ tmp(n) \in Nat
        BY <1>3, <2>1
      <4>2. PICK x \in Nat : x = tmp(n) + acc.val * 16
        BY <4>1
      <4>3. x % m \in 0 .. m - 1
        BY Division
      <4> QED BY <4>2, <4>3
    <3> HIDE DEF Read
    <3>3. /\ Read(acc, n) \in S /\ Read(acc, n).ok = acc.ok
          /\ Read(acc, n).val = (tmp(n) + acc.val * 16) % m
      BY <3>1, <3>2
    <3> QED BY <1>3, <2>1, <3>3
  <2>2. CASE ~(acc.ok /\ tmp(n) # -1)
    <3>1. Read(acc, n) = [acc EXCEPT !.ok = FALSE]
      BY <2>2
    <3> HIDE DEF Read
    <3>2. Read(acc, n) \in S /\ ~Read(acc, n).ok
      BY <3>1
    <3>3. ~(acc.ok /\ IsDigit(str[n]))
      BY <1>3, <2>2
    <3> QED BY <3>2, <3>3
  <2> QED BY <2>1, <2>2
<1>5. start \in S
  OBVIOUS
<1> HIDE DEF Read
<1>6. \E f : Rec(f)
  <2>1. step \in [S \X (1 .. L) -> S]
    <3> SUFFICES ASSUME NEW x \in S \X (1 .. L) PROVE Read(x[1], x[2]) \in S
      OBVIOUS
    <3>1. x[1] \in S /\ x[2] \in 1 .. L
      OBVIOUS
    <3> HIDE DEF S
    <3> QED BY <1>4, <3>1
  <2> HIDE DEF S, start
  <2>2. \A v \in S, n \in 1 .. L : step[<<v, n>>] = Read(v, n)
    <3> SUFFICES ASSUME NEW v \in S, NEW n \in 1 .. L PROVE step[<<v, n>>] = Read(v, n)
      OBVIOUS
    <3>1. <<v, n>> \in S \X (1 .. L) /\ <<v, n>>[1] = v /\ <<v, n>>[2] = n
      OBVIOUS
    <3> QED BY <3>1
  <2> HIDE DEF step
  <2>3. PICK f \in [0 .. L -> S] : f[0] = start /\ \A n \in 1 .. L : f[n] = step[<<f[n - 1], n>>]
    <3>1. \E f : Recursion(f, S, L, start, step)
      BY <1>5, <2>1, RecursionExists
    <3> QED BY <3>1 DEF Recursion
  <2>4. ASSUME NEW n \in 0 .. L PROVE f[n] = IF n = 0 THEN start ELSE Read(f[n - 1], n)
    <3>1. CASE n = 0
      BY <2>3, <3>1
    <3>2. CASE n # 0
      <4>1. n \in 1 .. L /\ n - 1 \in 0 .. L
        BY <3>2
      <4>2. f[n - 1] \in S
        BY <4>1
      <4> QED BY <2>2, <2>3, <3>2, <4>1, <4>2
    <3> QED BY <3>1, <3>2
  <2> DEFINE g == [n \in 0 .. L |-> IF n = 0 THEN start ELSE Read(f[n - 1], n)]
  <2>5. \A n \in 0 .. L : f[n] = g[n]
    BY <2>4
  <2>6. f = [n \in 0 .. L |-> f[n]] /\ g = [n \in 0 .. L |-> g[n]]
    OBVIOUS
  <2> HIDE DEF g
  <2>7. f = g
    BY <2>5, <2>6
  <2> QED BY <2>7 DEF g
<1> HIDE DEF step
<1>7. ASSUME NEW f, Rec(f)
      PROVE  /\ f[L].ok <=> \A i \in 1 .. L : IsDigit(str[i])
             /\ f[L].ok => f[L].val = h[L] % m
  <2>1. ASSUME NEW n \in 0 .. L PROVE f[n] = IF n = 0 THEN start ELSE Read(f[n - 1], n)
    BY <1>7
  <2> HIDE DEF Rec
  <2> DEFINE Right(n) == /\ f[n] \in S
                         /\ f[n].ok <=> \A i \in 1 .. n : IsDigit(str[i])
                         /\ f[n].ok => f[n].val = h[n] % m
             Bad == {n \in 0 .. L : ~Right(n)}
  <2>2. Right(0)
    <3>1. f[0] = start
      BY <2>1
    <3>2. 1 .. 0 = {} /\ h[0] = 0
      BY DEF PrefixValues
    <3>3. f[0] \in S /\ f[0].ok /\ f[0].val = 0
      BY <3>1
    <3>4. 0 % m = 0
      <4>1. PICK v \in Nat : v = 0
        OBVIOUS
      <4>2. v < m
        BY <4>1
      <4>3. v % m = v
        BY <4>2, SmallRemainder
      <4> QED BY <4>1, <4>3
    <3> QED BY <3>2, <3>3, <3>4
  <2>3. ASSUME NEW n \in 1 .. L, Right(n - 1) PROVE Right(n)
    <3>1. n - 1 \in 0 .. L /\ n \in 0 .. L /\ n # 0
      OBVIOUS
    <3>2. f[n] = Read(f[n - 1], n) /\ f[n - 1] \in S
      BY <2>1, <2>3, <3>1
    <3>3. /\ f[n] \in S
          /\ f[n].ok <=> f[n - 1].ok /\ IsDigit(str[n])
          /\ f[n - 1].ok /\ IsDigit(str[n]) => f[n].val = (tmp(n) + f[n - 1].val * 16) % m
      BY <1>4, <3>2
    <3>4. (\A i \in 1 .. n : IsDigit(str[i])) <=> (\A i \in 1 .. n - 1 : IsDigit(str[i])) /\ IsDigit(str[n])
      <4>1. \A i \in 1 .. n : i \in 1 .. n - 1 \/ i = n
        OBVIOUS
      <4>2. n \in 1 .. n /\ \A i \in 1 .. n - 1 : i \in 1 .. n
        OBVIOUS
      <4> QED BY <4>1, <4>2
    <3>5. ASSUME f[n].ok PROVE f[n].val = h[n] % m
      <4>1. f[n - 1].ok /\ IsDigit(str[n])
        BY <3>3, <3>5
      <4>2. f[n - 1].val = h[n - 1] % m
        BY <2>3, <4>1
      <4>3. PICK d \in Nat, v \in Nat : d = tmp(n) /\ d = Worth(str[n]) /\ v = h[n - 1]
        BY <1>3, <3>1, <4>1 DEF PrefixValues
      <4>4. f[n].val = (d + (v % m) * 16) % m
        BY <3>3, <4>1, <4>2, <4>3
      <4>5. h[n] = v * 16 + d
        BY <4>3 DEF PrefixValues
      <4>6. (d + (v % m) * 16) % m = (v * 16 + d) % m
        BY ShiftedRemainder
      <4> QED BY <4>4, <4>5, <4>6
    <3>6. f[n].ok <=> \A i \in 1 .. n : IsDigit(str[i])
      BY <2>3, <3>3, <3>4
    <3> HIDE DEF S
    <3> QED BY <3>3, <3>5, <3>6
  <2> HIDE DEF Right
  <2>4. Bad = {}
    <3> SUFFICES ASSUME Bad # {} PROVE FALSE
      OBVIOUS
    <3>1. Bad \subseteq Nat
      OBVIOUS
    <3>2. PICK n \in Bad : \A k \in Bad : n <= k
      BY <3>1, SmallestNumber
    <3>3. n \in 0 .. L /\ ~Right(n) /\ n # 0
      BY <2>2, <3>2
    <3>4. n \in 1 .. L /\ n - 1 \in 0 .. L /\ ~(n <= n - 1)
      BY <3>3
    <3>5. Right(n - 1)
      BY <3>2, <3>4
    <3> QED BY <2>3, <3>3, <3>4, <3>5
  <2>5. L \in 0 .. L
    OBVIOUS
  <2>6. Right(L)
    BY <2>4, <2>5
  <2> QED BY <2>6 DEF Right
<1> HIDE DEF Rec
<1>8. Rec(CHOOSE f : Rec(f))
  BY <1>6
<1> QED BY <1>1, <1>2, <1>7, <1>8

(* What is known of a text when all its characters are below 128. *)
LEMMA ConversionOfText ==
  ASSUME NEW str, NEW L \in 0 .. MaxLength, Len(str) = L, \A i \in 1 .. L : str[i] \in Nat
  PROVE  /\ hex_str(str).ok <=> \A i \in 1 .. L : IsDigit(str[i])
         /\ hex_str(str).ok => /\ Value(str) \in Nat
                               /\ hex_str(str).val = Value(str) % 2 ^ Width["uint64"]
                               /\ L = 2 => Value(str) < 256
<1>1. L \in Nat
  BY HexAssumption
<1>2. PICK h : PrefixValues(h, str, L)
  BY <1>1, PrefixValuesExist
<1>3. /\ hex_str(str).ok <=> \A i \in 1 .. L : IsDigit(str[i])
      /\ hex_str(str).ok => hex_str(str).val = h[L] % 2 ^ Width["uint64"]
  BY <1>1, <1>2, ScanOfText
<1>4. (\A i \in 1 .. L : IsDigit(str[i])) => Value(str) = h[L]
  BY <1>2, ValueOfDigits
<1>5. h[L] \in Nat
  <2>1. L \in 0 .. L
    BY <1>1
  <2> QED BY <1>2, <2>1 DEF PrefixValues
<1>6. L = 2 => h[L] < 256
  <2> SUFFICES ASSUME L = 2 PROVE h[2] < 256
    OBVIOUS
  <2>1. h[0] = 0 /\ h[1] = h[0] * 16 + Worth(str[1]) /\ h[2] = h[1] * 16 + Worth(str[2])
    <3>1. 1 \in 1 .. L /\ 2 \in 1 .. L /\ 1 - 1 = 0 /\ 2 - 1 = 1
      OBVIOUS
    <3> QED BY <1>2, <3>1 DEF PrefixValues
  <2>2. Worth(str[1]) \in 0 .. 15 /\ Worth(str[2]) \in 0 .. 15
    BY WorthType
  <2> QED BY <2>1, <2>2
<1> QED BY <1>3, <1>4, <1>5, <1>6

(* The narrower types keep the low bits: their range divides the widest    *)
(* one's.                                                                  *)
LEMMA WidthsDivide ==
  ASSUME NEW j \in 0 .. Width["uint64"], NEW k \in 0 .. Width["uint64"], j <= k
  PROVE  /\ 2 ^ j \in Nat \ {0}
         /\ \E m \in Nat \ {0} : 2 ^ k = m * 2 ^ j
<1> DEFINE Divided(n) == \E m \in Nat \ {0} : 2 ^ n = m * 2 ^ j
           Bad == {n \in j .. Width["uint64"] : ~Divided(n)}
<1>1. ASSUME Bad # {} PROVE FALSE
  <2>1. PICK n \in Bad : \A i \in Bad : n <= i
    <3>1. Bad \subseteq Nat
      BY HexAssumption
    <3> QED BY <1>1, <3>1, SmallestNumber
  <2>2. n \in Nat /\ n \in j .. Width["uint64"] /\ n \in 0 .. Width["uint64"] /\ ~Divided(n)
    BY <2>1, HexAssumption
  <2>3. Divided(j)
    <3>1. PICK p \in Nat : p = 2 ^ j
      BY HexPowers
    <3>2. p = 1 * p
      OBVIOUS
    <3> QED BY <3>1, <3>2
  <2>4. n - 1 \in j .. Width["uint64"] /\ n - 1 \in 0 .. Width["uint64"] /\ (n - 1) + 1 = n
    <3> HIDE DEF Divided, Bad
    <3>1. n # j
      BY <2>2, <2>3
    <3>2. n \in Nat /\ j \in Nat /\ Width["uint64"] \in Nat /\ j <= n /\ n <= Width["uint64"]
      BY <2>2, HexAssumption
    <3> QED BY <3>1, <3>2
  <2>5. Divided(n - 1)
    <3> HIDE DEF Divided
    <3> QED BY <2>1, <2>4
  <2>6. PICK m \in Nat \ {0} : 2 ^ (n - 1) = m * 2 ^ j
    BY <2>5
  <2>7. 2 ^ n = 2 * 2 ^ (n - 1)
    BY <2>4, HexPowers
  <2>8. PICK p \in Nat : p = 2 ^ j
    BY HexPowers
  <2>9. 2 * (m * p) = (2 * m) * p /\ 2 * m \in Nat \ {0}
    OBVIOUS
  <2> QED BY <2>2, <2>6, <2>7, <2>8, <2>9
<1>2. k \in j .. Width["uint64"]
  BY HexAssumption
<1>3. 2 ^ j \in Nat \ {0}
  BY HexPowers
<1> QED BY <1>1, <1>2, <1>3

LEMMA NarrowValue ==
  ASSUME NEW t \in DOMAIN Width, NEW v \in Nat
  PROVE  /\ (v % 2 ^ Width["uint64"]) % 2 ^ Width[t] = v % 2 ^ Width[t]
         /\ v < 256 => v % 2 ^ Width[t] = v
<1>1. /\ Width[t] \in 0 .. Width["uint64"] /\ Width["uint64"] \in 0 .. Width["uint64"]
      /\ Width[t] <= Width["uint64"] /\ 8 \in 0 .. Width["uint64"] /\ 8 <= Width[t]
  BY HexAssumption
<1>2. PICK m \in Nat \ {0}, k \in Nat \ {0} : m = 2 ^ Width[t] /\ 2 ^ Width["uint64"] = k * m
  BY <1>1, WidthsDivide
<1>3. (v % 2 ^ Width["uint64"]) % m = v % m
  <2>1. PICK widest \in Nat : widest = 2 ^ Width["uint64"] /\ widest = k * m
    BY <1>1, <1>2, HexPowers
  <2>2. Divides(m, widest)
    BY <2>1 DEF Divides
  <2>3. (v % widest) % m = v % m
    BY <2>2, RemainderOfRemainder
  <2> QED BY <2>1, <2>3
<1>4. 2 ^ 8 = 256
  <2>1. \A i \in 0 .. 7 : i \in 0 .. Width["uint64"]
    BY <1>1, HexAssumption
  <2>2. 2 ^ 0 = 1 /\ \A i \in 0 .. 7 : 2 ^ (i + 1) = 2 * 2 ^ i
    BY <2>1, HexPowers
  <2>3. 2 ^ 1 = 2
    <3>1. 0 \in 0 .. 7 /\ 0 + 1 = 1
      OBVIOUS
    <3>2. 2 ^ (0 + 1) = 2 * 2 ^ 0
      BY <2>2, <3>1
    <3> QED BY <2>2, <3>1, <3>2
  <2>4. 1 \in 0 .. 7 /\ 2 \in 0 .. 7 /\ 3 \in 0 .. 7 /\ 4 \in 0 .. 7 /\ 5 \in 0 .. 7 /\ 6 \in 0 .. 7 /\ 7 \in 0 .. 7
    OBVIOUS
  <2>5. /\ 2 ^ (1 + 1) = 2 * 2 ^ 1 /\ 2 ^ (2 + 1) = 2 * 2 ^ 2 /\ 2 ^ (3 + 1) = 2 * 2 ^ 3
        /\ 2 ^ (4 + 1) = 2 * 2 ^ 4 /\ 2 ^ (5 + 1) = 2 * 2 ^ 5 /\ 2 ^ (6 + 1) = 2 * 2 ^ 6
        /\ 2 ^ (7 + 1) = 2 * 2 ^ 7
    BY <2>2, <2>4
  <2>6. 1 + 1 = 2 /\ 2 + 1 = 3 /\ 3 + 1 = 4 /\ 4 + 1 = 5 /\ 5 + 1 = 6 /\ 6 + 1 = 7 /\ 7 + 1 = 8
    OBVIOUS
  <2>7. /\ 2 ^ 2 = 2 * 2 ^ 1 /\ 2 ^ 3 = 2 * 2 ^ 2 /\ 2 ^ 4 = 2 * 2 ^ 3 /\ 2 ^ 5 = 2 * 2 ^ 4
        /\ 2 ^ 6 = 2 * 2 ^ 5 /\ 2 ^ 7 = 2 * 2 ^ 6 /\ 2 ^ 8 = 2 * 2 ^ 7
    BY <2>5, <2>6
  <2> QED BY <2>3, <2>7
<1>5. 256 <= m
  <2>1. PICK q \in Nat \ {0}, b \in Nat \ {0} : m = q * b /\ b = 256
    <3>1. \E q \in Nat \ {0} : 2 ^ Width[t] = q * 2 ^ 8
      BY <1>1, WidthsDivide
    <3> QED BY <1>2, <1>4, <3>1
  <2>2. q * b >= 1 * b
    OBVIOUS
  <2> QED BY <2>1, <2>2
<1>6. v < 256 => v % m = v
  <2>1. v < 256 => v < m
    BY <1>5
  <2> QED BY <2>1, SmallRemainder
<1> QED BY <1>2, <1>3, <1>6

(* The pair of characters that the buffer overload converts to a byte.     *)
LEMMA PairsOfText ==
  ASSUME NEW s \in Seq(Codes), NEW k \in 1 .. Len(s) \div 2, \A i \in 1 .. Len(s) : s[i] >= 0
  PROVE  LET p == SubSeq(s, 2 * k - 1, 2 * k)
         IN  /\ Len(p) = 2 /\ p[1] = s[2 * k - 1] /\ p[2] = s[2 * k]
             /\ \A i \in 1 .. 2 : p[i] \in Nat
<1> DEFINE p == SubSeq(s, 2 * k - 1, 2 * k)
<1>1. Len(s) \in Nat /\ \A i \in 1 .. Len(s) : s[i] \in Codes
  BY LenProperties, ElementOfSeq
<1>2. PICK a \in 1 .. Len(s), b \in 1 .. Len(s) : a = 2 * k - 1 /\ b = 2 * k /\ b = a + 1
  <2>1. 2 * k <= Len(s)
    BY <1>1
  <2>2. 2 * k - 1 \in 1 .. Len(s) /\ 2 * k \in 1 .. Len(s)
    BY <1>1, <2>1
  <2> QED BY <2>2
<1>3. p = SubSeq(s, a, b)
  BY <1>2
<1>4. /\ Len(SubSeq(s, a, b)) = (IF a <= b THEN b - a + 1 ELSE 0)
      /\ \A i \in 1 .. b - a + 1 : SubSeq(s, a, b)[i] = s[a + i - 1]
  BY <1>1, <1>2, SubSeqProperties
<1>5. b - a + 1 = 2 /\ a <= b /\ 1 \in 1 .. 2 /\ 2 \in 1 .. 2 /\ a + 1 - 1 = a /\ a + 2 - 1 = b
  BY <1>2
<1>6. Len(p) = 2 /\ p[1] = s[a] /\ p[2] = s[b]
  BY <1>3, <1>4, <1>5
<1>7. s[a] \in Nat /\ s[b] \in Nat
  <2>1. s[a] \in Int /\ s[b] \in Int
    BY <1>1, HexAssumption
  <2> QED BY <1>2, <2>1
<1>8. \A i \in 1 .. 2 : i = 1 \/ i = 2
  OBVIOUS
<1> HIDE DEF p
<1>9. \A i \in 1 .. 2 : p[i] \in Nat
  BY <1>6, <1>7, <1>8
<1> QED BY <1>2, <1>6, <1>9 DEF p

(* A conversion is exact in the step that makes it, and the text, which    *)
(* decides what is exact, is one of Texts from beginning to end.           *)
HexIInv ==
  /\ text \in Texts
  /\ target \in DOMAIN Width \cup {"buffer"}
  /\ HexIsExact

LEMMA TextIsSequence ==
  ASSUME text \in Texts
  PROVE  text \in Seq(Codes) /\ Len(text) \in 0 .. MaxLength /\ DOMAIN text = 1 .. Len(text)
<1>1. PICK n \in 0 .. MaxLength : text \in [1 .. n -> Codes]
  BY DEF Texts
<1>2. n \in Nat
  BY HexAssumption
<1>3. text \in Seq(Codes) /\ Len(text) = n
  BY <1>1, <1>2, FunctionIsSeq
<1> QED BY <1>1, <1>3

LEMMA ToIntegerExact ==
  ASSUME HexIInv, ToInteger
  PROVE  HexIsExact'
<1> SUFFICES ASSUME \A i \in DOMAIN text : text[i] >= 0
             PROVE  IF \A i \in DOMAIN text : IsDigit(text[i])
                    THEN out'.err = "ok" /\ out'.val = <<Value(text) % 2 ^ Width[target]>>
                    ELSE out'.err = "invalid_param" /\ out'.val = <<>>
  <2>1. target # "buffer" /\ target' = target /\ text' = text /\ before' = before
    BY HexAssumption DEF ToInteger
  <2> QED BY <2>1 DEF HexIsExact
<1>1. /\ text \in Seq(Codes) /\ Len(text) \in 0 .. MaxLength /\ DOMAIN text = 1 .. Len(text)
      /\ target \in DOMAIN Width
  BY TextIsSequence DEF HexIInv, ToInteger
<1>2. \A i \in 1 .. Len(text) : text[i] \in Nat
  <2> SUFFICES ASSUME NEW i \in 1 .. Len(text) PROVE text[i] \in Nat
    OBVIOUS
  <2>1. text[i] \in Int /\ text[i] >= 0
    BY <1>1, ElementOfSeq, HexAssumption
  <2> QED BY <2>1
<1>3. /\ hex_str(text).ok <=> \A i \in 1 .. Len(text) : IsDigit(text[i])
      /\ hex_str(text).ok => /\ Value(text) \in Nat
                             /\ hex_str(text).val = Value(text) % 2 ^ Width["uint64"]
  BY <1>1, <1>2, ConversionOfText
<1>4. out' = IF hex_str(text).ok THEN [err |-> "ok", val |-> <<hex_str(text).val % 2 ^ Width[target]>>]
             ELSE [err |-> "invalid_param", val |-> <<>>]
  BY DEF ToInteger
<1>5. CASE hex_str(text).ok
  <2>1. hex_str(text).val % 2 ^ Width[target] = Value(text) % 2 ^ Width[target]
    BY <1>1, <1>3, <1>5, NarrowValue
  <2>2. out'.err = "ok" /\ out'.val = <<hex_str(text).val % 2 ^ Width[target]>>
    BY <1>4, <1>5
  <2> QED BY <1>1, <1>3, <1>5, <2>1, <2>2
<1>6. CASE ~hex_str(text).ok
  <2>1. out'.err = "invalid_param" /\ out'.val = <<>>
    BY <1>4, <1>6
  <2> QED BY <1>1, <1>3, <1>6, <2>1
<1> QED BY <1>5, <1>6

LEMMA ToBufferExact ==
  ASSUME HexIInv, ToBuffer
  PROVE  HexIsExact'
<1> SUFFICES ASSUME \A i \in DOMAIN text : text[i] >= 0,
                    NEW k \in DOMAIN out'.val, IsDigit(text[2 * k - 1]), IsDigit(text[2 * k])
             PROVE  out'.val[k] = Value(SubSeq(text, 2 * k - 1, 2 * k))
  <2>1. target = "buffer" /\ target' = target /\ text' = text
    BY DEF ToBuffer
  <2> QED BY <2>1 DEF HexIsExact
<1> DEFINE n == Len(text) \div 2
           pair(i) == hex_str(SubSeq(text, 2 * i - 1, 2 * i))
<1>1. text \in Seq(Codes) /\ Len(text) \in 0 .. MaxLength /\ DOMAIN text = 1 .. Len(text)
  BY TextIsSequence DEF HexIInv
<1>2. ~(n > room)
  <2> SUFFICES ASSUME n > room PROVE FALSE
    OBVIOUS
  <2>1. out' = [err |-> "no_buffer", val |-> <<>>]
    BY DEF ToBuffer
  <2> QED BY <2>1
<1>3. PICK junk \in [1 .. n -> Junk] :
        out' = [err |-> IF Len(text) % 2 = 0 THEN "ok" ELSE "invalid_param",
                val |-> [i \in 1 .. n |-> IF pair(i).ok THEN pair(i).val % 2 ^ Width["uint8"] ELSE junk[i]]]
  BY <1>2 DEF ToBuffer
<1> HIDE DEF pair
<1>4. k \in 1 .. n /\ out'.val[k] = IF pair(k).ok THEN pair(k).val % 2 ^ Width["uint8"] ELSE junk[k]
  BY <1>3
<1>5. PICK p : p = SubSeq(text, 2 * k - 1, 2 * k)
  OBVIOUS
<1>6. Len(p) = 2 /\ p[1] = text[2 * k - 1] /\ p[2] = text[2 * k] /\ \A i \in 1 .. 2 : p[i] \in Nat
  BY <1>1, <1>4, <1>5, PairsOfText
<1>7. 2 \in 0 .. MaxLength
  BY <1>1, <1>4, HexAssumption
<1>8. /\ hex_str(p).ok <=> \A i \in 1 .. 2 : IsDigit(p[i])
      /\ hex_str(p).ok => /\ Value(p) \in Nat
                          /\ hex_str(p).val = Value(p) % 2 ^ Width["uint64"]
                          /\ Value(p) < 256
  BY <1>6, <1>7, ConversionOfText
<1>9. hex_str(p).ok
  <2>1. \A i \in 1 .. 2 : i = 1 \/ i = 2
    OBVIOUS
  <2> QED BY <1>6, <1>8, <2>1
<1>10. hex_str(p).val % 2 ^ Width["uint8"] = Value(p)
  BY <1>8, <1>9, NarrowValue, HexAssumption
<1> QED BY <1>4, <1>5, <1>9, <1>10 DEF pair

(* hex::hex_str: for every width of the types and every length of text, a  *)
(* conversion yields what the notation gives the text, as far as its type  *)
(* has room, and every pair of digits its byte, whatever the other pairs.  *)
THEOREM HexConvertsExactly == HexSpec => []HexIsExact
<1>1. HexInit => HexIInv
  BY DEF HexInit, HexIInv, HexIsExact
<1>2. HexIInv /\ [Convert]_hex_vars => HexIInv'
  <2> SUFFICES ASSUME HexIInv, [Convert]_hex_vars PROVE HexIInv'
    OBVIOUS
  <2>1. text' = text /\ target' = target
    BY DEF Convert, ToInteger, ToBuffer, hex_vars
  <2>2. ASSUME ToInteger PROVE HexIsExact'
    BY <2>2, ToIntegerExact
  <2>3. ASSUME ToBuffer PROVE HexIsExact'
    BY <2>3, ToBufferExact
  <2>4. ASSUME UNCHANGED hex_vars PROVE HexIsExact'
    BY <2>4 DEF HexIInv, HexIsExact, hex_vars
  <2>5. HexIsExact'
    BY <2>2, <2>3, <2>4 DEF Convert
  <2> QED BY <2>1, <2>5 DEF HexIInv, Texts
<1>3. HexIInv => HexIsExact
  BY DEF HexIInv
<1> QED BY <1>1, <1>2, <1>3, PTL DEF HexSpec
=============================================================================
