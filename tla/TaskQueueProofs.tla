--------------------------- MODULE TaskQueueProofs ---------------------------
(***************************************************************************)
(* For any capacity, any depth of the store buffers and any storage: the   *)
(* queue's indices never cross and front() is never called on an empty     *)
(* queue; a wake-up is lost only to the store buffers; and the worker runs *)
(* nothing but the task whose turn it is, or one that shares its place.    *)
(***************************************************************************)
EXTENDS TaskQueue, FiniteSetTheorems, WellFoundedInduction, SequenceTheorems, TLAPS

(* The geometry the masking of at() relies on: a capacity that divides the *)
(* range of the indices and is below it, as powers of two are.             *)
QueueGeometry ==
  /\ IndexRange \in Nat /\ Capacity \in Nat /\ 0 < Capacity /\ Capacity < IndexRange
  /\ IndexRange % Capacity = 0

(* A size_t can count the double of the capacity asked for. *)
CapacityFits == IndexBits > 0 /\ 2 * RequestedCapacity <= IndexRange

-----------------------------------------------------------------------------
(* The inductive invariant.  Every index is measured from cr, the worker's *)
(* own count.                                                              *)

Ahead(x) == Distance(cr, x)

Behind(x) == Distance(x, cr)

(* By how much ridx_ in memory lags behind. *)
Held == Behind(ridx)

(* The indices never cross, by anybody's count. *)
IndexOrder ==
  /\ Ahead(widx) <= Ahead(pw)
  /\ Held + Ahead(pw) <= Capacity
  /\ wpc \in {"front", "run", "pop"} => Ahead(widx) > 0

Retires(s) == s.to = Ridx

(* What the worker's processor holds back are increments after ridx, the   *)
(* last to cr.                                                             *)
WorkerPending ==
  /\ \A i \in 1 .. Len(cbuf) : Retires(cbuf[i]) =>
       cbuf[i].val \in Index /\ Behind(cbuf[i].val) < Held
  /\ \A i, j \in 1 .. Len(cbuf) : i < j /\ Retires(cbuf[i]) /\ Retires(cbuf[j]) =>
       Behind(cbuf[j].val) < Behind(cbuf[i].val)
  /\ ridx = cr \/ \E i \in 1 .. Len(cbuf) : Retires(cbuf[i]) /\ cbuf[i].val = cr

Publishes(s) == s.to = Widx

(* What the pusher's holds back are increments after widx, the last to pw. *)
PusherPending ==
  /\ \A i \in 1 .. Len(pbuf) : Publishes(pbuf[i]) =>
       Ahead(widx) < Ahead(pbuf[i].val) /\ Ahead(pbuf[i].val) <= Ahead(pw)
  /\ \A i, j \in 1 .. Len(pbuf) : i < j /\ Publishes(pbuf[i]) /\ Publishes(pbuf[j]) =>
       Ahead(pbuf[i].val) < Ahead(pbuf[j].val)
  /\ widx = pw \/ \E i \in 1 .. Len(pbuf) : Publishes(pbuf[i]) /\ pbuf[i].val = pw

(* A push that has counted, or found the queue empty, has woken the worker *)
(* or will, unless it counted too early.                                   *)
WakeupSound ==
  ~missed =>
    /\ ppc = "idle" => widx = pw
    /\ ppc = "pushed" => Ahead(pw) - Ahead(widx) <= 1
    /\ wpc = "wait" /\ sema = 0 => /\ ppc = "idle" => cr = pw
                                   /\ ppc = "pushed" => Ahead(pw) <= 1

QueueIInv == TypeOK /\ IndexOrder /\ WorkerPending /\ PusherPending /\ WakeupSound

-----------------------------------------------------------------------------
(* Indices. *)

LEMMA WrapType ==
  ASSUME QueueGeometry, NEW a \in Index, NEW n \in 0 .. IndexRange - 1
  PROVE  Wrap(a + n) \in Index
BY DEF QueueGeometry, Index, Wrap

LEMMA DistanceType ==
  ASSUME QueueGeometry, NEW a \in Index, NEW b \in Index
  PROVE  Distance(a, b) \in Nat /\ Distance(a, b) < IndexRange /\ (Distance(a, b) = 0 <=> a = b)
BY DEF QueueGeometry, Index, Distance

(* Moving an index forward moves it away from any index behind it, and the *)
(* one that is left behind comes closer to what is ahead of it.            *)
LEMMA DistanceForward ==
  ASSUME QueueGeometry, NEW a \in Index, NEW b \in Index, NEW n \in Nat,
         Distance(a, b) + n < IndexRange
  PROVE  Distance(a, Wrap(b + n)) = Distance(a, b) + n
BY DEF QueueGeometry, Index, Distance, Wrap

LEMMA DistanceCloser ==
  ASSUME QueueGeometry, NEW a \in Index, NEW x \in Index
  PROVE  Distance(Wrap(a + 1), x)
           = IF Distance(a, x) > 0 THEN Distance(a, x) - 1 ELSE IndexRange - 1
BY DEF QueueGeometry, Index, Distance, Wrap

LEMMA DistanceThrough ==
  ASSUME QueueGeometry, NEW a \in Index, NEW b \in Index, NEW x \in Index,
         Distance(a, b) + Distance(b, x) < IndexRange
  PROVE  Distance(a, x) = Distance(a, b) + Distance(b, x)
BY DEF QueueGeometry, Index, Distance

LEMMA DistanceInjective ==
  ASSUME QueueGeometry, NEW a \in Index, NEW p \in Index, NEW q \in Index,
         Distance(a, p) = Distance(a, q)
  PROVE  p = q
BY DEF QueueGeometry, Index, Distance

LEMMA Division ==
  ASSUME NEW c \in Nat \ {0}, NEW n \in Nat
  PROVE  (n \div c) * c + (n % c) = n /\ n \div c \in Nat /\ n % c \in 0 .. c - 1
<1>1. (n \div c) * c + (n % c) = n
  OBVIOUS
<1>2. n \div c \in Nat
  OBVIOUS
<1>3. n % c \in 0 .. c - 1
  OBVIOUS
<1> QED BY <1>1, <1>2, <1>3

(* A multiple leaves no remainder. *)
LEMMA MultipleLeavesNothing ==
  ASSUME NEW c \in Nat \ {0}, NEW m \in Nat, NEW n, n = m * c
  PROVE  n % c = 0
<1>1. n \in Nat
  OBVIOUS
<1>2. PICK q \in Nat, r \in 0 .. c - 1 : q * c + r = n /\ r = n % c
  BY <1>1, Division
<1>3. PICK d \in Int : d = m - q
  OBVIOUS
<1>4. r = m * c - q * c
  BY <1>2
<1>5. m * c - q * c = (m - q) * c
  OBVIOUS
<1>6. r = d * c
  BY <1>3, <1>4, <1>5
<1>7. d = 0
  <2>1. CASE d >= 1
    <3>1. d * c >= 1 * c
      BY <2>1
    <3> QED BY <1>6, <3>1
  <2>2. CASE d <= -1
    <3>1. d * c <= (-1) * c
      BY <2>2
    <3> QED BY <1>6, <3>1
  <2> QED BY <2>1, <2>2
<1> QED BY <1>2, <1>6, <1>7

(* Induction: a set of sets of a finite set has a smallest member, and so  *)
(* has a set of numbers.                                                   *)
LEMMA SmallestSubset ==
  ASSUME NEW S, IsFiniteSet(S), NEW T, T \subseteq SUBSET S, T # {}
  PROVE  \E X \in T : \A Y \in T : ~(Y \subseteq X /\ Y # X)
<1>1. IsWellFoundedOn(StrictSubsetOrdering(S), SUBSET S)
  BY FS_StrictSubsetOrderingWellFounded, FS_FiniteSubsetsOfFinite
<1>2. \E X \in T : \A Y \in T : ~(<<Y, X>> \in StrictSubsetOrdering(S))
  BY <1>1, WFMin
<1> QED BY <1>2 DEF StrictSubsetOrdering

LEMMA SmallestNumber ==
  ASSUME NEW T, T \subseteq Nat, T # {}
  PROVE  \E n \in T : \A m \in T : n <= m
<1> PICK k \in T : TRUE
  OBVIOUS
<1> DEFINE W == {0 .. n : n \in {j \in T : j <= k}}
           I == 0 .. k
<1>1. IsFiniteSet(I)
  BY FS_Interval
<1>2. W \subseteq SUBSET I /\ W # {}
  OBVIOUS
<1>3. \A X \in W : \E n \in T : n <= k /\ X = 0 .. n
  OBVIOUS
<1>4. \A m \in T : m <= k => (0 .. m) \in W
  OBVIOUS
<1> HIDE DEF W, I
<1>5. PICK X \in W : \A Y \in W : ~(Y \subseteq X /\ Y # X)
  BY <1>1, <1>2, SmallestSubset
<1>6. PICK n \in T : n <= k /\ X = 0 .. n
  BY <1>3
<1>7. ASSUME NEW m \in T, m < n PROVE FALSE
  <2>1. (0 .. m) \in W
    BY <1>4, <1>6, <1>7
  <2>2. (0 .. m) \subseteq X /\ (0 .. m) # X
    BY <1>6, <1>7
  <2> QED BY <1>5, <2>1, <2>2
<1> QED BY <1>6, <1>7

(* A power of two divides every greater one. *)
LEMMA PowersDivide ==
  ASSUME NEW j \in 0 .. IndexBits, NEW k \in 0 .. IndexBits, j <= k
  PROVE  \E m \in Nat \ {0} : 2 ^ k = m * 2 ^ j
<1> DEFINE Divided(n) == \E m \in Nat \ {0} : 2 ^ n = m * 2 ^ j
           Bad == {n \in j .. IndexBits : ~Divided(n)}
<1>1. ASSUME Bad # {} PROVE FALSE
  <2>1. PICK n \in Bad : \A i \in Bad : n <= i
    <3>1. Bad \subseteq Nat
      BY IndexBitsAssumption
    <3> QED BY <1>1, <3>1, SmallestNumber
  <2>2. n \in Nat /\ n \in j .. IndexBits /\ n \in 0 .. IndexBits /\ ~Divided(n)
    BY <2>1, IndexBitsAssumption
  <2>3. Divided(j)
    <3>1. PICK p \in Nat : p = 2 ^ j
      BY PowersOfTwo
    <3>2. p = 1 * p
      OBVIOUS
    <3> QED BY <3>1, <3>2
  <2>4. n - 1 \in j .. IndexBits /\ n - 1 \in 0 .. IndexBits /\ (n - 1) + 1 = n
    <3> HIDE DEF Divided, Bad
    <3>1. n # j
      BY <2>2, <2>3
    <3>2. n \in Nat /\ j \in Nat /\ IndexBits \in Nat /\ j <= n /\ n <= IndexBits
      BY <2>2, IndexBitsAssumption
    <3> QED BY <3>1, <3>2
  <2>5. Divided(n - 1)
    <3> HIDE DEF Divided
    <3> QED BY <2>1, <2>4
  <2>6. PICK m \in Nat \ {0} : 2 ^ (n - 1) = m * 2 ^ j
    BY <2>5
  <2>7. 2 ^ n = 2 * 2 ^ (n - 1)
    BY <2>4, PowersOfTwo
  <2>8. PICK p \in Nat : p = 2 ^ j
    BY PowersOfTwo
  <2>9. 2 * (m * p) = (2 * m) * p /\ 2 * m \in Nat \ {0}
    OBVIOUS
  <2> QED BY <2>2, <2>6, <2>7, <2>8, <2>9
<1>2. k \in j .. IndexBits
  BY IndexBitsAssumption
<1> QED BY <1>1, <1>2

(* The geometry that at()'s masking relies on.  The capacity divides the   *)
(* range of the indices because next_pow2 returns a power of two, and is   *)
(* below it because half the range was enough.                             *)
LEMMA Geometry ==
  ASSUME CapacityFits
  PROVE  QueueGeometry
<1> DEFINE Powers == {2 ^ k : k \in 0 .. IndexBits}
           Enough == {c \in Powers : RequestedCapacity <= c}
           half == 2 ^ (IndexBits - 1)
<1>1. /\ IndexBits - 1 \in 0 .. IndexBits /\ (IndexBits - 1) + 1 = IndexBits
      /\ half \in Nat \ {0} /\ IndexRange = 2 * half /\ half \in Powers
  <2>1. IndexBits - 1 \in 0 .. IndexBits /\ (IndexBits - 1) + 1 = IndexBits
    BY IndexBitsAssumption DEF CapacityFits
  <2>2. half \in Nat \ {0} /\ 2 ^ ((IndexBits - 1) + 1) = 2 * half
    BY <2>1, PowersOfTwo
  <2> QED BY <2>1, <2>2 DEF IndexRange
<1>2. Powers \subseteq Nat \ {0}
  BY PowersOfTwo
<1>3. Capacity \in Powers /\ Capacity <= half
  <2>1. CASE RequestedCapacity = 0
    <3>1. 1 \in Powers
      <4>1. 0 \in 0 .. IndexBits
        BY IndexBitsAssumption
      <4> QED BY <4>1, PowersOfTwo
    <3>2. Capacity = 1
      BY <2>1 DEF Capacity, next_pow2
    <3> QED BY <1>1, <3>1, <3>2
  <2>2. CASE RequestedCapacity # 0
    <3> DEFINE Smallest(c) == RequestedCapacity <= c /\ \A d \in Powers : RequestedCapacity <= d => c <= d
    <3>1. half \in Enough /\ Enough \subseteq Nat
      BY <1>1, <1>2, ConstantsAssumption DEF CapacityFits
    <3>2. PICK c \in Enough : \A d \in Enough : c <= d
      BY <3>1, SmallestNumber
    <3>3. \E e \in Powers : Smallest(e)
      BY <3>2
    <3>4. Capacity = CHOOSE e \in Powers : Smallest(e)
      BY <2>2 DEF Capacity, next_pow2
    <3>5. Capacity \in Powers /\ Smallest(Capacity)
      BY <3>3, <3>4
    <3> QED BY <3>1, <3>5
  <2> QED BY <2>1, <2>2
<1>4. PICK k \in 0 .. IndexBits : Capacity = 2 ^ k
  BY <1>3
<1>5. PICK m \in Nat \ {0} : IndexRange = m * Capacity
  <2>1. IndexBits \in 0 .. IndexBits /\ k <= IndexBits
    BY IndexBitsAssumption
  <2> QED BY <1>4, <2>1, PowersDivide DEF IndexRange
<1>6. Capacity \in Nat \ {0} /\ IndexRange \in Nat /\ Capacity < IndexRange
  BY <1>1, <1>2, <1>3
<1>7. IndexRange % Capacity = 0
  BY <1>5, <1>6, MultipleLeavesNothing
<1> QED BY <1>6, <1>7 DEF QueueGeometry

(* Two numbers with the same remainder lie whole multiples apart. *)
LEMMA SameRemainder ==
  ASSUME NEW c \in Nat \ {0}, NEW x \in Nat, NEW y \in Nat, x % c = y % c
  PROVE  \E k \in Int : x - y = k * c
<1>1. PICK q \in Nat, r \in 0 .. c - 1 : q * c + r = x /\ r = x % c
  BY Division
<1>2. PICK s \in Nat, t \in 0 .. c - 1 : s * c + t = y /\ t = y % c
  BY Division
<1>3. x - y = q * c - s * c
  BY <1>1, <1>2
<1>4. q * c - s * c = (q - s) * c
  OBVIOUS
<1>5. PICK k \in Int : k = q - s
  OBVIOUS
<1>6. x - y = k * c
  BY <1>3, <1>4, <1>5
<1> QED BY <1>6

(* at() maps any Capacity consecutive indices to different slots, also     *)
(* across the wrap-around of size_t.                                       *)
LEMMA SlotsDiffer ==
  ASSUME QueueGeometry, NEW a \in Index, NEW p \in Index, NEW q \in Index,
         Distance(a, p) < Capacity, Distance(a, q) < Capacity, p # q
  PROVE  p % Capacity # q % Capacity
<1>1. Capacity \in Nat \ {0} /\ IndexRange \in Nat /\ p \in Nat /\ q \in Nat
  BY DEF QueueGeometry, Index
<1>2. SUFFICES ASSUME p % Capacity = q % Capacity PROVE FALSE
  OBVIOUS
<1>3. PICK k \in Int : p - q = k * Capacity
  BY <1>1, <1>2, SameRemainder
<1>4. PICK m \in Int : IndexRange = m * Capacity
  <2>1. IndexRange = (IndexRange \div Capacity) * Capacity + 0
    BY <1>1, Division DEF QueueGeometry
  <2> QED BY <1>1, <2>1
<1>5. PICK d \in Int : /\ d = Distance(a, p) - Distance(a, q) /\ d # 0
                       /\ -Capacity < d /\ d < Capacity
                       /\ d = p - q \/ d = p - q + IndexRange \/ d = p - q - IndexRange
  <2>1. Distance(a, p) \in Nat /\ Distance(a, q) \in Nat /\ Distance(a, p) # Distance(a, q)
    BY DistanceType, DistanceInjective
  <2>2. LET d == Distance(a, p) - Distance(a, q)
        IN  d = p - q \/ d = p - q + IndexRange \/ d = p - q - IndexRange
    BY <1>1 DEF Distance, Index
  <2> QED BY <1>1, <2>1, <2>2
<1>6. PICK n \in Int : d = n * Capacity
  <2>1. CASE d = p - q
    BY <1>3, <2>1
  <2>2. CASE d = p - q + IndexRange
    <3>1. d = k * Capacity + m * Capacity
      BY <1>3, <1>4, <2>2
    <3>2. k * Capacity + m * Capacity = (k + m) * Capacity
      BY <1>1
    <3> QED BY <3>1, <3>2
  <2>3. CASE d = p - q - IndexRange
    <3>1. d = k * Capacity - m * Capacity
      BY <1>3, <1>4, <2>3
    <3>2. k * Capacity - m * Capacity = (k - m) * Capacity
      BY <1>1
    <3> QED BY <3>1, <3>2
  <2> QED BY <1>5, <2>1, <2>2, <2>3
<1>7. CASE n > 0
  <2>1. n * Capacity >= Capacity
    BY <1>1, <1>7
  <2> QED BY <1>1, <1>5, <1>6, <2>1
<1>8. CASE n < 0
  <2>1. n * Capacity <= -Capacity
    BY <1>1, <1>8
  <2> QED BY <1>1, <1>5, <1>6, <2>1
<1>9. CASE n = 0
  BY <1>1, <1>5, <1>6, <1>9
<1> QED BY <1>7, <1>8, <1>9

-----------------------------------------------------------------------------
(* What the invariant says, in the terms the steps need. *)

LEMMA QueueFacts ==
  ASSUME QueueGeometry, QueueIInv
  PROVE  /\ widx \in Index /\ ridx \in Index /\ pw \in Index /\ cr \in Index
         /\ Ahead(widx) \in Nat /\ Ahead(pw) \in Nat
         /\ Ahead(widx) <= Ahead(pw) /\ Held + Ahead(pw) <= Capacity /\ Held \in Nat
         /\ cbuf \in Seq(WorkerStore) /\ Held \in Nat
         /\ pbuf \in Seq(Store) /\ Len(pbuf) \in Nat
         /\ IndexRange \in Nat /\ Capacity \in Nat /\ 0 < Capacity /\ Capacity < IndexRange
<1>1. /\ widx \in Index /\ ridx \in Index /\ pw \in Index /\ cr \in Index
      /\ cbuf \in Seq(WorkerStore) /\ pbuf \in Seq(Store)
  BY DEF QueueIInv, TypeOK
<1>2. Ahead(widx) \in Nat /\ Ahead(pw) \in Nat /\ Held \in Nat
  BY <1>1, DistanceType DEF Ahead, Held, Behind
<1>3. Ahead(widx) <= Ahead(pw) /\ Held + Ahead(pw) <= Capacity
  BY DEF QueueIInv, IndexOrder
<1> QED BY <1>1, <1>2, <1>3, LenProperties DEF QueueGeometry

LEMMA PendingFacts ==
  ASSUME QueueGeometry, QueueIInv, NEW i \in 1 .. Len(pbuf)
  PROVE  /\ pbuf[i] \in Store /\ pbuf[i].val \in Index /\ Ahead(pbuf[i].val) \in Nat
         /\ pbuf[i].to \in Places \cup {Wild, Widx}
<1>1. pbuf[i] \in Store /\ cr \in Index
  BY QueueFacts, ElementOfSeq
<1>2. pbuf[i].val \in Index /\ pbuf[i].to \in Places \cup {Wild, Widx}
  BY <1>1 DEF Store
<1> QED BY <1>1, <1>2, DistanceType DEF Ahead

(* The counts from ridx_ as it is in memory, which full() and              *)
(* get_current_task_num() use.                                             *)
LEMMA CountsFromMemory ==
  ASSUME QueueGeometry, QueueIInv
  PROVE  /\ Distance(ridx, cr) = Held
         /\ Distance(ridx, widx) = Held + Ahead(widx)
         /\ Distance(ridx, pw) = Held + Ahead(pw)
<1>1. /\ widx \in Index /\ ridx \in Index /\ pw \in Index /\ cr \in Index
      /\ Ahead(widx) \in Nat /\ Ahead(pw) \in Nat
      /\ Ahead(widx) <= Ahead(pw) /\ Held + Ahead(pw) <= Capacity /\ Held \in Nat
      /\ IndexRange \in Nat /\ Capacity \in Nat /\ Capacity < IndexRange
  BY QueueFacts
<1>2. Distance(ridx, cr) = Held
  BY DEF Held, Behind
<1>3. ASSUME NEW x \in Index, Held + Ahead(x) < IndexRange
      PROVE  Distance(ridx, x) = Held + Ahead(x)
  BY <1>1, <1>2, <1>3, DistanceThrough DEF Ahead
<1> QED BY <1>1, <1>2, <1>3

(* Steps that move no index and no store. *)
LEMMA IndicesAlone ==
  ASSUME QueueIInv, UNCHANGED <<widx, ridx, pw, cr, pbuf, cbuf>>,
         wpc' \in {"front", "run", "pop"} => Ahead(widx) > 0
  PROVE  IndexOrder' /\ WorkerPending' /\ PusherPending'
<1>1. IndexOrder'
  BY DEF QueueIInv, IndexOrder, Ahead, Held, Behind
<1>2. WorkerPending'
  BY DEF QueueIInv, WorkerPending, Held, Behind, Retires
<1>3. PusherPending'
  BY DEF QueueIInv, PusherPending, Ahead, Publishes
<1> QED BY <1>1, <1>2, <1>3

-----------------------------------------------------------------------------
(* The steps of push. *)

LEMMA TwoMore ==
  ASSUME NEW S, NEW s \in Seq(S), NEW x \in S, NEW y \in S
  PROVE  /\ s \o <<x, y>> \in Seq(S) /\ Len(s \o <<x, y>>) = Len(s) + 2 /\ Len(s) \in Nat
         /\ \A i \in 1 .. Len(s) : (s \o <<x, y>>)[i] = s[i]
         /\ (s \o <<x, y>>)[Len(s) + 1] = x /\ (s \o <<x, y>>)[Len(s) + 2] = y
<1> DEFINE two == <<x, y>>
<1>1. two \in Seq(S) /\ Len(two) = 2 /\ two[1] = x /\ two[2] = y /\ Len(s) \in Nat
  OBVIOUS
<1> HIDE DEF two
<1>2. /\ s \o two \in Seq(S) /\ Len(s \o two) = Len(s) + Len(two)
      /\ \A i \in 1 .. Len(s) + Len(two) :
            (s \o two)[i] = IF i <= Len(s) THEN s[i] ELSE two[i - Len(s)]
  BY <1>1, ConcatProperties
<1>3. /\ \A i \in 1 .. Len(s) : (s \o two)[i] = s[i]
      /\ (s \o two)[Len(s) + 1] = two[1] /\ (s \o two)[Len(s) + 2] = two[2]
  <2>1. Len(s) + 1 - Len(s) = 1 /\ Len(s) + 2 - Len(s) = 2
    BY <1>1
  <2> QED BY <1>1, <1>2, <2>1
<1> QED BY <1>1, <1>2, <1>3 DEF two

(* What push leaves in the buffer: an increment and a construction after   *)
(* all that was there.                                                     *)
LEMMA PushedBuffer ==
  ASSUME QueueGeometry, QueueIInv, Push
  PROVE  /\ pbuf' \in Seq(Store) /\ Len(pbuf') = Len(pbuf) + 2
         /\ \A i \in 1 .. Len(pbuf) : pbuf'[i] = pbuf[i]
         /\ at(pw) \in Places /\ at(pw) # Widx
         /\ pbuf'[Len(pbuf) + 1] = [to |-> Widx, val |-> pw']
         /\ pbuf'[Len(pbuf) + 2] = [to |-> at(pw), val |-> pw]
<1> DEFINE publish == [to |-> Widx, val |-> pw']
           construct == [to |-> at(pw), val |-> pw]
<1>1. /\ pw \in Index /\ pbuf \in Seq(Store) /\ Capacity \in Nat \ {0}
  BY QueueFacts
<1>2. pw' = Wrap(pw + 1) /\ pw' \in Index
  <2>1. 1 \in 0 .. IndexRange - 1
    BY DEF QueueGeometry
  <2> QED BY <1>1, <2>1, WrapType DEF Push
<1>3. at(pw) \in Places
  <2>1. pw % Capacity \in Slots
    BY <1>1 DEF Index, Slots
  <2>2. at(pw) \in Places \cup {Wild}
    BY <2>1 DEF at, QueueIInv, TypeOK
  <2> QED BY <2>2 DEF Push
<1>4. at(pw) # Widx
  BY <1>3, ConstantsAssumption
<1>5. publish \in Store /\ construct \in Store
  BY <1>1, <1>2, <1>3 DEF Store
<1>6. pbuf' = pbuf \o <<publish, construct>>
  BY <1>2 DEF Push
<1> HIDE DEF publish, construct
<1>7. /\ pbuf' \in Seq(Store) /\ Len(pbuf') = Len(pbuf) + 2
      /\ \A i \in 1 .. Len(pbuf) : pbuf'[i] = pbuf[i]
      /\ pbuf'[Len(pbuf) + 1] = publish /\ pbuf'[Len(pbuf) + 2] = construct
  BY <1>1, <1>5, <1>6, TwoMore
<1> QED BY <1>3, <1>4, <1>7 DEF publish, construct

LEMMA PushKeeps ==
  ASSUME QueueGeometry, QueueIInv, Push
  PROVE  QueueIInv'
<1>1. /\ pw' = Wrap(pw + 1) /\ ppc = "idle" /\ ppc' = "pushed" /\ ~full(ridx, pw)
      /\ UNCHANGED <<widx, ridx, words, place, sema, missed, cr, cbuf, wpc, task, fin, lost>>
  BY DEF Push, working
<1>2. /\ widx \in Index /\ ridx \in Index /\ pw \in Index /\ cr \in Index
      /\ Ahead(widx) \in Nat /\ Ahead(pw) \in Nat /\ Ahead(widx) <= Ahead(pw)
      /\ Held \in Nat /\ Len(pbuf) \in Nat /\ Held + Ahead(pw) <= Capacity
      /\ IndexRange \in Nat /\ Capacity \in Nat /\ 0 < Capacity /\ Capacity < IndexRange
  BY QueueFacts
<1>3. pw' \in Index
  <2>1. 1 \in 0 .. IndexRange - 1
    BY <1>2
  <2> QED BY <1>1, <1>2, <2>1, WrapType
<1>4. Held + Ahead(pw) + 1 <= Capacity
  <2>1. Held + Ahead(pw) # Capacity
    BY <1>1, CountsFromMemory DEF full
  <2> QED BY <1>2, <2>1
<1>5. Ahead(pw)' = Ahead(pw) + 1
  <2>1. Ahead(pw) + 1 < IndexRange
    BY <1>2, <1>4
  <2> QED BY <1>1, <1>2, <2>1, DistanceForward DEF Ahead
<1>6. Ahead(widx)' = Ahead(widx) /\ \A v : Distance(cr', v) = Ahead(v)
  BY <1>1 DEF Ahead
<1>7. /\ pbuf' \in Seq(Store) /\ Len(pbuf') = Len(pbuf) + 2
      /\ \A i \in 1 .. Len(pbuf) : pbuf'[i] = pbuf[i]
      /\ \E n \in {Len(pbuf) + 1, Len(pbuf) + 2} :
           /\ Publishes(pbuf'[n]) /\ pbuf'[n].val = pw'
           /\ \A i \in {Len(pbuf) + 1, Len(pbuf) + 2} : i # n => ~Publishes(pbuf'[i])
  <2>1. [to |-> Widx, val |-> pw'].to = Widx /\ [to |-> Widx, val |-> pw'].val = pw'
    OBVIOUS
  <2>2. [to |-> at(pw), val |-> pw].to # Widx
    BY PushedBuffer
  <2>3. Len(pbuf) + 1 # Len(pbuf) + 2
    BY <1>2
  <2> QED BY <2>1, <2>2, <2>3, PushedBuffer DEF Publishes
<1>8. TypeOK'
  BY <1>1, <1>3, <1>7 DEF QueueIInv, TypeOK
<1>9. IndexOrder'
  BY <1>1, <1>2, <1>4, <1>5, <1>6 DEF QueueIInv, IndexOrder, Held, Behind
<1>10. WorkerPending'
  BY <1>1 DEF QueueIInv, WorkerPending, Held, Behind, Retires
<1>11. PusherPending'
  <2>1. PICK n \in {Len(pbuf) + 1, Len(pbuf) + 2} :
           /\ Publishes(pbuf'[n]) /\ pbuf'[n].val = pw'
           /\ \A i \in {Len(pbuf) + 1, Len(pbuf) + 2} : i # n => ~Publishes(pbuf'[i])
    BY <1>7
  <2>2. ASSUME NEW i \in 1 .. Len(pbuf'), Publishes(pbuf'[i]), i # n
        PROVE  /\ i \in 1 .. Len(pbuf) /\ pbuf'[i] = pbuf[i] /\ Publishes(pbuf[i])
               /\ Ahead(pbuf[i].val) \in Nat
               /\ Ahead(widx) < Ahead(pbuf[i].val) /\ Ahead(pbuf[i].val) <= Ahead(pw)
    <3>1. i \in 1 .. Len(pbuf) /\ pbuf'[i] = pbuf[i]
      BY <1>2, <1>7, <2>1, <2>2
    <3> QED BY <2>2, <3>1, PendingFacts DEF QueueIInv, PusherPending
  <2>3. n \in 1 .. Len(pbuf') /\ n > Len(pbuf) /\ n \in Nat
    BY <1>2, <1>7
  <2>4. Distance(cr', pw') = Ahead(pw) + 1
    BY <1>5 DEF Ahead
  <2>5. ASSUME NEW i \in 1 .. Len(pbuf'), Publishes(pbuf'[i])
        PROVE  /\ Ahead(widx) < Distance(cr', pbuf'[i].val)
               /\ Distance(cr', pbuf'[i].val) <= Ahead(pw) + 1
    <3>1. CASE i = n
      BY <1>2, <2>1, <2>4, <3>1
    <3>2. CASE i # n
      BY <1>2, <1>6, <2>2, <2>5, <3>2
    <3> QED BY <3>1, <3>2
  <2>6. ASSUME NEW i \in 1 .. Len(pbuf'), NEW j \in 1 .. Len(pbuf'), i < j,
               Publishes(pbuf'[i]), Publishes(pbuf'[j])
        PROVE  Distance(cr', pbuf'[i].val) < Distance(cr', pbuf'[j].val)
    <3>1. i # n
      BY <1>2, <1>7, <2>2, <2>3, <2>6
    <3>2. CASE j = n
      <4>1. Distance(cr', pbuf'[i].val) <= Ahead(pw) /\ Distance(cr', pbuf'[i].val) \in Nat
        BY <1>6, <2>2, <2>6, <3>1
      <4> QED BY <1>2, <2>1, <2>4, <3>2, <4>1
    <3>3. CASE j # n
      <4>1. /\ i \in 1 .. Len(pbuf) /\ pbuf'[i] = pbuf[i] /\ Publishes(pbuf[i])
            /\ j \in 1 .. Len(pbuf) /\ pbuf'[j] = pbuf[j] /\ Publishes(pbuf[j])
        BY <2>2, <2>6, <3>1, <3>3
      <4> QED BY <1>6, <2>6, <4>1 DEF QueueIInv, PusherPending
    <3> QED BY <3>2, <3>3
  <2> QED BY <1>5, <1>6, <2>1, <2>3, <2>5, <2>6 DEF PusherPending, Ahead, Publishes
<1>12. WakeupSound'
  <2>1. ASSUME ~missed PROVE Ahead(pw)' - Ahead(widx)' <= 1
    <3>1. widx = pw
      BY <1>1, <2>1 DEF QueueIInv, WakeupSound
    <3> QED BY <1>2, <1>5, <1>6, <3>1
  <2>2. ASSUME ~missed, wpc = "wait", sema = 0 PROVE Ahead(pw)' <= 1
    <3>1. cr = pw
      BY <1>1, <2>2 DEF QueueIInv, WakeupSound
    <3>2. Ahead(pw) = 0
      BY <1>2, <3>1, DistanceType DEF Ahead
    <3> QED BY <1>5, <3>2
  <2> QED BY <1>1, <2>1, <2>2 DEF WakeupSound
<1> QED BY <1>8, <1>9, <1>10, <1>11, <1>12 DEF QueueIInv

LEMMA CountAfterPushKeeps ==
  ASSUME QueueGeometry, QueueIInv, CountAfterPush
  PROVE  QueueIInv'
<1>1. /\ ppc = "pushed" /\ ppc' = IF Distance(ridx, pw) = 1 THEN "post" ELSE "idle"
      /\ missed' = (missed \/ (Distance(ridx, pw) # 1 /\ (ridx # cr \/ widx # pw)))
      /\ UNCHANGED <<widx, ridx, words, place, sema, pw, pbuf, cr, cbuf, wpc, task, fin, lost>>
  BY DEF CountAfterPush, CountsOne, working
<1>2. /\ pw \in Index /\ cr \in Index /\ Ahead(pw) \in Nat /\ missed \in BOOLEAN
  BY QueueFacts DEF QueueIInv, TypeOK
<1>3. missed' \in BOOLEAN
  BY <1>1
<1>4. TypeOK'
  <2>1. ppc' \in {"idle", "pushed", "post"}
    BY <1>1
  <2> QED BY <1>1, <1>3, <2>1 DEF QueueIInv, TypeOK
<1>5. IndexOrder' /\ WorkerPending' /\ PusherPending'
  BY <1>1, IndicesAlone DEF QueueIInv, IndexOrder
<1>6. WakeupSound'
  <2>1. ASSUME ~missed', ppc' = "idle"
        PROVE  ~missed /\ ridx = cr /\ widx = pw /\ Distance(ridx, pw) # 1
    BY <1>1, <1>2, <2>1
  <2>2. ASSUME ~missed', ppc' = "idle", wpc = "wait", sema = 0 PROVE cr = pw
    <3>1. Ahead(pw) <= 1 /\ Ahead(pw) # 1
      BY <1>1, <2>1, <2>2 DEF QueueIInv, WakeupSound, Ahead
    <3>2. Ahead(pw) = 0
      BY <1>2, <3>1
    <3> QED BY <1>2, <3>2, DistanceType DEF Ahead
  <2>3. ppc' # "pushed"
    BY <1>1
  <2> QED BY <1>1, <2>1, <2>2, <2>3 DEF WakeupSound
<1> QED BY <1>4, <1>5, <1>6 DEF QueueIInv

LEMMA PostKeeps ==
  ASSUME QueueGeometry, QueueIInv, Post
  PROVE  QueueIInv'
<1>1. /\ ppc = "post" /\ ppc' = "idle" /\ pbuf = <<>>
      /\ sema' = IF sema = SemMax THEN sema ELSE sema + 1
      /\ UNCHANGED <<widx, ridx, words, place, pw, pbuf, missed, cr, cbuf, wpc, task, fin, lost>>
  BY DEF Post, working
<1>2. sema \in 0 .. SemMax /\ SemMax \in Nat \ {0}
  BY ConstantsAssumption DEF QueueIInv, TypeOK
<1>3. sema' \in 0 .. SemMax /\ sema' # 0
  BY <1>1, <1>2
<1>4. TypeOK'
  BY <1>1, <1>3 DEF QueueIInv, TypeOK
<1>5. IndexOrder' /\ WorkerPending' /\ PusherPending'
  BY <1>1, IndicesAlone DEF QueueIInv, IndexOrder
<1>6. widx = pw
  <2>1. Len(pbuf) = 0
    BY <1>1
  <2> QED BY <2>1 DEF QueueIInv, PusherPending
<1>7. WakeupSound'
  BY <1>1, <1>3, <1>6 DEF WakeupSound
<1> QED BY <1>4, <1>5, <1>7 DEF QueueIInv

-----------------------------------------------------------------------------
(* The steps of the worker. *)

LEMMA CheckEmptyKeeps ==
  ASSUME QueueGeometry, QueueIInv, CheckEmpty
  PROVE  QueueIInv'
<1>1. /\ wpc' = IF Ahead(widx) = 0 THEN "wait" ELSE "front"
      /\ missed' = (missed /\ (cr = widx \/ widx # pw))
      /\ UNCHANGED <<widx, ridx, words, place, sema, cr, cbuf, task, fin, pw, pbuf, ppc, lost>>
  BY DEF CheckEmpty, pushing, Ahead
<1>2. /\ widx \in Index /\ cr \in Index /\ pw \in Index /\ Ahead(widx) \in Nat
      /\ Ahead(pw) \in Nat /\ missed \in BOOLEAN
  BY QueueFacts DEF QueueIInv, TypeOK
<1>3. TypeOK'
  <2>1. missed' \in BOOLEAN
    BY <1>1
  <2>2. wpc' \in {"check", "wait", "front", "run", "pop", "destroy", "stopped", "gone", "dead"}
    BY <1>1
  <2> QED BY <1>1, <2>1, <2>2 DEF QueueIInv, TypeOK
<1>4. IndexOrder' /\ WorkerPending' /\ PusherPending'
  <2>1. wpc' \in {"front", "run", "pop"} => Ahead(widx) > 0
    BY <1>1, <1>2
  <2> QED BY <1>1, <2>1, IndicesAlone
<1>5. Ahead(widx) = 0 <=> cr = widx
  BY <1>2, DistanceType DEF Ahead
<1>6. Ahead(widx)' = Ahead(widx) /\ Ahead(pw)' = Ahead(pw)
  BY <1>1 DEF Ahead
<1>7. CASE missed /\ ~missed'
  <2>1. cr # widx /\ widx = pw
    BY <1>1, <1>7
  <2>2. wpc' = "front" /\ Ahead(widx) = Ahead(pw)
    BY <1>1, <1>5, <2>1
  <2> QED BY <1>1, <1>2, <1>3, <1>4, <1>6, <2>1, <2>2 DEF QueueIInv, WakeupSound
<1>8. CASE ~missed
  <2>1. /\ ppc = "idle" => widx = pw
        /\ ppc = "pushed" => Ahead(pw) - Ahead(widx) <= 1
    BY <1>8 DEF QueueIInv, WakeupSound
  <2>2. wpc' = "wait" => Ahead(widx) = 0 /\ cr = widx
    BY <1>1, <1>5
  <2>3. wpc' = "wait" => /\ ppc = "idle" => cr = pw
                         /\ ppc = "pushed" => Ahead(pw) <= 1
    BY <1>2, <2>1, <2>2
  <2> QED BY <1>1, <1>3, <1>4, <1>6, <2>1, <2>3 DEF QueueIInv, WakeupSound
<1>9. CASE missed'
  BY <1>3, <1>4, <1>9 DEF QueueIInv, WakeupSound
<1> QED BY <1>7, <1>8, <1>9

LEMMA WaitKeeps ==
  ASSUME QueueGeometry, QueueIInv, Wait
  PROVE  QueueIInv'
<1>1. /\ wpc' = "check" /\ sema > 0 /\ sema' = sema - 1
      /\ UNCHANGED <<widx, ridx, words, place, cr, cbuf, task, fin, missed, pw, pbuf, ppc, lost>>
  BY DEF Wait, pushing
<1>2. sema' \in 0 .. SemMax
  <2>1. sema \in 0 .. SemMax /\ SemMax \in Nat
    BY ConstantsAssumption DEF QueueIInv, TypeOK
  <2> QED BY <1>1, <2>1
<1>3. TypeOK'
  BY <1>1, <1>2 DEF QueueIInv, TypeOK
<1>4. IndexOrder' /\ WorkerPending' /\ PusherPending'
  BY <1>1, IndicesAlone
<1>5. WakeupSound'
  BY <1>1 DEF QueueIInv, WakeupSound, Ahead
<1> QED BY <1>3, <1>4, <1>5 DEF QueueIInv

LEMMA FetchType ==
  ASSUME TypeOK, NEW q \in Places \cup {Wild}
  PROVE  Fetch(q) \in Index \cup {Garbage}
BY DEF TypeOK, Fetch

LEMMA AtType ==
  ASSUME QueueGeometry, TypeOK, NEW v \in Index
  PROVE  at(v) \in Places \cup {Wild}
<1>1. v % Capacity \in Slots
  BY DEF Index, Slots, QueueGeometry
<1> QED BY <1>1 DEF at, TypeOK

(* Front, the return of run(), and the two ways to die in push move only   *)
(* the worker, or nobody.                                                  *)
LEMMA WorkerAlone ==
  ASSUME QueueGeometry, QueueIInv,
         \/ Front \/ (\E result \in BOOLEAN : RunReturns(result))
         \/ PushDies \/ (PushFromRun /\ at(pw) = Wild)
  PROVE  QueueIInv'
<1>1. UNCHANGED <<widx, ridx, words, place, sema, cr, cbuf, missed, pw, pbuf, ppc, lost>>
  BY DEF Front, RunReturns, PushDies, PushFromRun, pushing
<1>2. /\ wpc' \in {"run", "pop", "dead"}
      /\ wpc' \in {"front", "run", "pop"} => wpc \in {"front", "run", "pop"}
  BY DEF Front, RunReturns, PushDies, PushFromRun
<1>3. fin' \in BOOLEAN
  BY DEF Front, RunReturns, PushDies, PushFromRun, QueueIInv, TypeOK
<1>4. task' \in Index \cup {Garbage}
  <2>1. TypeOK /\ cr \in Index
    BY DEF QueueIInv, TypeOK
  <2>2. Fetch(at(cr)) \in Index \cup {Garbage}
    BY <2>1, AtType, FetchType
  <2> QED BY <2>1, <2>2 DEF Front, RunReturns, PushDies, PushFromRun, TypeOK
<1>5. TypeOK'
  BY <1>1, <1>2, <1>3, <1>4 DEF QueueIInv, TypeOK
<1>6. IndexOrder' /\ WorkerPending' /\ PusherPending'
  BY <1>1, <1>2, IndicesAlone DEF QueueIInv, IndexOrder
<1>7. WakeupSound'
  BY <1>1, <1>2 DEF QueueIInv, WakeupSound, Ahead
<1> QED BY <1>5, <1>6, <1>7 DEF QueueIInv

LEMMA PushFromRunKeeps ==
  ASSUME QueueGeometry, QueueIInv, PushFromRun, at(pw) # Wild
  PROVE  QueueIInv'
<1>1. /\ wpc = "run" /\ ppc = "idle" /\ pbuf = <<>> /\ cbuf = <<>> /\ ~full(cr, pw)
      /\ place' = [place EXCEPT ![at(pw)] = pw]
      /\ pw' = Wrap(pw + 1) /\ widx' = pw'
      /\ UNCHANGED <<ridx, words, sema, pbuf, ppc, missed, cr, cbuf, wpc, task, fin, lost>>
  BY DEF PushFromRun
<1>2. /\ widx \in Index /\ ridx \in Index /\ pw \in Index /\ cr \in Index
      /\ Ahead(pw) \in Nat /\ Len(cbuf) = 0 /\ Len(pbuf) = 0 /\ Held + Ahead(pw) <= Capacity
      /\ IndexRange \in Nat /\ Capacity \in Nat /\ 0 < Capacity /\ Capacity < IndexRange
  BY <1>1, QueueFacts
<1>3. pw' \in Index
  <2>1. 1 \in 0 .. IndexRange - 1
    BY <1>2
  <2> QED BY <1>1, <1>2, <2>1, WrapType
<1>4. Held = 0 /\ Held' = 0
  <2>1. ridx = cr
    BY <1>2 DEF QueueIInv, WorkerPending
  <2> QED BY <1>1, <1>2, <2>1, DistanceType DEF Held, Behind
<1>5. Ahead(pw) + 1 <= Capacity /\ Ahead(pw)' = Ahead(pw) + 1 /\ Ahead(widx)' = Ahead(pw) + 1
  <2>1. Ahead(pw) # Capacity
    BY <1>1 DEF full, Ahead
  <2>2. Ahead(pw) + 1 <= Capacity /\ Ahead(pw) + 1 < IndexRange
    BY <1>2, <1>4, <2>1
  <2>3. Ahead(pw)' = Ahead(pw) + 1
    BY <1>1, <1>2, <2>2, DistanceForward DEF Ahead
  <2> QED BY <1>1, <2>2, <2>3 DEF Ahead
<1>6. TypeOK'
  <2>1. place' \in [Places -> Index \cup {Garbage}]
    BY <1>1, <1>2 DEF QueueIInv, TypeOK
  <2> QED BY <1>1, <1>3, <2>1 DEF QueueIInv, TypeOK
<1>7. IndexOrder'
  BY <1>1, <1>2, <1>4, <1>5 DEF IndexOrder
<1>8. WorkerPending'
  BY <1>1 DEF QueueIInv, WorkerPending, Held, Behind, Retires
<1>9. PusherPending'
  BY <1>1, <1>2 DEF PusherPending
<1>10. WakeupSound'
  BY <1>1 DEF WakeupSound
<1> QED BY <1>6, <1>7, <1>8, <1>9, <1>10 DEF QueueIInv

LEMMA AppendFacts ==
  ASSUME NEW S, NEW s \in Seq(S), NEW e \in S
  PROVE  /\ Append(s, e) \in Seq(S) /\ Len(Append(s, e)) = Len(s) + 1 /\ Len(s) \in Nat
         /\ \A i \in 1 .. Len(s) : Append(s, e)[i] = s[i]
         /\ Append(s, e)[Len(s) + 1] = e
OBVIOUS

LEMMA TailFacts ==
  ASSUME NEW S, NEW s \in Seq(S), s # <<>>
  PROVE  /\ Tail(s) \in Seq(S) /\ Len(s) \in Nat /\ Len(s) >= 1 /\ Len(Tail(s)) = Len(s) - 1
         /\ \A i \in 1 .. Len(s) - 1 : Tail(s)[i] = s[i + 1]
         /\ Head(s) = s[1] /\ Head(s) \in S
OBVIOUS

(* Taking cr one further brings what is ahead of it one closer. *)
LEMMA PopMeasure ==
  ASSUME QueueGeometry, QueueIInv, Pop
  PROVE  /\ cr' \in Index /\ cr' = Wrap(cr + 1)
         /\ \A x \in Index : Ahead(x) > 0 => Distance(cr', x) = Ahead(x) - 1
         /\ \A x \in Index : Ahead(x) = 0 => Distance(cr', x) = IndexRange - 1
<1>1. cr \in Index /\ cr' = Wrap(cr + 1) /\ 1 \in 0 .. IndexRange - 1
  BY QueueFacts DEF Pop
<1>2. cr' \in Index
  BY <1>1, WrapType
<1>3. ASSUME NEW x \in Index
      PROVE  Distance(cr', x) = IF Ahead(x) > 0 THEN Ahead(x) - 1 ELSE IndexRange - 1
  BY <1>1, DistanceCloser DEF Ahead
<1> QED BY <1>1, <1>2, <1>3

LEMMA PopKeeps ==
  ASSUME QueueGeometry, QueueIInv, Pop
  PROVE  QueueIInv'
<1> DEFINE retire == [to |-> Ridx, val |-> cr']
<1>1. /\ wpc = "pop" /\ wpc' = "destroy" /\ cbuf' = Append(cbuf, retire) /\ cr' = Wrap(cr + 1)
      /\ UNCHANGED <<widx, ridx, words, place, sema, task, fin, missed, pw, pbuf, ppc, lost>>
  BY DEF Pop, pushing
<1>2. /\ widx \in Index /\ ridx \in Index /\ pw \in Index /\ cr \in Index
      /\ Ahead(widx) \in Nat /\ Ahead(pw) \in Nat /\ Ahead(widx) <= Ahead(pw)
      /\ cbuf \in Seq(WorkerStore) /\ Held \in Nat /\ Held + Ahead(pw) <= Capacity
      /\ IndexRange \in Nat /\ Capacity \in Nat /\ Capacity < IndexRange /\ Len(cbuf) \in Nat
  BY QueueFacts
<1>3. Ahead(widx) > 0 /\ Ahead(pw) > 0
  BY <1>1, <1>2 DEF QueueIInv, IndexOrder
<1>4. /\ cr' \in Index
      /\ \A x \in Index : Ahead(x) > 0 => Distance(cr', x) = Ahead(x) - 1
  BY PopMeasure
<1>5. Ahead(widx)' = Ahead(widx) - 1 /\ Ahead(pw)' = Ahead(pw) - 1
  BY <1>1, <1>2, <1>3, <1>4 DEF Ahead
<1>6. retire \in WorkerStore /\ Retires(retire) /\ retire.val = cr'
  BY <1>4 DEF WorkerStore, Retires
<1> HIDE DEF retire
<1>7. /\ cbuf' \in Seq(WorkerStore) /\ Len(cbuf') = Len(cbuf) + 1
      /\ \A i \in 1 .. Len(cbuf) : cbuf'[i] = cbuf[i]
      /\ cbuf'[Len(cbuf) + 1] = retire
  BY <1>1, <1>2, <1>6, AppendFacts
<1>8. \A x \in Index : Behind(x) <= Held =>
         Behind(x)' = Behind(x) + 1 /\ Distance(x, cr') = Behind(x) + 1 /\ Behind(x) \in Nat
  <2>1. ASSUME NEW x \in Index, Behind(x) <= Held
        PROVE  Distance(x, cr') = Behind(x) + 1 /\ Behind(x) \in Nat
    <3>1. Behind(x) \in Nat
      BY <1>2, DistanceType DEF Behind
    <3>2. Behind(x) + 1 < IndexRange
      BY <1>2, <1>3, <2>1, <3>1
    <3> QED BY <1>1, <1>2, <3>1, <3>2, DistanceForward DEF Behind
  <2> QED BY <2>1 DEF Behind
<1>9. Held' = Held + 1
  BY <1>1, <1>2, <1>8 DEF Held, Behind
<1>10. TypeOK'
  BY <1>1, <1>4, <1>7 DEF QueueIInv, TypeOK
<1>11. IndexOrder'
  BY <1>1, <1>2, <1>5, <1>9 DEF IndexOrder
<1>12. WorkerPending'
  <2>1. WorkerPending
    BY DEF QueueIInv
  <2>2. Distance(cr', cr') = 0
    BY <1>4, DistanceType
  <2>3. ASSUME NEW i \in 1 .. Len(cbuf'), Retires(cbuf'[i]), i # Len(cbuf) + 1
        PROVE  /\ i \in 1 .. Len(cbuf) /\ cbuf'[i] = cbuf[i] /\ Retires(cbuf[i])
               /\ cbuf[i].val \in Index /\ Behind(cbuf[i].val) < Held
               /\ Distance(cbuf[i].val, cr') = Behind(cbuf[i].val) + 1
               /\ Behind(cbuf[i].val) \in Nat
    <3>1. i \in 1 .. Len(cbuf) /\ cbuf'[i] = cbuf[i]
      BY <1>2, <1>7, <2>3
    <3>2. Retires(cbuf[i])
      BY <2>3, <3>1
    <3>3. PICK v \in Index : v = cbuf[i].val
      BY <2>1, <3>1, <3>2 DEF WorkerPending
    <3>4. Behind(v) < Held
      BY <2>1, <3>1, <3>2, <3>3 DEF WorkerPending
    <3>5. Behind(v) \in Nat
      BY <1>2, <3>3, DistanceType DEF Behind
    <3>6. Distance(v, cr') = Behind(v) + 1
      BY <1>2, <1>8, <3>4, <3>5
    <3> QED BY <3>1, <3>2, <3>3, <3>4, <3>5, <3>6
  <2>4. ASSUME NEW i \in 1 .. Len(cbuf'), Retires(cbuf'[i])
        PROVE  cbuf'[i].val \in Index /\ Distance(cbuf'[i].val, cr') < Held + 1
    <3>1. CASE i = Len(cbuf) + 1
      BY <1>2, <1>4, <1>6, <1>7, <2>2, <3>1
    <3>2. CASE i # Len(cbuf) + 1
      BY <1>2, <2>3, <2>4, <3>2
    <3> QED BY <3>1, <3>2
  <2>5. ASSUME NEW i \in 1 .. Len(cbuf'), NEW j \in 1 .. Len(cbuf'), i < j,
               Retires(cbuf'[i]), Retires(cbuf'[j])
        PROVE  Distance(cbuf'[j].val, cr') < Distance(cbuf'[i].val, cr')
    <3>1. i # Len(cbuf) + 1
      BY <1>2, <1>7, <2>5
    <3>2. CASE j = Len(cbuf) + 1
      BY <1>6, <1>7, <2>2, <2>3, <2>5, <3>1, <3>2
    <3>3. CASE j # Len(cbuf) + 1
      BY <2>1, <2>3, <2>5, <3>1, <3>3 DEF WorkerPending
    <3> QED BY <3>2, <3>3
  <2>6. Len(cbuf) + 1 \in 1 .. Len(cbuf')
    BY <1>2, <1>7
  <2> QED BY <1>6, <1>7, <1>9, <2>4, <2>5, <2>6 DEF WorkerPending, Behind, Retires
<1>13. PusherPending'
  <2>1. ASSUME NEW i \in 1 .. Len(pbuf), Publishes(pbuf[i])
        PROVE  Distance(cr', pbuf[i].val) = Ahead(pbuf[i].val) - 1 /\ Ahead(pbuf[i].val) \in Nat
    <3>1. pbuf[i].val \in Index /\ Ahead(pbuf[i].val) \in Nat
      BY PendingFacts
    <3>2. Ahead(widx) < Ahead(pbuf[i].val)
      BY <2>1 DEF QueueIInv, PusherPending
    <3>3. Ahead(pbuf[i].val) > 0
      BY <1>2, <3>1, <3>2
    <3> QED BY <1>4, <3>1, <3>3
  <2>2. PusherPending
    BY DEF QueueIInv
  <2>3. \A i \in 1 .. Len(pbuf) : Publishes(pbuf[i]) =>
          /\ Ahead(widx) - 1 < Distance(cr', pbuf[i].val)
          /\ Distance(cr', pbuf[i].val) <= Ahead(pw) - 1
    BY <1>2, <2>1, <2>2 DEF PusherPending
  <2>4. \A i, j \in 1 .. Len(pbuf) : i < j /\ Publishes(pbuf[i]) /\ Publishes(pbuf[j]) =>
          Distance(cr', pbuf[i].val) < Distance(cr', pbuf[j].val)
    BY <2>1, <2>2 DEF PusherPending
  <2>5. Distance(cr', widx) = Ahead(widx) - 1 /\ Distance(cr', pw) = Ahead(pw) - 1
    BY <1>2, <1>3, <1>4
  <2> QED BY <1>1, <2>2, <2>3, <2>4, <2>5 DEF PusherPending, Ahead, Publishes
<1>14. WakeupSound'
  BY <1>1, <1>2, <1>5 DEF QueueIInv, WakeupSound
<1> QED BY <1>10, <1>11, <1>12, <1>13, <1>14 DEF QueueIInv

(* The destruction leaves a null behind the increments. *)
LEMMA DestroyKeeps ==
  ASSUME QueueGeometry, QueueIInv, Destroy
  PROVE  QueueIInv'
<1> DEFINE null == [to |-> at(Popped), val |-> Garbage]
<1>1. /\ wpc = "destroy" /\ wpc' \in {"check", "stopped"} /\ cbuf' = Append(cbuf, null)
      /\ task' = Garbage
      /\ lost' = lost \cup {v \in Index : Fetch(at(Previous)) = v /\ Queued(v)}
      /\ UNCHANGED <<widx, ridx, words, place, sema, cr, fin, missed, pw, pbuf, ppc>>
  BY DEF Destroy, pushing
<1>2. cbuf \in Seq(WorkerStore) /\ Len(cbuf) \in Nat /\ cr \in Index
  BY QueueFacts
<1>3. null \in WorkerStore /\ ~Retires(null)
  <2>1. Previous \in Index
    BY <1>2 DEF QueueGeometry, Previous, Wrap, Index
  <2>2. at(Popped) \in Places \cup {Wild}
    BY <2>1, AtType DEF Popped, QueueIInv
  <2> QED BY <2>2, ConstantsAssumption DEF WorkerStore, Retires
<1> HIDE DEF null
<1>4. /\ cbuf' \in Seq(WorkerStore) /\ Len(cbuf') = Len(cbuf) + 1
      /\ \A i \in 1 .. Len(cbuf) : cbuf'[i] = cbuf[i]
      /\ cbuf'[Len(cbuf) + 1] = null
  BY <1>1, <1>2, <1>3, AppendFacts
<1>5. TypeOK'
  BY <1>1, <1>4 DEF QueueIInv, TypeOK
<1>6. IndexOrder'
  BY <1>1 DEF QueueIInv, IndexOrder, Ahead, Held, Behind
<1>7. WorkerPending'
  <2>1. WorkerPending
    BY DEF QueueIInv
  <2>2. \A i \in 1 .. Len(cbuf') : Retires(cbuf'[i]) => i \in 1 .. Len(cbuf) /\ cbuf'[i] = cbuf[i]
    BY <1>2, <1>3, <1>4
  <2>3. \A i \in 1 .. Len(cbuf) : i \in 1 .. Len(cbuf')
    BY <1>2, <1>4
  <2>4. Held' = Held /\ cr' = cr /\ ridx' = ridx /\ \A x : Behind(x)' = Behind(x)
    BY <1>1 DEF Held, Behind
  <2> QED BY <1>4, <2>1, <2>2, <2>3, <2>4 DEF WorkerPending, Retires
<1>8. PusherPending'
  BY <1>1 DEF QueueIInv, PusherPending, Ahead, Publishes
<1>9. WakeupSound'
  BY <1>1 DEF QueueIInv, WakeupSound, Ahead
<1> QED BY <1>5, <1>6, <1>7, <1>8, <1>9 DEF QueueIInv

LEMMA ClearKeeps ==
  ASSUME QueueGeometry, QueueIInv, Clear
  PROVE  QueueIInv'
<1>1. /\ pbuf = <<>> /\ cbuf = <<>> /\ ppc = "idle" /\ cr' = widx /\ ridx' = widx /\ wpc' = "gone"
      /\ UNCHANGED <<widx, words, place, sema, cbuf, task, fin, missed, pw, pbuf, ppc, lost>>
  BY DEF Clear, pushing
<1>2. /\ widx \in Index /\ pw \in Index /\ Len(pbuf) = 0 /\ Len(cbuf) = 0
      /\ Capacity \in Nat /\ 0 < Capacity
  BY <1>1, QueueFacts
<1>3. widx = pw
  BY <1>2 DEF QueueIInv, PusherPending
<1>4. Ahead(widx)' = 0 /\ Ahead(pw)' = 0
  BY <1>1, <1>2, <1>3, DistanceType DEF Ahead
<1>5. TypeOK'
  BY <1>1, <1>2 DEF QueueIInv, TypeOK
<1>6. IndexOrder'
  <2>1. Held' = 0
    BY <1>1, <1>2, DistanceType DEF Held, Behind
  <2> QED BY <1>1, <1>2, <1>4, <2>1 DEF IndexOrder
<1>7. WorkerPending'
  BY <1>1, <1>2 DEF WorkerPending
<1>8. PusherPending'
  BY <1>1, <1>2, <1>3 DEF PusherPending
<1>9. WakeupSound'
  BY <1>1, <1>3 DEF WakeupSound
<1> QED BY <1>5, <1>6, <1>7, <1>8, <1>9 DEF QueueIInv

-----------------------------------------------------------------------------
(* The store buffers. *)

LEMMA DrainPusherFacts ==
  ASSUME QueueGeometry, QueueIInv, DrainPusher
  PROVE  /\ 1 \in 1 .. Len(pbuf) /\ pbuf' \in Seq(Store) /\ Len(pbuf') = Len(pbuf) - 1
         /\ \A i \in 1 .. Len(pbuf') : i + 1 \in 1 .. Len(pbuf) /\ pbuf'[i] = pbuf[i + 1]
         /\ widx' = IF Publishes(pbuf[1]) THEN pbuf[1].val ELSE widx
         /\ place' = IF pbuf[1].to \in Places
                       THEN [place EXCEPT ![pbuf[1].to] = pbuf[1].val] ELSE place
         /\ lost' = IF Nulled(pbuf[1].to) THEN lost \cup {pbuf[1].val} ELSE lost
         /\ UNCHANGED <<ridx, words, sema, pw, ppc, missed, cr, cbuf, wpc, task, fin>>
<1>1. pbuf \in Seq(Store) /\ pbuf # <<>> /\ pbuf' = Tail(pbuf)
  BY QueueFacts DEF DrainPusher
<1>2. /\ pbuf' \in Seq(Store) /\ Len(pbuf) \in Nat /\ Len(pbuf) >= 1 /\ Len(pbuf') = Len(pbuf) - 1
      /\ \A i \in 1 .. Len(pbuf) - 1 : pbuf'[i] = pbuf[i + 1]
      /\ Head(pbuf) = pbuf[1]
  BY <1>1, TailFacts
<1>3. /\ widx' = IF Publishes(pbuf[1]) THEN pbuf[1].val ELSE widx
      /\ place' = IF pbuf[1].to \in Places
                    THEN [place EXCEPT ![pbuf[1].to] = pbuf[1].val] ELSE place
      /\ lost' = IF Nulled(pbuf[1].to) THEN lost \cup {pbuf[1].val} ELSE lost
      /\ UNCHANGED <<ridx, words, sema, pw, ppc, missed, cr, cbuf, wpc, task, fin>>
  BY <1>2 DEF DrainPusher, Publishes, working
<1> QED BY <1>2, <1>3

LEMMA DrainPusherKeeps ==
  ASSUME QueueGeometry, QueueIInv, DrainPusher
  PROVE  QueueIInv'
<1>1. /\ 1 \in 1 .. Len(pbuf) /\ pbuf' \in Seq(Store) /\ Len(pbuf') = Len(pbuf) - 1
      /\ \A i \in 1 .. Len(pbuf') : i + 1 \in 1 .. Len(pbuf) /\ pbuf'[i] = pbuf[i + 1]
      /\ widx' = IF Publishes(pbuf[1]) THEN pbuf[1].val ELSE widx
      /\ place' = IF pbuf[1].to \in Places
                    THEN [place EXCEPT ![pbuf[1].to] = pbuf[1].val] ELSE place
      /\ lost' = IF Nulled(pbuf[1].to) THEN lost \cup {pbuf[1].val} ELSE lost
      /\ UNCHANGED <<ridx, words, sema, pw, ppc, missed, cr, cbuf, wpc, task, fin>>
  BY DrainPusherFacts
<1>2. /\ widx \in Index /\ pw \in Index /\ cr \in Index
      /\ Ahead(widx) \in Nat /\ Ahead(pw) \in Nat /\ Ahead(widx) <= Ahead(pw)
      /\ Held \in Nat /\ Len(pbuf) \in Nat /\ Held + Ahead(pw) <= Capacity
  BY QueueFacts
<1>3. pbuf[1].val \in Index /\ Ahead(pbuf[1].val) \in Nat
  BY <1>1, PendingFacts
<1>4. PusherPending /\ IndexOrder /\ WorkerPending /\ WakeupSound
  BY DEF QueueIInv
<1>5. TypeOK'
  <2>1. widx' \in Index
    BY <1>1, <1>2, <1>3
  <2>2. place' \in [Places -> Index \cup {Garbage}]
    BY <1>1, <1>3 DEF QueueIInv, TypeOK
  <2>3. lost' \subseteq Index
    BY <1>1, <1>3 DEF QueueIInv, TypeOK
  <2> QED BY <1>1, <2>1, <2>2, <2>3 DEF QueueIInv, TypeOK
<1>6. \A x \in Index : Distance(cr', x) = Ahead(x)
  BY <1>1 DEF Ahead
<1>7. WorkerPending'
  BY <1>1, <1>4 DEF WorkerPending, Held, Behind, Retires
<1>8. /\ Distance(cr', widx') \in Nat /\ Ahead(widx) <= Distance(cr', widx')
      /\ Distance(cr', widx') <= Ahead(pw) /\ Distance(cr', pw') = Ahead(pw)
  <2>1. CASE Publishes(pbuf[1])
    BY <1>1, <1>2, <1>3, <1>4, <1>6, <2>1 DEF PusherPending
  <2>2. CASE ~Publishes(pbuf[1])
    BY <1>1, <1>2, <1>6, <2>2
  <2> QED BY <2>1, <2>2
<1>9. IndexOrder'
  BY <1>1, <1>2, <1>4, <1>8 DEF IndexOrder, Ahead, Held, Behind
<1>10. PusherPending'
  <2>1. ASSUME NEW i \in 1 .. Len(pbuf'), Publishes(pbuf'[i])
        PROVE  Distance(cr', widx') < Distance(cr', pbuf'[i].val) /\ Distance(cr', pbuf'[i].val) <= Ahead(pw)
    <3>1. i + 1 \in 1 .. Len(pbuf) /\ pbuf'[i] = pbuf[i + 1] /\ Publishes(pbuf[i + 1]) /\ 1 < i + 1
      BY <1>1, <2>1
    <3>2. pbuf[i + 1].val \in Index
      BY <3>1, PendingFacts
    <3>3. CASE Publishes(pbuf[1])
      BY <1>1, <1>3, <1>4, <1>6, <3>1, <3>2, <3>3 DEF PusherPending
    <3>4. CASE ~Publishes(pbuf[1])
      BY <1>1, <1>2, <1>4, <1>6, <3>1, <3>2, <3>4 DEF PusherPending
    <3> QED BY <3>3, <3>4
  <2>2. ASSUME NEW i \in 1 .. Len(pbuf'), NEW j \in 1 .. Len(pbuf'), i < j,
               Publishes(pbuf'[i]), Publishes(pbuf'[j])
        PROVE  Distance(cr', pbuf'[i].val) < Distance(cr', pbuf'[j].val)
    <3>1. /\ i + 1 \in 1 .. Len(pbuf) /\ pbuf'[i] = pbuf[i + 1] /\ Publishes(pbuf[i + 1])
          /\ j + 1 \in 1 .. Len(pbuf) /\ pbuf'[j] = pbuf[j + 1] /\ Publishes(pbuf[j + 1])
          /\ i + 1 < j + 1
      BY <1>1, <2>2
    <3>2. pbuf[i + 1].val \in Index /\ pbuf[j + 1].val \in Index
      BY <3>1, PendingFacts
    <3>3. Ahead(pbuf[i + 1].val) < Ahead(pbuf[j + 1].val)
      BY <1>4, <3>1 DEF PusherPending
    <3> QED BY <1>6, <3>1, <3>2, <3>3
  <2>3. widx' = pw \/ \E i \in 1 .. Len(pbuf') : Publishes(pbuf'[i]) /\ pbuf'[i].val = pw
    <3>1. CASE widx = pw
      <4>1. ~Publishes(pbuf[1])
        BY <1>1, <1>2, <1>3, <1>4, <3>1 DEF PusherPending
      <4> QED BY <1>1, <3>1, <4>1
    <3>2. CASE widx # pw
      <4>1. PICK k \in 1 .. Len(pbuf) : Publishes(pbuf[k]) /\ pbuf[k].val = pw
        BY <1>4, <3>2 DEF PusherPending
      <4>2. CASE k = 1
        BY <1>1, <4>1, <4>2
      <4>3. CASE k # 1
        <5>1. k - 1 \in 1 .. Len(pbuf') /\ (k - 1) + 1 = k
          BY <1>1, <1>2, <4>3
        <5> QED BY <1>1, <4>1, <5>1
      <4> QED BY <4>2, <4>3
    <3> QED BY <3>1, <3>2
  <2> QED BY <1>1, <1>8, <2>1, <2>2, <2>3 DEF PusherPending, Ahead, Publishes
<1>11. WakeupSound'
  <2>1. CASE missed
    BY <1>1, <2>1 DEF WakeupSound
  <2>2. CASE ~missed
    <3>1. ppc = "idle" => widx' = pw
      <4>1. ASSUME ppc = "idle" PROVE ~Publishes(pbuf[1])
        BY <1>1, <1>2, <1>3, <1>4, <2>2, <4>1 DEF WakeupSound, PusherPending
      <4> QED BY <1>1, <1>4, <2>2, <4>1 DEF WakeupSound
    <3>2. ppc = "pushed" => Ahead(pw) - Distance(cr', widx') <= 1
      BY <1>2, <1>4, <1>8, <2>2 DEF WakeupSound
    <3> QED BY <1>1, <1>4, <1>8, <2>2, <3>1, <3>2 DEF WakeupSound, Ahead
  <2> QED BY <2>1, <2>2
<1> QED BY <1>5, <1>7, <1>9, <1>10, <1>11 DEF QueueIInv

LEMMA DrainWorkerFacts ==
  ASSUME QueueGeometry, QueueIInv, DrainWorker
  PROVE  /\ 1 \in 1 .. Len(cbuf) /\ cbuf' \in Seq(WorkerStore) /\ Len(cbuf') = Len(cbuf) - 1
         /\ \A i \in 1 .. Len(cbuf') : i + 1 \in 1 .. Len(cbuf) /\ cbuf'[i] = cbuf[i + 1]
         /\ cbuf[1] \in WorkerStore
         /\ ridx' = IF Retires(cbuf[1]) THEN cbuf[1].val ELSE ridx
         /\ place' = IF cbuf[1].to \in Places
                       THEN [place EXCEPT ![cbuf[1].to] = cbuf[1].val] ELSE place
         /\ UNCHANGED <<widx, words, sema, cr, wpc, task, fin, missed, pw, pbuf, ppc, lost>>
<1>1. cbuf \in Seq(WorkerStore) /\ cbuf # <<>> /\ cbuf' = Tail(cbuf)
  BY QueueFacts DEF DrainWorker
<1>2. /\ cbuf' \in Seq(WorkerStore) /\ Len(cbuf) \in Nat /\ Len(cbuf) >= 1
      /\ Len(cbuf') = Len(cbuf) - 1
      /\ \A i \in 1 .. Len(cbuf) - 1 : cbuf'[i] = cbuf[i + 1]
      /\ Head(cbuf) = cbuf[1] /\ Head(cbuf) \in WorkerStore
  BY <1>1, TailFacts
<1>3. /\ ridx' = IF Retires(cbuf[1]) THEN cbuf[1].val ELSE ridx
      /\ place' = IF cbuf[1].to \in Places
                    THEN [place EXCEPT ![cbuf[1].to] = cbuf[1].val] ELSE place
      /\ UNCHANGED <<widx, words, sema, cr, wpc, task, fin, missed, pw, pbuf, ppc, lost>>
  BY <1>2 DEF DrainWorker, Retires, pushing
<1> QED BY <1>2, <1>3

LEMMA DrainWorkerKeeps ==
  ASSUME QueueGeometry, QueueIInv, DrainWorker
  PROVE  QueueIInv'
<1>1. /\ 1 \in 1 .. Len(cbuf) /\ cbuf' \in Seq(WorkerStore) /\ Len(cbuf') = Len(cbuf) - 1
      /\ \A i \in 1 .. Len(cbuf') : i + 1 \in 1 .. Len(cbuf) /\ cbuf'[i] = cbuf[i + 1]
      /\ cbuf[1] \in WorkerStore
      /\ ridx' = IF Retires(cbuf[1]) THEN cbuf[1].val ELSE ridx
      /\ place' = IF cbuf[1].to \in Places
                    THEN [place EXCEPT ![cbuf[1].to] = cbuf[1].val] ELSE place
      /\ UNCHANGED <<widx, words, sema, cr, wpc, task, fin, missed, pw, pbuf, ppc, lost>>
  BY DrainWorkerFacts
<1>2. /\ ridx \in Index /\ cr \in Index /\ Ahead(pw) \in Nat /\ Ahead(widx) \in Nat
      /\ Held \in Nat /\ Held + Ahead(pw) <= Capacity /\ Len(cbuf) \in Nat
      /\ IndexRange \in Nat /\ Capacity \in Nat /\ Capacity < IndexRange
  BY QueueFacts
<1>3. WorkerPending /\ IndexOrder
  BY DEF QueueIInv
<1>4. ridx' \in Index
  BY <1>1, <1>2, <1>3 DEF WorkerPending
<1>5. TypeOK'
  <2>1. place' \in [Places -> Index \cup {Garbage}]
    BY <1>1 DEF QueueIInv, TypeOK, WorkerStore
  <2> QED BY <1>1, <1>4, <2>1 DEF QueueIInv, TypeOK
<1>6. Held' = Behind(ridx') /\ \A x : Behind(x)' = Behind(x)
  BY <1>1 DEF Held, Behind
<1>7. Behind(ridx') \in Nat /\ Behind(ridx') <= Held
  <2>1. Behind(ridx') \in Nat
    BY <1>2, <1>4, DistanceType DEF Behind
  <2>2. CASE Retires(cbuf[1])
    <3>1. ridx' = cbuf[1].val /\ Behind(cbuf[1].val) < Held
      BY <1>1, <1>3, <2>2 DEF WorkerPending
    <3> QED BY <1>2, <2>1, <3>1
  <2>3. CASE ~Retires(cbuf[1])
    BY <1>1, <1>2, <2>1, <2>3 DEF Held
  <2> QED BY <2>2, <2>3
<1>8. IndexOrder'
  BY <1>1, <1>2, <1>3, <1>6, <1>7 DEF IndexOrder, Ahead
<1>9. WorkerPending'
  <2>1. ASSUME NEW i \in 1 .. Len(cbuf'), Retires(cbuf'[i])
        PROVE  /\ i + 1 \in 1 .. Len(cbuf) /\ cbuf'[i] = cbuf[i + 1] /\ Retires(cbuf[i + 1])
               /\ cbuf[i + 1].val \in Index /\ Behind(cbuf[i + 1].val) < Behind(ridx')
    <3>1. i + 1 \in 1 .. Len(cbuf) /\ cbuf'[i] = cbuf[i + 1] /\ Retires(cbuf[i + 1]) /\ 1 < i + 1
      BY <1>1, <2>1
    <3>2. cbuf[i + 1].val \in Index /\ Behind(cbuf[i + 1].val) < Held
      BY <1>3, <3>1 DEF WorkerPending
    <3>3. CASE Retires(cbuf[1])
      <4>1. Behind(cbuf[i + 1].val) < Behind(cbuf[1].val)
        BY <1>1, <1>3, <3>1, <3>3 DEF WorkerPending
      <4> QED BY <1>1, <3>1, <3>2, <3>3, <4>1
    <3>4. CASE ~Retires(cbuf[1])
      BY <1>1, <3>1, <3>2, <3>4 DEF Held
    <3> QED BY <3>3, <3>4
  <2>2. ASSUME NEW i \in 1 .. Len(cbuf'), NEW j \in 1 .. Len(cbuf'), i < j,
               Retires(cbuf'[i]), Retires(cbuf'[j])
        PROVE  Behind(cbuf'[j].val) < Behind(cbuf'[i].val)
    <3>1. /\ i + 1 \in 1 .. Len(cbuf) /\ cbuf'[i] = cbuf[i + 1] /\ Retires(cbuf[i + 1])
          /\ j + 1 \in 1 .. Len(cbuf) /\ cbuf'[j] = cbuf[j + 1] /\ Retires(cbuf[j + 1])
          /\ i + 1 < j + 1
      BY <1>1, <2>2
    <3> QED BY <1>3, <3>1 DEF WorkerPending
  <2>3. ridx' = cr \/ \E i \in 1 .. Len(cbuf') : Retires(cbuf'[i]) /\ cbuf'[i].val = cr
    <3>1. CASE ridx = cr
      <4>1. Held = 0
        BY <1>2, <3>1, DistanceType DEF Held, Behind
      <4>2. ~Retires(cbuf[1])
        <5>1. ASSUME Retires(cbuf[1]) PROVE FALSE
          <6>1. Behind(ridx') < Held
            BY <1>1, <1>3, <5>1 DEF WorkerPending
          <6> QED BY <1>7, <4>1, <6>1
        <5> QED BY <5>1
      <4> QED BY <1>1, <3>1, <4>2
    <3>2. CASE ridx # cr
      <4>1. PICK k \in 1 .. Len(cbuf) : Retires(cbuf[k]) /\ cbuf[k].val = cr
        BY <1>3, <3>2 DEF WorkerPending
      <4>2. CASE k = 1
        BY <1>1, <4>1, <4>2
      <4>3. CASE k # 1
        <5>1. k - 1 \in 1 .. Len(cbuf') /\ (k - 1) + 1 = k
          BY <1>1, <1>2, <4>3
        <5> QED BY <1>1, <4>1, <5>1
      <4> QED BY <4>2, <4>3
    <3> QED BY <3>1, <3>2
  <2> QED BY <1>1, <1>6, <2>1, <2>2, <2>3 DEF WorkerPending, Retires
<1>10. PusherPending'
  BY <1>1 DEF QueueIInv, PusherPending, Ahead, Publishes
<1>11. WakeupSound'
  BY <1>1 DEF QueueIInv, WakeupSound, Ahead
<1> QED BY <1>5, <1>8, <1>9, <1>10, <1>11 DEF QueueIInv

-----------------------------------------------------------------------------
(* The queue's own invariant, always. *)

LEMMA QueueStarts ==
  ASSUME QueueGeometry, Init
  PROVE  QueueIInv
<1>1. /\ widx = 0 /\ ridx = 0 /\ pw = 0 /\ cr = 0 /\ sema = 0 /\ pbuf = <<>> /\ cbuf = <<>>
      /\ ppc = "idle" /\ wpc = "check"
  BY DEF Init
<1>2. 0 \in Index /\ Capacity \in Nat /\ 0 < Capacity
  BY DEF QueueGeometry, Index
<1>3. Len(pbuf) = 0 /\ Len(cbuf) = 0 /\ pbuf \in Seq(Store) /\ cbuf \in Seq(WorkerStore)
  BY <1>1
<1>4. Ahead(widx) = 0 /\ Ahead(pw) = 0 /\ Held = 0
  BY <1>1, <1>2, DistanceType DEF Ahead, Held, Behind
<1>5. TypeOK
  <2>1. sema \in 0 .. SemMax
    BY <1>1, ConstantsAssumption
  <2>2. place \in [Places -> Index \cup {Garbage}]
    BY DEF Init
  <2>3. fin \in BOOLEAN /\ missed \in BOOLEAN /\ lost \subseteq Index
    BY DEF Init
  <2>4. task \in Index \cup {Garbage}
    BY DEF Init
  <2> QED BY <1>1, <1>2, <1>3, <2>1, <2>2, <2>3, <2>4 DEF Init, TypeOK
<1>6. IndexOrder
  BY <1>1, <1>2, <1>3, <1>4 DEF IndexOrder
<1>7. WorkerPending
  BY <1>1, <1>3 DEF WorkerPending
<1>8. PusherPending
  BY <1>1, <1>3 DEF PusherPending
<1>9. WakeupSound
  BY <1>1 DEF WakeupSound
<1> QED BY <1>5, <1>6, <1>7, <1>8, <1>9 DEF QueueIInv

LEMMA QueueStep ==
  ASSUME QueueGeometry, QueueIInv, [Next]_vars
  PROVE  QueueIInv'
<1>1. CASE Pusher
  BY <1>1, PushKeeps, WorkerAlone, CountAfterPushKeeps, PostKeeps DEF Pusher
<1>2. CASE Worker
  BY <1>2, CheckEmptyKeeps, WaitKeeps, WorkerAlone, PushFromRunKeeps, PopKeeps, DestroyKeeps
    DEF Worker
<1>3. CASE Clear
  BY <1>3, ClearKeeps
<1>4. CASE DrainPusher
  BY <1>4, DrainPusherKeeps
<1>5. CASE DrainWorker
  BY <1>5, DrainWorkerKeeps
<1>6. CASE UNCHANGED vars
  <2>1. UNCHANGED <<widx, ridx, words, place, sema, pw, cr, pbuf, cbuf, ppc, wpc, task, fin, missed, lost>>
    BY <1>6 DEF vars
  <2>2. TypeOK'
    BY <2>1 DEF QueueIInv, TypeOK
  <2>3. IndexOrder' /\ WorkerPending' /\ PusherPending'
    BY <2>1, IndicesAlone DEF QueueIInv, IndexOrder
  <2>4. WakeupSound'
    BY <2>1 DEF QueueIInv, WakeupSound, Ahead
  <2> QED BY <2>2, <2>3, <2>4 DEF QueueIInv
<1> QED BY <1>1, <1>2, <1>3, <1>4, <1>5, <1>6 DEF Next

LEMMA QueueAlways ==
  ASSUME QueueGeometry
  PROVE  Spec => []QueueIInv
<1>1. Init => QueueIInv
  BY QueueStarts
<1>2. QueueIInv /\ [Next]_vars => QueueIInv'
  BY QueueStep
<1> QED BY <1>1, <1>2, PTL DEF Spec

(* Neither thread's count of the queue goes wrong, at any capacity and     *)
(* with any number of increments of widx_ and ridx_ still in the store     *)
(* buffers: full() and empty() (circular_queue.h) err only on the safe     *)
(* side, and front()'s assert holds from the worker's test to its pop().   *)
THEOREM QueueNeverMiscounts ==
  ASSUME CapacityFits
  PROVE  Spec => []QueueInv
<1> QueueGeometry
  BY Geometry
<1>1. QueueIInv => QueueInv
  <2> SUFFICES ASSUME QueueIInv PROVE QueueInv
    OBVIOUS
  <2>1. /\ Distance(ridx, cr) = Held
        /\ Distance(ridx, widx) = Held + Ahead(widx)
        /\ Distance(ridx, pw) = Held + Ahead(pw)
    BY CountsFromMemory
  <2>2. /\ Ahead(widx) \in Nat /\ Ahead(pw) \in Nat /\ Ahead(widx) <= Ahead(pw)
        /\ Held + Ahead(pw) <= Capacity /\ Held \in Nat
    BY QueueFacts
  <2>3. NeverOverfull
    BY <2>1, <2>2 DEF NeverOverfull
  <2>4. FrontIsNeverEmpty
    BY <2>2 DEF QueueIInv, IndexOrder, FrontIsNeverEmpty, Ahead
  <2> QED BY <2>3, <2>4 DEF QueueIInv, QueueInv
<1> QED BY <1>1, QueueAlways, PTL

(* task_queue_thread::push posts only when it finds one task in the queue. *)
(* That is enough: the worker never sleeps on a queue with tasks in it,    *)
(* with nobody about to post, unless some push counted while an increment  *)
(* of ridx_ or widx_ was in a store buffer.                                *)
THEOREM WakeupsAreLostOnlyToStoreBuffers ==
  ASSUME CapacityFits
  PROVE  Spec => []WakeupLostOnlyToStoreBuffers
<1> QueueGeometry
  BY Geometry
<1>1. QueueIInv => WakeupLostOnlyToStoreBuffers
  BY DEF QueueIInv, WakeupSound, WakeupLostOnlyToStoreBuffers
<1> QED BY <1>1, QueueAlways, PTL

-----------------------------------------------------------------------------
(* The tasks. *)

(* What the worker's processor holds back beside the increments are nulls. *)
NullsOnly == \A i \in 1 .. Len(cbuf) : ~Retires(cbuf[i]) => cbuf[i].val = Garbage

(* The constructions under way are of queued tasks, in their order. *)
ConstructionsInOrder ==
  /\ \A i \in 1 .. Len(pbuf) : ~Publishes(pbuf[i]) =>
       /\ pbuf[i].to = at(pbuf[i].val) /\ at(pbuf[i].val) \in Places
       /\ Ahead(pbuf[i].val) < Ahead(pw)
  /\ \A i, j \in 1 .. Len(pbuf) : i < j /\ ~Publishes(pbuf[i]) /\ ~Publishes(pbuf[j]) =>
       Ahead(pbuf[i].val) < Ahead(pbuf[j].val)

Constructing(v) == \E i \in 1 .. Len(pbuf) : ~Publishes(pbuf[i]) /\ pbuf[i].val = v

(* Every construction still under way is of a task after v. *)
Constructed(v) == \A i \in 1 .. Len(pbuf) : ~Publishes(pbuf[i]) => Ahead(v) < Ahead(pbuf[i].val)

(* A place holds a queued task of its own, or the one pop has just passed. *)
PlacesSound ==
  wpc \notin {"gone", "dead"} =>
    \A q \in Places : \A v \in Index : Fetch(q) = v =>
      /\ at(v) = q
      /\ \/ Ahead(v) < Ahead(pw) /\ Constructed(v)
         \/ wpc = "destroy" /\ v = Previous

TaskInHand ==
  wpc \in {"run", "pop"} =>
    task \in Index /\ at(task) = at(cr) /\ Ahead(task) < Ahead(pw) /\ Constructed(task)

Kept(v) == Fetch(at(v)) = v \/ Constructing(v) \/ v \in lost

TasksKept ==
  Prepared =>
    /\ wpc \in {"run", "pop"} => task = cr /\ Fetch(at(cr)) = cr
    /\ wpc = "destroy" => /\ task = Previous
                          /\ Ahead(pw) < Capacity => Fetch(at(Previous)) = Previous
    /\ \A v \in Index : Ahead(v) < Ahead(pw) => Kept(v)
    /\ wpc = "dead" => Kept(cr) /\ Fetch(at(cr)) # cr

ContentIInv == NullsOnly /\ ConstructionsInOrder /\ PlacesSound /\ TaskInHand /\ TasksKept

LEMMA WordsStay ==
  ASSUME [Next]_vars
  PROVE  words' = words
BY DEF Next, Pusher, Worker, Push, PushDies, CountAfterPush, Post, CheckEmpty, Wait, Front,
       PushFromRun, RunReturns, Pop, Destroy, Clear, DrainPusher, DrainWorker, vars

LEMMA PlaceOf ==
  ASSUME QueueGeometry, Prepared, NEW v \in Index
  PROVE  at(v) \in Places /\ at(v) # Wild
<1>1. v % Capacity \in Slots
  BY DEF Index, Slots, QueueGeometry
<1> QED BY <1>1, ConstantsAssumption DEF Prepared, at

(* Indices within one Capacity have places of their own. *)
LEMMA PlacesDiffer ==
  ASSUME QueueGeometry, Prepared, NEW a \in Index, NEW p \in Index, NEW q \in Index,
         Distance(a, p) < Capacity, Distance(a, q) < Capacity, at(p) = at(q)
  PROVE  p = q
<1>1. p % Capacity \in Slots /\ q % Capacity \in Slots
  BY DEF Index, Slots, QueueGeometry
<1>2. p % Capacity = q % Capacity
  BY <1>1 DEF Prepared, at
<1> QED BY <1>2, SlotsDiffer

LEMMA PreviousFacts ==
  ASSUME QueueGeometry, cr \in Index
  PROVE  /\ Previous \in Index /\ Distance(Previous, Previous) = 0
         /\ \A x \in Index : Ahead(x) + 1 < IndexRange => Distance(Previous, x) = Ahead(x) + 1
BY DEF QueueGeometry, Previous, Wrap, Index, Ahead, Distance

(* A task whose construction is under way, in the words of the property. *)
LEMMA ConstructingIs ==
  ASSUME QueueGeometry, QueueIInv, ConstructionsInOrder, NEW v \in Index, Constructing(v)
  PROVE  UnderConstruction(v)
<1>1. PICK i \in 1 .. Len(pbuf) : ~Publishes(pbuf[i]) /\ pbuf[i].val = v
  BY DEF Constructing
<1>2. pbuf[i].to = at(v) /\ pbuf[i] \in Store
  BY <1>1, PendingFacts DEF ConstructionsInOrder
<1>3. pbuf[i] = [to |-> at(v), val |-> v]
  BY <1>1, <1>2 DEF Store
<1>4. i \in DOMAIN pbuf
  BY QueueFacts
<1> QED BY <1>3, <1>4 DEF UnderConstruction

LEMMA NulledIs ==
  ASSUME cbuf \in Seq(WorkerStore), NEW q
  PROVE  Nulled(q) <=> \E i \in 1 .. Len(cbuf) : cbuf[i].to = q
<1>1. DOMAIN cbuf = 1 .. Len(cbuf)
  OBVIOUS
<1> QED BY <1>1 DEF Nulled

(* Steps that move no task and no count. *)
LEMMA ContentFrame ==
  ASSUME ContentIInv, UNCHANGED <<pw, cr, pbuf, words, lost>>,
         \A q \in Places \cup {Wild} : Fetch(q)' = Fetch(q), QueueGeometry, QueueIInv
  PROVE  /\ ConstructionsInOrder'
         /\ \A v : at(v)' = at(v) /\ Ahead(v)' = Ahead(v) /\ (Constructed(v)' <=> Constructed(v))
         /\ \A v \in Index : Fetch(at(v))' = Fetch(at(v)) /\ (Kept(v)' <=> Kept(v))
         /\ Previous' = Previous /\ Ahead(pw)' = Ahead(pw) /\ (Prepared' <=> Prepared)
<1>1. \A v : at(v)' = at(v) /\ Ahead(v)' = Ahead(v)
  BY DEF at, Ahead
<1>2. \A v : Constructed(v)' <=> Constructed(v)
  BY <1>1 DEF Constructed, Publishes, Ahead
<1>3. \A v : Constructing(v)' <=> Constructing(v)
  BY DEF Constructing, Publishes
<1>4. ConstructionsInOrder'
  BY DEF ContentIInv, ConstructionsInOrder, Publishes, Ahead, at
<1>5. ASSUME NEW v \in Index PROVE Fetch(at(v))' = Fetch(at(v)) /\ (Kept(v)' <=> Kept(v))
  <2>1. at(v) \in Places \cup {Wild}
    BY AtType DEF QueueIInv
  <2>2. Fetch(at(v))' = Fetch(at(v))
    <3>1. PICK q \in Places \cup {Wild} : q = at(v)
      BY <2>1
    <3>2. at(v)' = q
      BY <1>1, <3>1
    <3> QED BY <3>1, <3>2 DEF Fetch, Nulled
  <2> QED BY <1>3, <2>2 DEF Kept
<1>6. Previous' = Previous /\ Ahead(pw)' = Ahead(pw) /\ (Prepared' <=> Prepared)
  BY DEF Previous, Ahead, Prepared
<1> QED BY <1>1, <1>2, <1>4, <1>5, <1>6

(* The nulls that reach memory change nothing for the worker. *)
LEMMA DrainWorkerUnseen ==
  ASSUME QueueGeometry, QueueIInv, NullsOnly, DrainWorker
  PROVE  /\ NullsOnly'
         /\ \A q \in Places \cup {Wild} : Fetch(q)' = Fetch(q)
<1>1. /\ 1 \in 1 .. Len(cbuf) /\ cbuf' \in Seq(WorkerStore) /\ Len(cbuf') = Len(cbuf) - 1
      /\ \A i \in 1 .. Len(cbuf') : i + 1 \in 1 .. Len(cbuf) /\ cbuf'[i] = cbuf[i + 1]
      /\ cbuf[1] \in WorkerStore
      /\ place' = IF cbuf[1].to \in Places
                    THEN [place EXCEPT ![cbuf[1].to] = cbuf[1].val] ELSE place
  BY DrainWorkerFacts
<1>2. cbuf \in Seq(WorkerStore) /\ Len(cbuf) \in Nat /\ place \in [Places -> Index \cup {Garbage}]
  BY QueueFacts DEF QueueIInv, TypeOK
<1>3. NullsOnly'
  BY <1>1 DEF NullsOnly, Retires
<1>4. ASSUME NEW q \in Places \cup {Wild} PROVE Fetch(q)' = Fetch(q)
  <2>1. Nulled(q) <=> \E i \in 1 .. Len(cbuf) : cbuf[i].to = q
    BY <1>2, NulledIs
  <2>2. Nulled(q)' <=> \E i \in 1 .. Len(cbuf') : cbuf'[i].to = q
    <3>1. DOMAIN cbuf' = 1 .. Len(cbuf')
      BY <1>1
    <3> QED BY <3>1 DEF Nulled
  <2>3. Nulled(q) <=> cbuf[1].to = q \/ Nulled(q)'
    <3>1. ASSUME NEW i \in 1 .. Len(cbuf), i # 1 PROVE i - 1 \in 1 .. Len(cbuf') /\ cbuf'[i - 1] = cbuf[i]
      <4>1. i - 1 \in 1 .. Len(cbuf') /\ (i - 1) + 1 = i
        BY <1>1, <1>2, <3>1
      <4> QED BY <1>1, <4>1
    <3>2. ASSUME NEW i \in 1 .. Len(cbuf') PROVE \E j \in 1 .. Len(cbuf) : cbuf'[i] = cbuf[j]
      BY <1>1
    <3> QED BY <1>1, <2>1, <2>2, <3>1, <3>2
  <2>4. CASE q = Wild
    BY <2>4 DEF Fetch
  <2>5. CASE q \in Places /\ cbuf[1].to = q
    <3>1. ~Retires(cbuf[1])
      BY <2>5, ConstantsAssumption DEF Retires
    <3>2. cbuf[1].val = Garbage
      BY <1>1, <3>1 DEF NullsOnly
    <3>3. place'[q] = Garbage
      BY <1>1, <1>2, <2>5, <3>2
    <3> QED BY <2>3, <2>5, <3>3, ConstantsAssumption DEF Fetch
  <2>6. CASE q \in Places /\ cbuf[1].to # q
    <3>1. place'[q] = place[q]
      BY <1>1, <1>2, <2>6
    <3> QED BY <2>3, <2>6, <3>1 DEF Fetch
  <2> QED BY <2>4, <2>5, <2>6
<1> QED BY <1>3, <1>4

(* Steps that move neither a task nor, but for front, the one in hand. *)
LEMMA ContentQuiet ==
  ASSUME QueueGeometry, QueueIInv, ContentIInv,
         CountAfterPush \/ Post \/ CheckEmpty \/ Wait \/ DrainWorker
           \/ (\E result \in BOOLEAN : RunReturns(result)) \/ UNCHANGED vars
  PROVE  ContentIInv'
<1>1. UNCHANGED <<pw, cr, pbuf, words, lost, task>>
  BY DEF CountAfterPush, Post, CheckEmpty, Wait, DrainWorker, RunReturns, vars, pushing, working
<1>2. NullsOnly' /\ \A q \in Places \cup {Wild} : Fetch(q)' = Fetch(q)
  <2>1. CASE DrainWorker
    BY <2>1, DrainWorkerUnseen DEF ContentIInv
  <2>2. CASE \/ CountAfterPush \/ Post \/ CheckEmpty \/ Wait
             \/ (\E result \in BOOLEAN : RunReturns(result)) \/ UNCHANGED vars
    <3>1. UNCHANGED <<cbuf, place>>
      BY <2>2 DEF CountAfterPush, Post, CheckEmpty, Wait, RunReturns, vars, pushing, working
    <3> QED BY <3>1 DEF ContentIInv, NullsOnly, Retires, Fetch, Nulled
  <2> QED BY <2>1, <2>2
<1>3. /\ ConstructionsInOrder'
      /\ \A v : at(v)' = at(v) /\ Ahead(v)' = Ahead(v) /\ (Constructed(v)' <=> Constructed(v))
      /\ \A v \in Index : Fetch(at(v))' = Fetch(at(v)) /\ (Kept(v)' <=> Kept(v))
      /\ Previous' = Previous /\ Ahead(pw)' = Ahead(pw) /\ (Prepared' <=> Prepared)
  BY <1>1, <1>2, ContentFrame
<1>4. /\ wpc' \in {"run", "pop"} => wpc \in {"run", "pop"}
      /\ wpc' = "destroy" <=> wpc = "destroy"
      /\ wpc' = "dead" => wpc = "dead"
      /\ wpc' \in {"gone", "dead"} <=> wpc \in {"gone", "dead"}
  BY DEF CountAfterPush, Post, CheckEmpty, Wait, DrainWorker, RunReturns, vars, pushing, working
<1>5. cr \in Index
  BY QueueFacts
<1>6. PlacesSound'
  <2>1. SUFFICES ASSUME wpc' \notin {"gone", "dead"}, NEW q \in Places, NEW v \in Index, Fetch(q)' = v
                 PROVE  /\ at(v)' = q
                        /\ \/ Ahead(v)' < Ahead(pw)' /\ Constructed(v)'
                           \/ wpc' = "destroy" /\ v = Previous'
    BY DEF PlacesSound
  <2>2. Fetch(q) = v /\ wpc \notin {"gone", "dead"}
    BY <1>2, <1>4, <2>1
  <2> QED BY <1>3, <1>4, <2>2 DEF ContentIInv, PlacesSound
<1>7. TaskInHand'
  <2>1. ASSUME wpc' \in {"run", "pop"}
        PROVE  task \in Index /\ at(task) = at(cr) /\ Ahead(task) < Ahead(pw) /\ Constructed(task)
    BY <1>4, <2>1 DEF ContentIInv, TaskInHand
  <2>2. PICK t, c : t = task /\ c = cr
    OBVIOUS
  <2>3. /\ at(task)' = at(t)' /\ at(cr)' = at(c)' /\ Ahead(task)' = Ahead(t)'
        /\ Constructed(task)' = Constructed(t)'
    BY <1>1, <2>2 DEF at, Ahead, Constructed
  <2> QED BY <1>1, <1>3, <2>1, <2>2, <2>3 DEF TaskInHand
<1>8. TasksKept'
  <2>1. SUFFICES ASSUME Prepared
                 PROVE  /\ wpc' \in {"run", "pop"} => task' = cr' /\ Fetch(at(cr))' = cr'
                        /\ wpc' = "destroy" => /\ task' = Previous'
                                               /\ Ahead(pw)' < Capacity => Fetch(at(Previous))' = Previous'
                        /\ \A v \in Index : Ahead(v)' < Ahead(pw)' => Kept(v)'
                        /\ wpc' = "dead" => Kept(cr)' /\ Fetch(at(cr))' # cr'
    BY <1>3 DEF TasksKept
  <2>2. PICK c \in Index, p \in Index : c = cr /\ p = Previous
    BY <1>5, PreviousFacts
  <2>3. /\ Fetch(at(cr))' = Fetch(at(c))' /\ Fetch(at(Previous))' = Fetch(at(p))'
        /\ Kept(cr)' = Kept(c)'
    BY <1>1, <1>3, <2>2 DEF at, Fetch, Nulled, Kept, Constructing
  <2> QED BY <1>1, <1>3, <1>4, <2>1, <2>2, <2>3 DEF ContentIInv, TasksKept
<1> QED BY <1>2, <1>3, <1>6, <1>7, <1>8 DEF ContentIInv

(* Steps that leave the storage and the nulls on their way to it alone. *)
LEMMA PlacesAlone ==
  ASSUME UNCHANGED <<words, place, cbuf>>
  PROVE  /\ \A v : at(v)' = at(v)
         /\ \A q : Fetch(q)' = Fetch(q)
         /\ \A v : Fetch(at(v))' = Fetch(at(v))
BY DEF at, Fetch, Nulled

(* push: a construction after all the others, and nothing moves yet. *)
LEMMA ContentPush ==
  ASSUME QueueGeometry, QueueIInv, ContentIInv, Push
  PROVE  ContentIInv'
<1>1. /\ pw' = Wrap(pw + 1) /\ ~full(ridx, pw) /\ wpc \notin {"gone", "dead"}
      /\ UNCHANGED <<words, place, cbuf, cr, wpc, task, lost>>
  BY DEF Push, working, Alive
<1>2. /\ Len(pbuf') = Len(pbuf) + 2
      /\ \A i \in 1 .. Len(pbuf) : pbuf'[i] = pbuf[i]
      /\ pbuf'[Len(pbuf) + 1] = [to |-> Widx, val |-> pw']
      /\ pbuf'[Len(pbuf) + 2] = [to |-> at(pw), val |-> pw]
      /\ at(pw) \in Places /\ at(pw) # Widx
  BY PushedBuffer
<1>3. /\ pw \in Index /\ cr \in Index /\ Ahead(pw) \in Nat /\ Len(pbuf) \in Nat
      /\ IndexRange \in Nat /\ Capacity \in Nat /\ Held \in Nat
  BY QueueFacts
<1>4. Ahead(pw) + 1 <= Capacity /\ Ahead(pw)' = Ahead(pw) + 1
  <2>1. Ahead(pw) + 1 <= Capacity /\ Ahead(pw) + 1 < IndexRange
    <3>1. Held + Ahead(pw) # Capacity
      BY <1>1, CountsFromMemory DEF full
    <3> QED BY <1>3, <3>1, QueueFacts
  <2> QED BY <1>1, <1>3, <2>1, DistanceForward DEF Ahead
<1>5. PICK n \in Nat : n = Len(pbuf)
  BY <1>3
<1>6. /\ \A i \in 1 .. Len(pbuf') : ~Publishes(pbuf'[i]) =>
           \/ i \in 1 .. n /\ pbuf'[i] = pbuf[i] /\ ~Publishes(pbuf[i])
           \/ i = n + 2
      /\ pbuf'[n + 2] = [to |-> at(pw), val |-> pw] /\ ~Publishes(pbuf'[n + 2])
      /\ n + 2 \in 1 .. Len(pbuf')
      /\ \A i \in 1 .. n : i \in 1 .. Len(pbuf') /\ pbuf'[i] = pbuf[i] /\ i < n + 2
  <2>1. \A i \in 1 .. Len(pbuf') : i \in 1 .. n \/ i = n + 1 \/ i = n + 2
    BY <1>2, <1>5
  <2>2. Publishes(pbuf'[n + 1]) /\ ~Publishes(pbuf'[n + 2])
    BY <1>2, <1>5 DEF Publishes
  <2> QED BY <1>2, <1>5, <2>1, <2>2
<1>7. /\ \A v : at(v)' = at(v) /\ Ahead(v)' = Ahead(v)
      /\ \A q : Fetch(q)' = Fetch(q)
      /\ \A v : Fetch(at(v))' = Fetch(at(v))
  BY <1>1, PlacesAlone DEF Ahead
<1>8. \A v : Ahead(v) < Ahead(pw) /\ Constructed(v) => Constructed(v)'
  <2>1. ASSUME NEW v, Ahead(v) < Ahead(pw), Constructed(v), NEW i \in 1 .. Len(pbuf'),
               ~Publishes(pbuf'[i])
        PROVE  Ahead(v) < Distance(cr', pbuf'[i].val)
    <3>1. CASE i \in 1 .. n /\ pbuf'[i] = pbuf[i] /\ ~Publishes(pbuf[i])
      BY <1>1, <1>5, <2>1, <3>1 DEF Constructed, Ahead
    <3>2. CASE i = n + 2
      BY <1>1, <1>6, <2>1, <3>2 DEF Ahead
    <3> QED BY <1>6, <2>1, <3>1, <3>2
  <2> QED BY <1>7, <2>1 DEF Constructed, Publishes, Ahead
<1>9. \A v : Kept(v) => Kept(v)'
  <2>1. \A v : Constructing(v) => Constructing(v)'
    BY <1>5, <1>6 DEF Constructing, Publishes
  <2> QED BY <1>1, <1>7, <2>1 DEF Kept
<1>10. NullsOnly'
  BY <1>1 DEF ContentIInv, NullsOnly, Retires
<1>11. ConstructionsInOrder'
  <2>1. ASSUME NEW i \in 1 .. Len(pbuf'), ~Publishes(pbuf'[i])
        PROVE  /\ pbuf'[i].to = at(pbuf'[i].val) /\ at(pbuf'[i].val) \in Places
               /\ Distance(cr', pbuf'[i].val) < Ahead(pw) + 1
               /\ Distance(cr', pbuf'[i].val) = Ahead(pw) \/ i \in 1 .. n
    <3>1. CASE i \in 1 .. n /\ pbuf'[i] = pbuf[i] /\ ~Publishes(pbuf[i])
      <4>1. /\ pbuf[i].to = at(pbuf[i].val) /\ at(pbuf[i].val) \in Places
            /\ Ahead(pbuf[i].val) < Ahead(pw) /\ Ahead(pbuf[i].val) \in Nat
        BY <1>5, <3>1, PendingFacts DEF ContentIInv, ConstructionsInOrder
      <4> QED BY <1>1, <1>3, <3>1, <4>1 DEF Ahead
    <3>2. CASE i = n + 2
      <4>1. Distance(cr', pbuf'[i].val) = Ahead(pw)
        BY <1>1, <1>6, <3>2 DEF Ahead
      <4> QED BY <1>2, <1>3, <1>6, <3>2, <4>1
    <3> QED BY <1>6, <2>1, <3>1, <3>2
  <2>2. ASSUME NEW i \in 1 .. Len(pbuf'), NEW j \in 1 .. Len(pbuf'), i < j,
               ~Publishes(pbuf'[i]), ~Publishes(pbuf'[j])
        PROVE  Distance(cr', pbuf'[i].val) < Distance(cr', pbuf'[j].val)
    <3>1. i \in 1 .. n /\ pbuf'[i] = pbuf[i] /\ ~Publishes(pbuf[i])
      BY <1>2, <1>5, <1>6, <2>2
    <3>2. CASE j \in 1 .. n /\ pbuf'[j] = pbuf[j] /\ ~Publishes(pbuf[j])
      BY <1>1, <1>5, <2>2, <3>1, <3>2 DEF ContentIInv, ConstructionsInOrder, Ahead
    <3>3. CASE j = n + 2
      <4>1. Ahead(pbuf[i].val) < Ahead(pw)
        BY <1>5, <3>1 DEF ContentIInv, ConstructionsInOrder
      <4> QED BY <1>1, <1>6, <3>1, <3>3, <4>1 DEF Ahead
    <3> QED BY <1>6, <2>2, <3>2, <3>3
  <2> QED BY <1>1, <1>4, <1>7, <2>1, <2>2 DEF ConstructionsInOrder, Publishes, Ahead, at
<1>12. PlacesSound'
  <2>1. SUFFICES ASSUME NEW q \in Places, NEW v \in Index, Fetch(q)' = v
                 PROVE  /\ at(v)' = q
                        /\ \/ Ahead(v)' < Ahead(pw)' /\ Constructed(v)'
                           \/ wpc' = "destroy" /\ v = Previous'
    BY DEF PlacesSound
  <2>2. /\ at(v) = q
        /\ \/ Ahead(v) < Ahead(pw) /\ Constructed(v)
           \/ wpc = "destroy" /\ v = Previous
    BY <1>1, <1>7, <2>1 DEF ContentIInv, PlacesSound
  <2>3. Previous' = Previous
    BY <1>1 DEF Previous
  <2>4. CASE Ahead(v) < Ahead(pw) /\ Constructed(v)
    <3>1. Ahead(v) \in Nat
      BY <1>3, DistanceType DEF Ahead
    <3>2. Ahead(v)' < Ahead(pw)'
      BY <1>3, <1>4, <1>7, <2>4, <3>1
    <3> QED BY <1>7, <1>8, <2>2, <2>4, <3>2
  <2> QED BY <1>1, <1>7, <2>2, <2>3, <2>4
<1>13. TaskInHand'
  <2>1. SUFFICES ASSUME wpc' \in {"run", "pop"}
                 PROVE  /\ task' \in Index /\ at(task)' = at(cr)' /\ Ahead(task)' < Ahead(pw)'
                        /\ Constructed(task)'
    BY DEF TaskInHand
  <2>2. task \in Index /\ at(task) = at(cr) /\ Ahead(task) < Ahead(pw) /\ Constructed(task)
    BY <1>1, <2>1 DEF ContentIInv, TaskInHand
  <2>3. PICK t \in Index, c \in Index : t = task /\ c = cr
    BY <1>3, <2>2 DEF TypeOK
  <2>4. /\ at(task)' = at(t)' /\ at(cr)' = at(c)' /\ Ahead(task)' = Ahead(t)'
        /\ Constructed(task)' = Constructed(t)'
    BY <1>1, <2>3 DEF at, Ahead, Constructed
  <2>5. Ahead(t) \in Nat
    BY <1>3, DistanceType DEF Ahead
  <2> QED BY <1>1, <1>3, <1>4, <1>7, <1>8, <2>2, <2>3, <2>4, <2>5
<1>14. TasksKept'
  <2>1. SUFFICES ASSUME Prepared
                 PROVE  /\ wpc' \in {"run", "pop"} => task' = cr' /\ Fetch(at(cr))' = cr'
                        /\ wpc' = "destroy" => /\ task' = Previous'
                                               /\ Ahead(pw)' < Capacity => Fetch(at(Previous))' = Previous'
                        /\ \A v \in Index : Ahead(v)' < Ahead(pw)' => Kept(v)'
                        /\ wpc' = "dead" => Kept(cr)' /\ Fetch(at(cr))' # cr'
    BY <1>1 DEF TasksKept, Prepared
  <2>2. PICK c \in Index, p \in Index : c = cr /\ p = Previous
    BY <1>3, PreviousFacts
  <2>3. Fetch(at(cr))' = Fetch(at(c))' /\ Fetch(at(Previous))' = Fetch(at(p))' /\ Previous' = Previous
    BY <1>1, <2>2 DEF at, Fetch, Nulled, Previous
  <2>4. ASSUME NEW v \in Index, Ahead(v)' < Ahead(pw)' PROVE Kept(v)'
    <3>1. Ahead(v) < Ahead(pw) + 1 /\ Ahead(v) \in Nat
      BY <1>3, <1>4, <1>7, <2>4, DistanceType DEF Ahead
    <3>2. CASE v = pw
      <4>1. Constructing(v)'
        BY <1>6, <3>2 DEF Constructing, Publishes
      <4> QED BY <4>1 DEF Kept
    <3>3. CASE v # pw
      <4>1. Ahead(v) # Ahead(pw)
        BY <1>3, <3>3, DistanceInjective DEF Ahead
      <4>2. Ahead(v) < Ahead(pw)
        BY <1>3, <3>1, <4>1
      <4> QED BY <1>9, <2>1, <4>2 DEF ContentIInv, TasksKept
    <3> QED BY <3>2, <3>3
  <2>5. Ahead(pw)' < Capacity => Ahead(pw) < Capacity
    BY <1>3, <1>4
  <2> QED BY <1>1, <1>7, <2>1, <2>2, <2>3, <2>4, <2>5 DEF ContentIInv, TasksKept
<1> QED BY <1>10, <1>11, <1>12, <1>13, <1>14 DEF ContentIInv

(* A store of push reaches memory: the place of a construction then holds  *)
(* its task, for the worker only when no null is still on its way there.   *)
LEMMA ContentDrainPusher ==
  ASSUME QueueGeometry, QueueIInv, ContentIInv, DrainPusher
  PROVE  ContentIInv'
<1>1. /\ 1 \in 1 .. Len(pbuf) /\ Len(pbuf') = Len(pbuf) - 1
      /\ \A i \in 1 .. Len(pbuf') : i + 1 \in 1 .. Len(pbuf) /\ pbuf'[i] = pbuf[i + 1]
      /\ place' = IF pbuf[1].to \in Places
                    THEN [place EXCEPT ![pbuf[1].to] = pbuf[1].val] ELSE place
      /\ lost' = IF Nulled(pbuf[1].to) THEN lost \cup {pbuf[1].val} ELSE lost
      /\ UNCHANGED <<words, pw, cr, cbuf, wpc, task>>
      /\ wpc # "dead"
  BY DrainPusherFacts DEF DrainPusher, Alive
<1>2. /\ pw \in Index /\ cr \in Index /\ Ahead(pw) \in Nat /\ Len(pbuf) \in Nat
      /\ IndexRange \in Nat /\ Capacity \in Nat /\ Capacity < IndexRange /\ Ahead(pw) <= Capacity
      /\ place \in [Places -> Index \cup {Garbage}] /\ cbuf \in Seq(WorkerStore)
  BY QueueFacts DEF QueueIInv, TypeOK
<1>3. PICK s : s = pbuf[1]
  OBVIOUS
<1>4. s \in Store /\ s.val \in Index /\ Ahead(s.val) \in Nat
  BY <1>1, <1>3, PendingFacts
<1>5. /\ \A v : at(v)' = at(v) /\ Ahead(v)' = Ahead(v)
      /\ \A q : Nulled(q)' <=> Nulled(q)
      /\ Previous' = Previous /\ (Prepared' <=> Prepared) /\ Ahead(pw)' = Ahead(pw)
  BY <1>1 DEF at, Ahead, Nulled, Previous, Prepared
<1>6. \A i \in 1 .. Len(pbuf) : i = 1 \/ (i - 1 \in 1 .. Len(pbuf') /\ pbuf'[i - 1] = pbuf[i])
  <2>1. ASSUME NEW i \in 1 .. Len(pbuf), i # 1
        PROVE  i - 1 \in 1 .. Len(pbuf') /\ pbuf'[i - 1] = pbuf[i]
    <3>1. i - 1 \in 1 .. Len(pbuf') /\ (i - 1) + 1 = i
      BY <1>1, <1>2, <2>1
    <3> QED BY <1>1, <3>1
  <2> QED BY <2>1
<1>7. \A v : Constructed(v) => Constructed(v)'
  BY <1>1, <1>5 DEF Constructed, Publishes, Ahead
<1>8. \A v : Constructing(v) => Constructing(v)' \/ (~Publishes(s) /\ v = s.val)
  BY <1>3, <1>6 DEF Constructing, Publishes
<1>9. NullsOnly'
  BY <1>1 DEF ContentIInv, NullsOnly, Retires
<1>10. ConstructionsInOrder'
  <2>1. ASSUME NEW i \in 1 .. Len(pbuf'), ~Publishes(pbuf'[i])
        PROVE  /\ pbuf'[i].to = at(pbuf'[i].val) /\ at(pbuf'[i].val) \in Places
               /\ Ahead(pbuf'[i].val) < Ahead(pw)
    BY <1>1, <2>1 DEF ContentIInv, ConstructionsInOrder
  <2>2. ASSUME NEW i \in 1 .. Len(pbuf'), NEW j \in 1 .. Len(pbuf'), i < j,
               ~Publishes(pbuf'[i]), ~Publishes(pbuf'[j])
        PROVE  Ahead(pbuf'[i].val) < Ahead(pbuf'[j].val)
    <3>1. /\ i + 1 \in 1 .. Len(pbuf) /\ pbuf'[i] = pbuf[i + 1]
          /\ j + 1 \in 1 .. Len(pbuf) /\ pbuf'[j] = pbuf[j + 1] /\ i + 1 < j + 1
      BY <1>1, <2>2
    <3> QED BY <2>2, <3>1 DEF ContentIInv, ConstructionsInOrder
  <2> QED BY <1>1, <1>5, <2>1, <2>2 DEF ConstructionsInOrder, Publishes, Ahead, at
<1>11. /\ \A q \in Places : Fetch(q)' = Fetch(q) \/ (~Publishes(s) /\ q = s.to /\ Fetch(q)' = s.val)
       /\ ~Publishes(s) => Fetch(s.to)' = s.val \/ s.val \in lost'
       /\ lost \subseteq lost'
       /\ Fetch(Wild)' = Fetch(Wild)
  <2>1. lost \subseteq lost' /\ Fetch(Wild)' = Fetch(Wild)
    BY <1>1 DEF Fetch
  <2>2. CASE Publishes(s)
    <3>1. s.to \notin Places
      BY <2>2, ConstantsAssumption DEF Publishes
    <3>2. place' = place
      BY <1>1, <1>3, <3>1
    <3> QED BY <1>5, <2>1, <2>2, <3>2 DEF Fetch
  <2>3. CASE ~Publishes(s)
    <3>1. s.to \in Places
      BY <1>1, <1>3, <2>3 DEF ContentIInv, ConstructionsInOrder
    <3>2. place' = [place EXCEPT ![s.to] = s.val]
      BY <1>1, <1>3, <3>1
    <3>3. \A q \in Places : place'[q] = IF q = s.to THEN s.val ELSE place[q]
      BY <1>2, <3>2
    <3>4. \A q \in Places : q # Wild
      BY ConstantsAssumption
    <3>5. \A q \in Places : Fetch(q) = IF Nulled(q) THEN Garbage ELSE place[q]
      BY <3>4 DEF Fetch
    <3>6. \A q \in Places : Fetch(q)' = IF Nulled(q) THEN Garbage ELSE place'[q]
      BY <1>5, <3>4 DEF Fetch
    <3>7. Nulled(s.to) => s.val \in lost'
      BY <1>1, <1>3
    <3> QED BY <2>1, <2>3, <3>1, <3>3, <3>5, <3>6, <3>7
  <2> QED BY <2>2, <2>3
<1>12. ~Publishes(s) =>
          /\ s.to = at(s.val) /\ s.to \in Places /\ Ahead(s.val) < Ahead(pw)
          /\ Constructed(s.val)'
          /\ \A v : Constructed(v) => Ahead(v) < Ahead(s.val)
  <2>1. SUFFICES ASSUME ~Publishes(s)
                 PROVE  /\ s.to = at(s.val) /\ s.to \in Places /\ Ahead(s.val) < Ahead(pw)
                        /\ Constructed(s.val)'
                        /\ \A v : Constructed(v) => Ahead(v) < Ahead(s.val)
    OBVIOUS
  <2>2. s.to = at(s.val) /\ s.to \in Places /\ Ahead(s.val) < Ahead(pw)
    BY <1>1, <1>3, <2>1 DEF ContentIInv, ConstructionsInOrder
  <2>3. ASSUME NEW i \in 1 .. Len(pbuf'), ~Publishes(pbuf'[i])
        PROVE  Ahead(s.val) < Ahead(pbuf'[i].val)
    <3>1. i + 1 \in 1 .. Len(pbuf) /\ pbuf'[i] = pbuf[i + 1] /\ 1 < i + 1
      BY <1>1, <2>3
    <3> QED BY <1>1, <1>3, <2>1, <2>3, <3>1 DEF ContentIInv, ConstructionsInOrder
  <2>4. Constructed(s.val)'
    <3>1. PICK u : u = s.val
      OBVIOUS
    <3>2. Constructed(u)'
      BY <1>5, <2>3, <3>1 DEF Constructed, Publishes, Ahead
    <3> QED BY <3>1, <3>2 DEF Constructed
  <2>5. \A v : Constructed(v) => Ahead(v) < Ahead(s.val)
    BY <1>1, <1>3, <2>1 DEF Constructed
  <2> QED BY <2>2, <2>4, <2>5
<1>13. PlacesSound'
  <2>1. SUFFICES ASSUME wpc' \notin {"gone", "dead"}, NEW q \in Places, NEW v \in Index, Fetch(q)' = v
                 PROVE  /\ at(v)' = q
                        /\ \/ Ahead(v)' < Ahead(pw)' /\ Constructed(v)'
                           \/ wpc' = "destroy" /\ v = Previous'
    BY DEF PlacesSound
  <2>2. CASE Fetch(q) = v
    <3>1. /\ at(v) = q
          /\ \/ Ahead(v) < Ahead(pw) /\ Constructed(v)
             \/ wpc = "destroy" /\ v = Previous
      BY <1>1, <2>1, <2>2 DEF ContentIInv, PlacesSound
    <3> QED BY <1>1, <1>5, <1>7, <3>1
  <2>3. CASE ~Publishes(s) /\ q = s.to /\ v = s.val
    BY <1>5, <1>12, <2>3
  <2> QED BY <1>11, <2>1, <2>2, <2>3
<1>14. TaskInHand'
  <2>1. SUFFICES ASSUME wpc' \in {"run", "pop"}
                 PROVE  /\ task' \in Index /\ at(task)' = at(cr)' /\ Ahead(task)' < Ahead(pw)'
                        /\ Constructed(task)'
    BY DEF TaskInHand
  <2>2. task \in Index /\ at(task) = at(cr) /\ Ahead(task) < Ahead(pw) /\ Constructed(task)
    BY <1>1, <2>1 DEF ContentIInv, TaskInHand
  <2>3. PICK t \in Index, c \in Index : t = task /\ c = cr
    BY <1>2, <2>2
  <2>4. /\ at(task)' = at(t)' /\ at(cr)' = at(c)' /\ Ahead(task)' = Ahead(t)'
        /\ Constructed(task)' = Constructed(t)'
    BY <1>1, <2>3 DEF at, Ahead, Constructed
  <2> QED BY <1>1, <1>5, <1>7, <2>2, <2>3, <2>4
<1>15. TasksKept'
  <2>1. SUFFICES ASSUME Prepared
                 PROVE  /\ wpc' \in {"run", "pop"} => task' = cr' /\ Fetch(at(cr))' = cr'
                        /\ wpc' = "destroy" => /\ task' = Previous'
                                               /\ Ahead(pw)' < Capacity => Fetch(at(Previous))' = Previous'
                        /\ \A v \in Index : Ahead(v)' < Ahead(pw)' => Kept(v)'
                        /\ wpc' = "dead" => Kept(cr)' /\ Fetch(at(cr))' # cr'
    BY <1>5 DEF TasksKept
  <2>2. PICK c \in Index, p \in Index : c = cr /\ p = Previous
    BY <1>2, PreviousFacts
  <2>3. Fetch(at(cr))' = Fetch(at(c))' /\ Fetch(at(Previous))' = Fetch(at(p))'
    BY <1>1, <1>5, <2>2 DEF at, Fetch, Nulled
  <2>4. ASSUME NEW v \in Index
        PROVE  /\ at(v) \in Places
               /\ Fetch(at(v))' = Fetch(at(v)) \/ (~Publishes(s) /\ at(v) = at(s.val) /\ Fetch(at(v))' = s.val)
    <3>1. at(v) \in Places
      BY <2>1, PlaceOf
    <3>2. PICK q \in Places : q = at(v)
      BY <3>1
    <3>3. Fetch(at(v))' = Fetch(q)'
      BY <1>5, <3>2 DEF Fetch, Nulled
    <3> QED BY <1>11, <1>12, <3>2, <3>3
  <2>5. ASSUME NEW v \in Index, Distance(c, v) < Capacity, ~Publishes(s), at(v) = at(s.val)
        PROVE  v = s.val
    BY <1>2, <1>4, <1>12, <2>1, <2>2, <2>5, PlacesDiffer DEF Ahead
  <2>6. wpc' \in {"run", "pop"} => task' = cr' /\ Fetch(at(cr))' = cr'
    <3>1. SUFFICES ASSUME wpc \in {"run", "pop"} PROVE Fetch(at(c))' = c /\ task' = c
      BY <1>1, <2>2, <2>3
    <3>2. task = c /\ Fetch(at(c)) = c /\ Constructed(c)
      BY <2>1, <2>2, <3>1 DEF ContentIInv, TasksKept, TaskInHand
    <3>3. Distance(c, c) = 0 /\ 0 < Capacity
      BY <1>2, QueueFacts, DistanceType
    <3>4. ~(~Publishes(s) /\ at(c) = at(s.val))
      <4>1. ASSUME ~Publishes(s), at(c) = at(s.val) PROVE FALSE
        <5>1. c = s.val
          BY <2>5, <3>3, <4>1
        <5>2. Ahead(c) < Ahead(s.val)
          BY <1>12, <3>2, <4>1
        <5> QED BY <1>4, <5>1, <5>2
      <4> QED BY <4>1
    <3> QED BY <1>1, <2>4, <3>2, <3>4
  <2>7. wpc' = "destroy" => /\ task' = Previous'
                            /\ Ahead(pw)' < Capacity => Fetch(at(Previous))' = Previous'
    <3>1. SUFFICES ASSUME wpc = "destroy", Ahead(pw) < Capacity PROVE Fetch(at(p))' = p
      BY <1>1, <1>5, <2>1, <2>2, <2>3 DEF ContentIInv, TasksKept
    <3>2. Fetch(at(p)) = p
      BY <2>1, <2>2, <3>1 DEF ContentIInv, TasksKept
    <3>3. ~(~Publishes(s) /\ at(p) = at(s.val))
      <4>1. ASSUME ~Publishes(s), at(p) = at(s.val) PROVE FALSE
        <5>1. Ahead(s.val) + 1 < Capacity /\ Ahead(s.val) + 1 < IndexRange
          BY <1>2, <1>4, <1>12, <3>1, <4>1
        <5>2. Distance(p, s.val) = Ahead(s.val) + 1 /\ Distance(p, p) = 0
          BY <1>2, <1>4, <2>2, <5>1, PreviousFacts
        <5>3. p = s.val
          BY <1>2, <1>4, <2>1, <2>2, <4>1, <5>1, <5>2, PlacesDiffer, QueueFacts
        <5> QED BY <1>4, <5>2, <5>3
      <4> QED BY <4>1
    <3> QED BY <2>4, <3>2, <3>3
  <2>8. ASSUME NEW v \in Index, Ahead(v)' < Ahead(pw)' PROVE Kept(v)'
    <3>1. Ahead(v) < Ahead(pw) /\ Ahead(v) \in Nat
      BY <1>2, <1>5, <2>8, DistanceType DEF Ahead
    <3>2. Kept(v)
      BY <2>1, <3>1 DEF ContentIInv, TasksKept
    <3>3. CASE Fetch(at(v)) = v
      <4>1. CASE Fetch(at(v))' = Fetch(at(v))
        BY <3>3, <4>1 DEF Kept
      <4>2. CASE ~Publishes(s) /\ at(v) = at(s.val) /\ Fetch(at(v))' = s.val
        <5>1. Distance(c, v) < Capacity
          BY <1>2, <2>2, <3>1 DEF Ahead
        <5>2. v = s.val
          BY <2>5, <4>2, <5>1
        <5> QED BY <4>2, <5>2 DEF Kept
      <4> QED BY <2>4, <4>1, <4>2
    <3>4. CASE Constructing(v)
      <4>1. CASE Constructing(v)'
        BY <4>1 DEF Kept
      <4>2. CASE ~Publishes(s) /\ v = s.val
        <5>1. Fetch(at(v))' = Fetch(s.to)'
          BY <1>5, <1>12, <4>2 DEF Fetch, Nulled
        <5> QED BY <1>11, <4>2, <5>1 DEF Kept
      <4> QED BY <1>8, <3>4, <4>1, <4>2
    <3>5. CASE v \in lost
      BY <1>11, <3>5 DEF Kept
    <3> QED BY <3>2, <3>3, <3>4, <3>5 DEF Kept
  <2> QED BY <1>1, <2>6, <2>7, <2>8
<1> QED BY <1>9, <1>10, <1>13, <1>14, <1>15 DEF ContentIInv

(* A task pushed by the one that runs is in its place at once. *)
LEMMA ContentPushFromRun ==
  ASSUME QueueGeometry, QueueIInv, ContentIInv, PushFromRun, at(pw) # Wild
  PROVE  ContentIInv'
<1>1. /\ wpc = "run" /\ wpc' = "run" /\ pbuf = <<>> /\ cbuf = <<>> /\ ~full(cr, pw)
      /\ place' = [place EXCEPT ![at(pw)] = pw] /\ pw' = Wrap(pw + 1)
      /\ UNCHANGED <<words, cr, cbuf, pbuf, task, lost>>
  BY DEF PushFromRun
<1>2. /\ pw \in Index /\ cr \in Index /\ Ahead(pw) \in Nat /\ Ahead(pw) > 0
      /\ Len(pbuf) = 0 /\ Len(cbuf) = 0 /\ Ahead(pw) <= Capacity
      /\ IndexRange \in Nat /\ Capacity \in Nat /\ Capacity < IndexRange
      /\ place \in [Places -> Index \cup {Garbage}]
  BY <1>1, QueueFacts DEF QueueIInv, TypeOK, IndexOrder
<1>3. at(pw) \in Places
  BY <1>2, AtType DEF QueueIInv
<1>4. Ahead(pw) < Capacity /\ Ahead(pw)' = Ahead(pw) + 1
  <2>1. Ahead(pw) < Capacity
    BY <1>1, <1>2 DEF full, Ahead
  <2>2. Ahead(pw) + 1 < IndexRange
    BY <1>2, <2>1
  <2> QED BY <1>1, <1>2, <2>1, <2>2, DistanceForward DEF Ahead
<1>5. \A v : at(v)' = at(v) /\ Ahead(v)' = Ahead(v)
  BY <1>1 DEF at, Ahead
<1>6. /\ \A q \in Places : Fetch(q) = place[q] /\ Fetch(q)' = IF q = at(pw) THEN pw ELSE place[q]
      /\ Fetch(Wild)' = Fetch(Wild)
  <2>1. \A q : ~Nulled(q) /\ ~Nulled(q)'
    BY <1>1 DEF Nulled
  <2>2. \A q \in Places : place'[q] = IF q = at(pw) THEN pw ELSE place[q]
    BY <1>1, <1>2, <1>3
  <2> QED BY <2>1, <2>2, ConstantsAssumption DEF Fetch
<1>7. \A v : Constructed(v)' /\ ~Constructing(v)
  BY <1>1, <1>2 DEF Constructed, Constructing
<1>8. NullsOnly' /\ ConstructionsInOrder'
  BY <1>1, <1>2 DEF NullsOnly, ConstructionsInOrder
<1>9. ASSUME NEW v \in Index, Ahead(v) < Ahead(pw) PROVE Ahead(v)' < Ahead(pw)'
  BY <1>2, <1>4, <1>5, <1>9, DistanceType DEF Ahead
<1>10. PlacesSound'
  <2>1. SUFFICES ASSUME NEW q \in Places, NEW v \in Index, Fetch(q)' = v
                 PROVE  at(v)' = q /\ Ahead(v)' < Ahead(pw)' /\ Constructed(v)'
    BY DEF PlacesSound
  <2>2. CASE q = at(pw)
    <3>1. v = pw
      BY <1>6, <2>1, <2>2
    <3>2. Ahead(v)' < Ahead(pw)'
      BY <1>2, <1>4, <1>5, <3>1
    <3> QED BY <1>5, <1>7, <2>2, <3>1, <3>2
  <2>3. CASE q # at(pw)
    <3>1. at(v) = q /\ Ahead(v) < Ahead(pw)
      BY <1>1, <1>6, <2>1, <2>3 DEF ContentIInv, PlacesSound
    <3> QED BY <1>5, <1>7, <1>9, <3>1
  <2> QED BY <2>2, <2>3
<1>11. TaskInHand'
  <2>1. task \in Index /\ at(task) = at(cr) /\ Ahead(task) < Ahead(pw)
    BY <1>1 DEF ContentIInv, TaskInHand
  <2>2. PICK t \in Index, c \in Index : t = task /\ c = cr
    BY <1>2, <2>1
  <2>3. at(task)' = at(t)' /\ at(cr)' = at(c)' /\ Ahead(task)' = Ahead(t)' /\ Constructed(task)'
    BY <1>1, <1>2, <2>2 DEF at, Ahead, Constructed
  <2> QED BY <1>1, <1>5, <1>9, <2>1, <2>2, <2>3 DEF TaskInHand
<1>12. TasksKept'
  <2>1. SUFFICES ASSUME Prepared
                 PROVE  /\ task = cr /\ Fetch(at(cr))' = cr
                        /\ \A v \in Index : Ahead(v)' < Ahead(pw)' => Kept(v)'
    BY <1>1 DEF TasksKept, Prepared
  <2>2. PICK c \in Index : c = cr
    BY <1>2
  <2>3. ASSUME NEW v \in Index
        PROVE  /\ at(v) \in Places /\ Fetch(at(v)) = place[at(v)]
               /\ Fetch(at(v))' = IF at(v) = at(pw) THEN pw ELSE place[at(v)]
    <3>1. at(v) \in Places
      BY <2>1, PlaceOf
    <3>2. PICK q \in Places : q = at(v)
      BY <3>1
    <3>3. Fetch(at(v))' = Fetch(q)'
      BY <1>5, <3>2 DEF Fetch, Nulled
    <3> QED BY <1>6, <3>2, <3>3
  <2>4. ASSUME NEW v \in Index, Ahead(v) < Ahead(pw), at(v) = at(pw) PROVE FALSE
    <3>1. Distance(cr, v) < Capacity /\ Distance(cr, pw) < Capacity
      BY <1>2, <1>4, <2>4, DistanceType DEF Ahead
    <3>2. v = pw
      BY <1>2, <2>1, <2>4, <3>1, PlacesDiffer
    <3> QED BY <1>2, <2>4, <3>2
  <2>5. task = cr /\ Fetch(at(c)) = c
    BY <1>1, <2>1, <2>2 DEF ContentIInv, TasksKept
  <2>6. Fetch(at(cr))' = cr
    <3>1. Ahead(c) < Ahead(pw)
      BY <1>2, <2>2, DistanceType DEF Ahead
    <3>2. Fetch(at(c))' = c
      BY <2>3, <2>4, <2>5, <3>1
    <3>3. Fetch(at(cr))' = Fetch(at(c))'
      BY <1>1, <2>2 DEF at, Fetch, Nulled
    <3> QED BY <2>2, <3>2, <3>3
  <2>7. ASSUME NEW v \in Index, Ahead(v)' < Ahead(pw)' PROVE Kept(v)'
    <3>1. Ahead(v) < Ahead(pw) + 1 /\ Ahead(v) \in Nat
      BY <1>2, <1>4, <1>5, <2>7, DistanceType DEF Ahead
    <3>2. CASE v = pw
      BY <2>3, <3>2 DEF Kept
    <3>3. CASE v # pw
      <4>1. Ahead(v) # Ahead(pw)
        BY <1>2, <3>3, DistanceInjective DEF Ahead
      <4>2. Ahead(v) < Ahead(pw)
        BY <1>2, <3>1, <4>1
      <4>3. Fetch(at(v)) = v \/ v \in lost
        BY <1>7, <2>1, <4>2 DEF ContentIInv, TasksKept, Kept
      <4>4. at(v) # at(pw)
        BY <2>4, <4>2
      <4> QED BY <1>1, <2>3, <4>3, <4>4 DEF Kept
    <3> QED BY <3>2, <3>3
  <2> QED BY <2>5, <2>6, <2>7
<1> QED BY <1>8, <1>10, <1>11, <1>12 DEF ContentIInv

(* pop's increment: the task of the turn becomes the previous one. *)
LEMMA ContentPop ==
  ASSUME QueueGeometry, QueueIInv, ContentIInv, Pop
  PROVE  ContentIInv'
<1> DEFINE retire == [to |-> Ridx, val |-> cr']
<1>1. /\ wpc = "pop" /\ wpc' = "destroy" /\ cbuf' = Append(cbuf, retire) /\ cr' = Wrap(cr + 1)
      /\ UNCHANGED <<words, place, task, pw, pbuf, lost>>
  BY DEF Pop, pushing
<1>2. /\ pw \in Index /\ cr \in Index /\ Ahead(pw) \in Nat /\ Ahead(pw) > 0
      /\ cbuf \in Seq(WorkerStore) /\ Len(cbuf) \in Nat /\ Len(pbuf) \in Nat
      /\ IndexRange \in Nat /\ Capacity \in Nat /\ Capacity < IndexRange /\ Ahead(pw) <= Capacity
  BY <1>1, QueueFacts DEF QueueIInv, IndexOrder
<1>3. /\ cr' \in Index
      /\ \A x \in Index : Ahead(x) > 0 => Distance(cr', x) = Ahead(x) - 1
      /\ \A x \in Index : Ahead(x) = 0 => Distance(cr', x) = IndexRange - 1
  BY PopMeasure
<1>4. Previous' = cr
  BY <1>1, <1>2 DEF Previous, Wrap, QueueGeometry, Index
<1>5. retire \in WorkerStore /\ retire.to = Ridx
  BY <1>3 DEF WorkerStore
<1> HIDE DEF retire
<1>6. /\ Len(cbuf') = Len(cbuf) + 1 /\ cbuf' \in Seq(WorkerStore)
      /\ \A i \in 1 .. Len(cbuf) : cbuf'[i] = cbuf[i]
      /\ cbuf'[Len(cbuf) + 1] = retire
  BY <1>1, <1>2, <1>5, AppendFacts
<1>7. \A q \in Places \cup {Wild} : Fetch(q)' = Fetch(q)
  <2>1. ASSUME NEW q \in Places PROVE Nulled(q)' <=> Nulled(q)
    <3>1. Nulled(q) <=> \E i \in 1 .. Len(cbuf) : cbuf[i].to = q
      BY <1>2, NulledIs
    <3>2. Nulled(q)' <=> \E i \in 1 .. Len(cbuf') : cbuf'[i].to = q
      <4>1. DOMAIN cbuf' = 1 .. Len(cbuf')
        BY <1>6
      <4> QED BY <4>1 DEF Nulled
    <3>3. retire.to # q
      BY <1>5, ConstantsAssumption
    <3>4. \A i \in 1 .. Len(cbuf') : i \in 1 .. Len(cbuf) \/ i = Len(cbuf) + 1
      BY <1>2, <1>6
    <3>5. \A i \in 1 .. Len(cbuf) : i \in 1 .. Len(cbuf')
      BY <1>2, <1>6
    <3> QED BY <1>6, <3>1, <3>2, <3>3, <3>4, <3>5
  <2> QED BY <1>1, <2>1 DEF Fetch
<1>8. \A v : at(v)' = at(v)
  BY <1>1 DEF at
<1>9. Ahead(pw)' = Ahead(pw) - 1
  BY <1>1, <1>2, <1>3 DEF Ahead
<1>10. ASSUME NEW v \in Index, Ahead(v) < Ahead(pw), Ahead(v) > 0
       PROVE  Distance(cr', v) = Ahead(v) - 1 /\ Distance(cr', v) < Ahead(pw)' /\ Ahead(v) \in Nat
  BY <1>2, <1>3, <1>9, <1>10, DistanceType DEF Ahead
<1>11. task \in Index /\ Ahead(task) \in Nat /\ Constructed(task)
  BY <1>1, <1>2, DistanceType DEF ContentIInv, TaskInHand, Ahead
<1>12. ASSUME NEW i \in 1 .. Len(pbuf), ~Publishes(pbuf[i])
       PROVE  /\ pbuf[i].to = at(pbuf[i].val) /\ at(pbuf[i].val) \in Places
              /\ pbuf[i].val \in Index /\ Ahead(pbuf[i].val) \in Nat
              /\ Ahead(pbuf[i].val) > 0 /\ Distance(cr', pbuf[i].val) = Ahead(pbuf[i].val) - 1
              /\ Distance(cr', pbuf[i].val) < Ahead(pw)'
  <2>1. pbuf[i].val \in Index /\ Ahead(pbuf[i].val) \in Nat
    BY PendingFacts
  <2>2. /\ pbuf[i].to = at(pbuf[i].val) /\ at(pbuf[i].val) \in Places
        /\ Ahead(pbuf[i].val) < Ahead(pw)
    BY <1>12 DEF ContentIInv, ConstructionsInOrder
  <2>3. Ahead(task) < Ahead(pbuf[i].val)
    BY <1>11, <1>12 DEF Constructed
  <2>4. Ahead(pbuf[i].val) > 0
    BY <1>11, <2>1, <2>3
  <2> QED BY <1>10, <2>1, <2>2, <2>4
<1>13. NullsOnly'
  <2>1. ASSUME NEW i \in 1 .. Len(cbuf'), ~Retires(cbuf'[i]) PROVE cbuf'[i].val = Garbage
    <3>1. i # Len(cbuf) + 1
      BY <1>5, <1>6, <2>1 DEF Retires
    <3>2. i \in 1 .. Len(cbuf) /\ cbuf'[i] = cbuf[i]
      BY <1>2, <1>6, <3>1
    <3> QED BY <2>1, <3>2 DEF ContentIInv, NullsOnly
  <2> QED BY <2>1 DEF NullsOnly, Retires
<1>14. ConstructionsInOrder'
  <2>1. ASSUME NEW i \in 1 .. Len(pbuf), NEW j \in 1 .. Len(pbuf), i < j,
               ~Publishes(pbuf[i]), ~Publishes(pbuf[j])
        PROVE  Distance(cr', pbuf[i].val) < Distance(cr', pbuf[j].val)
    <3>1. Ahead(pbuf[i].val) < Ahead(pbuf[j].val)
      BY <2>1 DEF ContentIInv, ConstructionsInOrder
    <3> QED BY <1>12, <2>1, <3>1
  <2> QED BY <1>1, <1>8, <1>12, <2>1 DEF ConstructionsInOrder, Publishes, Ahead, at
<1>15. PlacesSound'
  <2>1. SUFFICES ASSUME NEW q \in Places, NEW v \in Index, Fetch(q)' = v
                 PROVE  /\ at(v)' = q
                        /\ \/ Ahead(v)' < Ahead(pw)' /\ Constructed(v)'
                           \/ v = Previous'
    BY <1>1 DEF PlacesSound
  <2>2. at(v) = q /\ Ahead(v) < Ahead(pw) /\ Constructed(v) /\ Ahead(v) \in Nat
    BY <1>1, <1>2, <1>7, <2>1, DistanceType DEF ContentIInv, PlacesSound, Ahead
  <2>3. CASE Ahead(v) = 0
    <3>1. v = cr
      BY <1>2, <2>2, <2>3, DistanceInjective, DistanceType DEF Ahead
    <3> QED BY <1>4, <1>8, <2>2, <3>1
  <2>4. CASE Ahead(v) > 0
    <3>1. Distance(cr', v) = Ahead(v) - 1 /\ Distance(cr', v) < Ahead(pw)'
      BY <1>10, <2>2, <2>4
    <3>2. ASSUME NEW i \in 1 .. Len(pbuf), ~Publishes(pbuf[i])
          PROVE  Distance(cr', v) < Distance(cr', pbuf[i].val)
      <4>1. Ahead(v) < Ahead(pbuf[i].val)
        BY <2>2, <3>2 DEF Constructed
      <4> QED BY <1>12, <2>2, <3>1, <3>2, <4>1
    <3>3. Constructed(v)'
      BY <1>1, <3>2 DEF Constructed, Publishes, Ahead
    <3> QED BY <1>1, <1>8, <2>2, <3>1, <3>3 DEF Ahead
  <2> QED BY <2>2, <2>3, <2>4
<1>16. TaskInHand'
  BY <1>1 DEF TaskInHand
<1>17. TasksKept'
  <2>1. SUFFICES ASSUME Prepared
                 PROVE  /\ task' = Previous' /\ Fetch(at(Previous))' = Previous'
                        /\ \A v \in Index : Ahead(v)' < Ahead(pw)' => Kept(v)'
    BY <1>1 DEF TasksKept, Prepared
  <2>2. PICK c \in Index : c = cr
    BY <1>2
  <2>3. \A v \in Index : Fetch(at(v))' = Fetch(at(v))
    <3>1. ASSUME NEW v \in Index PROVE Fetch(at(v))' = Fetch(at(v))
      <4>1. at(v) \in Places \cup {Wild}
        BY AtType DEF QueueIInv
      <4>2. PICK q \in Places \cup {Wild} : q = at(v)
        BY <4>1
      <4>3. Fetch(at(v))' = Fetch(q)'
        BY <1>8, <4>2 DEF Fetch, Nulled
      <4> QED BY <1>7, <4>2, <4>3
    <3> QED BY <3>1
  <2>4. task' = c /\ Previous' = c /\ Fetch(at(c)) = c
    BY <1>1, <1>4, <2>1, <2>2 DEF ContentIInv, TasksKept
  <2>5. Fetch(at(Previous))' = Fetch(at(c))'
    BY <2>4 DEF at, Fetch, Nulled
  <2>6. ASSUME NEW v \in Index, Ahead(v)' < Ahead(pw)' PROVE Kept(v)'
    <3>1. Ahead(v) < Ahead(pw)
      <4>1. Ahead(v) \in Nat /\ Ahead(v)' = Distance(cr', v)
        BY <1>2, DistanceType DEF Ahead
      <4>2. CASE Ahead(v) = 0
        BY <1>2, <4>2
      <4>3. CASE Ahead(v) > 0
        BY <1>2, <1>3, <1>9, <2>6, <4>1, <4>3
      <4> QED BY <4>1, <4>2, <4>3
    <3>2. Kept(v)
      BY <2>1, <3>1 DEF ContentIInv, TasksKept
    <3>3. Constructing(v) => Constructing(v)'
      BY <1>1 DEF Constructing, Publishes
    <3> QED BY <1>1, <2>3, <3>2, <3>3 DEF Kept
  <2> QED BY <2>3, <2>4, <2>5, <2>6
<1> QED BY <1>13, <1>14, <1>15, <1>16, <1>17 DEF ContentIInv

(* pop's destruction: what the slot of the previous task holds is gone, as *)
(* far as the worker can see, and is lost when it was a queued task.       *)
LEMMA ContentDestroy ==
  ASSUME QueueGeometry, QueueIInv, ContentIInv, Destroy
  PROVE  ContentIInv'
<1> DEFINE null == [to |-> at(Previous), val |-> Garbage]
<1>1. /\ wpc = "destroy" /\ wpc' \in {"check", "stopped"} /\ cbuf' = Append(cbuf, null)
      /\ lost' = lost \cup {v \in Index : Fetch(at(Previous)) = v /\ Queued(v)}
      /\ UNCHANGED <<words, place, cr, pw, pbuf>>
  BY DEF Destroy, Popped, pushing
<1>2. /\ cbuf \in Seq(WorkerStore) /\ Len(cbuf) \in Nat /\ cr \in Index /\ pw \in Index
      /\ Previous \in Index
  BY QueueFacts, PreviousFacts
<1>3. null \in WorkerStore /\ null.to = at(Previous) /\ null.val = Garbage
  <2>1. at(Previous) \in Places \cup {Wild}
    BY <1>2, AtType DEF QueueIInv
  <2> QED BY <2>1 DEF WorkerStore
<1> HIDE DEF null
<1>4. /\ cbuf' \in Seq(WorkerStore) /\ Len(cbuf') = Len(cbuf) + 1
      /\ \A i \in 1 .. Len(cbuf) : cbuf'[i] = cbuf[i] /\ i \in 1 .. Len(cbuf')
      /\ cbuf'[Len(cbuf) + 1] = null /\ Len(cbuf) + 1 \in 1 .. Len(cbuf')
      /\ \A i \in 1 .. Len(cbuf') : i \in 1 .. Len(cbuf) \/ i = Len(cbuf) + 1
  <2>1. /\ cbuf' \in Seq(WorkerStore) /\ Len(cbuf') = Len(cbuf) + 1
        /\ \A i \in 1 .. Len(cbuf) : cbuf'[i] = cbuf[i]
        /\ cbuf'[Len(cbuf) + 1] = null
    BY <1>1, <1>2, <1>3, AppendFacts
  <2> QED BY <1>2, <2>1
<1>5. \A q : Nulled(q)' <=> Nulled(q) \/ q = at(Previous)
  <2>1. ASSUME NEW q PROVE Nulled(q)' <=> Nulled(q) \/ q = at(Previous)
    <3>1. Nulled(q) <=> \E i \in 1 .. Len(cbuf) : cbuf[i].to = q
      BY <1>2, NulledIs
    <3>2. Nulled(q)' <=> \E i \in 1 .. Len(cbuf') : cbuf'[i].to = q
      <4>1. DOMAIN cbuf' = 1 .. Len(cbuf')
        BY <1>4
      <4> QED BY <4>1 DEF Nulled
    <3> QED BY <1>3, <1>4, <3>1, <3>2
  <2> QED BY <2>1
<1>6. \A q : Fetch(q)' = IF q = at(Previous) THEN Garbage ELSE Fetch(q)
  BY <1>1, <1>5 DEF Fetch
<1>7. /\ \A v : at(v)' = at(v) /\ Ahead(v)' = Ahead(v)
      /\ \A v : (Constructed(v)' <=> Constructed(v)) /\ (Constructing(v)' <=> Constructing(v))
      /\ Ahead(pw)' = Ahead(pw)
  BY <1>1 DEF at, Ahead, Constructed, Constructing, Publishes
<1>8. NullsOnly'
  BY <1>3, <1>4 DEF ContentIInv, NullsOnly, Retires
<1>9. ConstructionsInOrder'
  BY <1>1 DEF ContentIInv, ConstructionsInOrder, Publishes, Ahead, at
<1>10. PlacesSound'
  <2>1. SUFFICES ASSUME NEW q \in Places, NEW v \in Index, Fetch(q)' = v
                 PROVE  at(v)' = q /\ Ahead(v)' < Ahead(pw)' /\ Constructed(v)'
    BY DEF PlacesSound
  <2>2. v # Garbage
    BY DEF Index, Garbage
  <2>3. q # at(Previous) /\ Fetch(q) = v
    BY <1>6, <2>1, <2>2
  <2>4. /\ at(v) = q
        /\ \/ Ahead(v) < Ahead(pw) /\ Constructed(v)
           \/ v = Previous
    BY <1>1, <2>3 DEF ContentIInv, PlacesSound
  <2> QED BY <1>7, <2>3, <2>4
<1>11. TaskInHand'
  BY <1>1 DEF TaskInHand
<1>12. TasksKept'
  <2>1. SUFFICES ASSUME Prepared PROVE \A v \in Index : Ahead(v)' < Ahead(pw)' => Kept(v)'
    BY <1>1 DEF TasksKept, Prepared
  <2>2. ASSUME NEW v \in Index, Ahead(v)' < Ahead(pw)' PROVE Kept(v)'
    <3>1. Ahead(v) < Ahead(pw)
      BY <1>7, <2>2
    <3>2. Kept(v)
      BY <1>1, <2>1, <3>1 DEF ContentIInv, TasksKept
    <3>3. CASE Fetch(at(v)) = v /\ at(v) = at(Previous)
      <4>1. v \in lost'
        BY <1>1, <3>1, <3>3 DEF Queued, Ahead
      <4> QED BY <4>1 DEF Kept
    <3>4. CASE Fetch(at(v)) = v /\ at(v) # at(Previous)
      <4>1. Fetch(at(v))' = Fetch(at(v))
        <5>1. PICK q : q = at(v)
          OBVIOUS
        <5>2. Fetch(at(v))' = Fetch(q)'
          BY <1>7, <5>1 DEF Fetch, Nulled
        <5> QED BY <1>6, <3>4, <5>1, <5>2
      <4> QED BY <3>4, <4>1 DEF Kept
    <3>5. CASE Constructing(v) \/ v \in lost
      BY <1>1, <1>7, <3>5 DEF Kept
    <3> QED BY <3>2, <3>3, <3>4, <3>5 DEF Kept
  <2> QED BY <2>2
<1> QED BY <1>8, <1>9, <1>10, <1>11, <1>12 DEF ContentIInv

(* The destructor leaves nothing queued. *)
LEMMA ContentClear ==
  ASSUME QueueGeometry, QueueIInv, ContentIInv, Clear
  PROVE  ContentIInv'
<1>1. /\ pbuf = <<>> /\ cbuf = <<>> /\ cr' = widx /\ wpc' = "gone"
      /\ UNCHANGED <<cbuf, pw, pbuf>>
  BY DEF Clear, pushing
<1>2. /\ widx \in Index /\ pw \in Index /\ Len(pbuf) = 0 /\ Len(cbuf) = 0
  BY <1>1, QueueFacts
<1>3. widx = pw
  BY <1>2 DEF QueueIInv, PusherPending
<1>4. Ahead(pw)' = 0
  BY <1>1, <1>2, <1>3, DistanceType DEF Ahead
<1>5. NullsOnly' /\ ConstructionsInOrder'
  BY <1>1, <1>2 DEF NullsOnly, ConstructionsInOrder
<1>6. PlacesSound' /\ TaskInHand'
  BY <1>1 DEF PlacesSound, TaskInHand
<1>7. TasksKept'
  <2>1. ASSUME NEW v \in Index PROVE ~(Ahead(v)' < Ahead(pw)')
    <3>1. Ahead(v)' \in Nat
      BY <1>1, <1>2, DistanceType DEF Ahead
    <3> QED BY <1>4, <3>1
  <2> QED BY <1>1, <2>1 DEF TasksKept
<1> QED BY <1>5, <1>6, <1>7 DEF ContentIInv

(* front(): what is in the slot shares it with the task of the turn. *)
LEMMA ContentFront ==
  ASSUME QueueGeometry, QueueIInv, ContentIInv, Front
  PROVE  ContentIInv'
<1>1. /\ wpc = "front" /\ UNCHANGED <<pw, cr, pbuf, words, lost, place, cbuf>>
      /\ IF Fetch(at(cr)) = Garbage
           THEN wpc' = "dead" /\ task' = task
           ELSE wpc' = "run" /\ task' = Fetch(at(cr))
  BY DEF Front, pushing
<1>2. /\ cr \in Index /\ pw \in Index /\ Ahead(pw) \in Nat /\ Ahead(pw) > 0 /\ Ahead(cr) = 0
      /\ Capacity \in Nat /\ Ahead(pw) <= Capacity
  <2>1. Ahead(widx) > 0
    BY <1>1 DEF QueueIInv, IndexOrder
  <2>2. Ahead(cr) = 0
    BY QueueFacts, DistanceType DEF Ahead
  <2> QED BY <2>1, <2>2, QueueFacts
<1>3. \A q \in Places \cup {Wild} : Fetch(q)' = Fetch(q)
  BY <1>1 DEF Fetch, Nulled
<1>4. /\ ConstructionsInOrder'
      /\ \A v : at(v)' = at(v) /\ Ahead(v)' = Ahead(v) /\ (Constructed(v)' <=> Constructed(v))
      /\ \A v \in Index : Fetch(at(v))' = Fetch(at(v)) /\ (Kept(v)' <=> Kept(v))
      /\ Ahead(pw)' = Ahead(pw) /\ (Prepared' <=> Prepared)
  BY <1>1, <1>3, ContentFrame
<1>5. NullsOnly'
  BY <1>1 DEF ContentIInv, NullsOnly, Retires
<1>6. PICK c \in Index : c = cr
  BY <1>2
<1>7. Fetch(at(cr))' = Fetch(at(c))' /\ (Kept(cr)' <=> Kept(c)')
  BY <1>1, <1>6 DEF at, Fetch, Nulled, Kept, Constructing
<1>8. CASE Fetch(at(cr)) = Garbage
  <2>1. wpc' = "dead"
    BY <1>1, <1>8
  <2>2. PlacesSound' /\ TaskInHand'
    BY <2>1 DEF PlacesSound, TaskInHand
  <2>3. TasksKept'
    <3>1. SUFFICES ASSUME Prepared
                   PROVE  /\ \A v \in Index : Ahead(v)' < Ahead(pw)' => Kept(v)'
                          /\ Kept(cr)' /\ Fetch(at(cr))' # cr'
      BY <1>4, <2>1 DEF TasksKept
    <3>2. \A v \in Index : Ahead(v) < Ahead(pw) => Kept(v)
      BY <3>1 DEF ContentIInv, TasksKept
    <3>3. Kept(c) /\ c # Garbage
      BY <1>2, <1>6, <3>2 DEF Index, Garbage
    <3> QED BY <1>1, <1>4, <1>6, <1>7, <1>8, <3>2, <3>3
  <2> QED BY <1>4, <1>5, <2>2, <2>3 DEF ContentIInv
<1>9. CASE Fetch(at(cr)) # Garbage
  <2>1. wpc' = "run" /\ task' = Fetch(at(cr))
    BY <1>1, <1>9
  <2>2. at(cr) \in Places /\ task' \in Index
    <3>1. at(cr) \in Places \cup {Wild} /\ Fetch(at(cr)) \in Index \cup {Garbage}
      BY <1>2, AtType, FetchType DEF QueueIInv
    <3> QED BY <1>9, <2>1, <3>1 DEF Fetch
  <2>3. PICK t \in Index : t = Fetch(at(cr))
    BY <2>1, <2>2
  <2>4. at(t) = at(cr) /\ Ahead(t) < Ahead(pw) /\ Constructed(t)
    BY <1>1, <2>2, <2>3 DEF ContentIInv, PlacesSound
  <2>5. PlacesSound'
    <3>1. SUFFICES ASSUME NEW q \in Places, NEW v \in Index, Fetch(q)' = v
                   PROVE  at(v)' = q /\ Ahead(v)' < Ahead(pw)' /\ Constructed(v)'
      BY DEF PlacesSound
    <3>2. at(v) = q /\ Ahead(v) < Ahead(pw) /\ Constructed(v)
      BY <1>1, <1>3, <3>1 DEF ContentIInv, PlacesSound
    <3> QED BY <1>4, <3>2
  <2>6. TaskInHand'
    <3>1. at(task)' = at(t)' /\ at(cr)' = at(c)' /\ Ahead(task)' = Ahead(t)' /\ Constructed(task)' = Constructed(t)'
      BY <1>1, <1>6, <2>1, <2>3 DEF at, Ahead, Constructed
    <3> QED BY <1>4, <1>6, <2>1, <2>3, <2>4, <3>1 DEF TaskInHand
  <2>7. TasksKept'
    <3>1. SUFFICES ASSUME Prepared
                   PROVE  /\ task' = cr' /\ Fetch(at(cr))' = cr'
                          /\ \A v \in Index : Ahead(v)' < Ahead(pw)' => Kept(v)'
      BY <1>4, <2>1 DEF TasksKept
    <3>2. t = cr
      <4>1. Distance(cr, t) < Capacity /\ Distance(cr, cr) < Capacity
        BY <1>2, <2>4, DistanceType DEF Ahead
      <4> QED BY <1>2, <2>4, <3>1, <4>1, PlacesDiffer
    <3>3. \A v \in Index : Ahead(v) < Ahead(pw) => Kept(v)
      BY <3>1 DEF ContentIInv, TasksKept
    <3> QED BY <1>1, <1>4, <1>6, <1>7, <2>1, <2>3, <3>2, <3>3
  <2> QED BY <1>4, <1>5, <2>5, <2>6, <2>7 DEF ContentIInv
<1> QED BY <1>8, <1>9

(* push dies only over a buffer that was not prepared. *)
LEMMA ContentDeath ==
  ASSUME QueueGeometry, QueueIInv, ContentIInv, PushDies \/ (PushFromRun /\ at(pw) = Wild)
  PROVE  ContentIInv'
<1>1. /\ wpc' = "dead" /\ at(pw) = Wild
      /\ UNCHANGED <<pw, cr, pbuf, words, lost, place, cbuf>>
  BY DEF PushDies, PushFromRun, pushing
<1>2. \A q \in Places \cup {Wild} : Fetch(q)' = Fetch(q)
  BY <1>1 DEF Fetch, Nulled
<1>3. ConstructionsInOrder' /\ (Prepared' <=> Prepared)
  BY <1>1, <1>2, ContentFrame
<1>4. NullsOnly'
  BY <1>1 DEF ContentIInv, NullsOnly, Retires
<1>5. PlacesSound' /\ TaskInHand'
  BY <1>1 DEF PlacesSound, TaskInHand
<1>6. ~Prepared
  <2>1. pw \in Index
    BY QueueFacts
  <2> QED BY <1>1, <2>1, PlaceOf
<1> QED BY <1>3, <1>4, <1>5, <1>6 DEF ContentIInv, TasksKept

LEMMA ContentStep ==
  ASSUME QueueGeometry, QueueIInv, ContentIInv, [Next]_vars
  PROVE  ContentIInv'
<1>1. CASE Pusher
  BY <1>1, ContentPush, ContentDeath, ContentQuiet DEF Pusher
<1>2. CASE Worker
  <2>1. CASE PushFromRun
    BY <2>1, ContentPushFromRun, ContentDeath
  <2>2. CASE CheckEmpty \/ Wait \/ \E result \in BOOLEAN : RunReturns(result)
    BY <2>2, ContentQuiet
  <2>3. CASE Front \/ Pop \/ Destroy
    BY <2>3, ContentFront, ContentPop, ContentDestroy
  <2> QED BY <1>2, <2>1, <2>2, <2>3 DEF Worker
<1>3. CASE Clear
  BY <1>3, ContentClear
<1>4. CASE DrainPusher
  BY <1>4, ContentDrainPusher
<1>5. CASE DrainWorker \/ UNCHANGED vars
  BY <1>5, ContentQuiet
<1> QED BY <1>1, <1>2, <1>3, <1>4, <1>5 DEF Next

LEMMA ContentStarts ==
  ASSUME QueueGeometry, Init
  PROVE  ContentIInv
<1>1. /\ pw = 0 /\ cr = 0 /\ pbuf = <<>> /\ cbuf = <<>> /\ wpc = "check"
      /\ place = [p \in Places |-> Garbage]
  BY DEF Init
<1>2. Len(pbuf) = 0 /\ Len(cbuf) = 0 /\ 0 \in Index
  BY <1>1 DEF QueueGeometry, Index
<1>3. Ahead(pw) = 0 /\ \A v \in Index : Ahead(v) \in Nat
  BY <1>1, <1>2, DistanceType DEF Ahead
<1>4. NullsOnly /\ ConstructionsInOrder
  BY <1>2 DEF NullsOnly, ConstructionsInOrder
<1>5. PlacesSound
  <2>1. \A q \in Places : Fetch(q) = Garbage
    BY <1>1 DEF Fetch
  <2>2. \A v \in Index : v # Garbage
    BY DEF Index, Garbage
  <2> QED BY <2>1, <2>2 DEF PlacesSound
<1>6. TaskInHand /\ TasksKept
  BY <1>1, <1>3 DEF TaskInHand, TasksKept
<1> QED BY <1>4, <1>5, <1>6 DEF ContentIInv

(* Whatever malloc left in the words of the buffer, the worker only ever   *)
(* runs a queued task, or dies at front()'s pointer: the one whose turn it *)
(* is, or one that shares its place.  With places of their own, tasks are  *)
(* run in turn, and one is lost, or found missing, only because push tells *)
(* of it before it is constructed and pop of a free slot before it is free *)
(* (circular_queue.h: push and pop).                                       *)
THEOREM WorkerRunsTheTaskOfTheTurn ==
  ASSUME CapacityFits
  PROVE  Spec => []RunsTheTaskOfTheTurn
<1> QueueGeometry
  BY Geometry
<1>1. Init => QueueIInv /\ ContentIInv
  BY QueueStarts, ContentStarts
<1>2. QueueIInv /\ ContentIInv /\ [Next]_vars => (QueueIInv /\ ContentIInv)'
  BY QueueStep, ContentStep
<1>3. QueueIInv /\ ContentIInv => RunsTheTaskOfTheTurn
  <2>1. SUFFICES ASSUME QueueIInv, ContentIInv PROVE RunsTheTaskOfTheTurn
    OBVIOUS
  <2>2. \A v : Queued(v) <=> Ahead(v) < Ahead(pw)
    BY DEF Queued, Ahead
  <2>3. wpc = "run" => Queued(task) /\ at(task) = at(cr)
    BY <2>1, <2>2 DEF ContentIInv, TaskInHand
  <2>4. ASSUME Prepared
        PROVE  /\ wpc = "run" => task = cr
               /\ wpc = "destroy" /\ Distance(cr, pw) < Capacity => Fetch(at(Previous)) = task
               /\ \A v \in Index : Queued(v) => Kept(v)
               /\ wpc = "dead" => Kept(cr) /\ Fetch(at(cr)) # cr
    BY <2>1, <2>2, <2>4 DEF ContentIInv, TasksKept, Ahead
  <2>5. \A v \in Index : Kept(v) => Fetch(at(v)) = v \/ UnderConstruction(v) \/ v \in lost
    BY <2>1, ConstructingIs DEF ContentIInv, Kept
  <2>6. cr \in Index
    BY <2>1, QueueFacts
  <2> QED BY <2>3, <2>4, <2>5, <2>6 DEF RunsTheTaskOfTheTurn
<1> QED BY <1>1, <1>2, <1>3, PTL DEF Spec
=============================================================================
