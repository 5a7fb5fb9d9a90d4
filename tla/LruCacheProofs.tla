--------------------------- MODULE LruCacheProofs ---------------------------
(***************************************************************************)
(* For any set of keys, any timeout and any number of buckets: the list    *)
(* and the hash set agree, the list is in order of deadlines, clear_expired *)
(* leaves no expired node, and a callback that leaves its own node alone   *)
(* cannot corrupt the cache.                                               *)
(***************************************************************************)
EXTENDS LruCache, SequenceTheorems, TLAPS

-----------------------------------------------------------------------------
(* The inductive invariant. *)

(* No deadline is later than the latest time passed allows. *)
DeadlinesPassed == \A k \in Keys : deadline[k] <= latest + Timeout

(* While fn runs, its node is linked unless fn erased it, and in front     *)
(* unless fn touched it.                                                   *)
OwnNodeInPlace ==
  at = "callback" =>
    /\ own # "erased" => node \in hash
    /\ own = "nothing" => list # <<>> /\ list[1] = node

LruIInv ==
  /\ TypeOK /\ SameNodes /\ SortedByDeadline /\ LoadBelowOne
  /\ heap = hash /\ buckets > 0
  /\ DeadlinesPassed /\ OwnNodeInPlace /\ OnlyOwnNodeIsTaboo

-----------------------------------------------------------------------------
(* The list. *)

(* No node is linked twice. *)
Once(s) == \A i, j \in 1 .. Len(s) : s[i] = s[j] => i = j

Ordered(s, d) == \A i, j \in 1 .. Len(s) : i < j => d[s[i]] <= d[s[j]]

(* What t holds it holds in the order of s. *)
KeepsOrderOf(t, s) ==
  \A i, j \in 1 .. Len(t) : i < j =>
    \E m, n \in 1 .. Len(s) : m < n /\ t[i] = s[m] /\ t[j] = s[n]

(* Unlinking leaves the other nodes in their order, and the front where it *)
(* is unless that is the node unlinked.                                    *)
LEMMA UnlinkProperties ==
  ASSUME NEW S, NEW s \in Seq(S), NEW e, Once(s), Contains(s, e)
  PROVE  /\ RemoveFirst(s, e) \in Seq(S)
         /\ Len(RemoveFirst(s, e)) = Len(s) - 1
         /\ Once(RemoveFirst(s, e))
         /\ \A x : Contains(RemoveFirst(s, e), x) <=> (Contains(s, x) /\ x # e)
         /\ s[1] # e => Len(RemoveFirst(s, e)) >= 1 /\ RemoveFirst(s, e)[1] = s[1]
         /\ KeepsOrderOf(RemoveFirst(s, e), s)
<1>1. Len(s) \in Nat /\ \A i \in 1 .. Len(s) : s[i] \in S
  BY LenProperties, ElementOfSeq
<1>2. PICK k \in 1 .. Len(s) : s[k] = e
  BY DEF Contains
<1>3. k \in Int /\ k >= 1 /\ k <= Len(s)
  BY <1>1
<1> DEFINE t == RemoveFirst(s, e)
           a == SubSeq(s, 1, k - 1)
           b == SubSeq(s, k + 1, Len(s))
<1>4. t = a \o b
  <2>1. {i \in 1 .. Len(s) : s[i] = e} = {k}
    BY <1>2 DEF Once
  <2>2. Min({k}) = k
    BY <1>3 DEF Min
  <2>3. t = RemoveAt(s, k)
    BY <1>2, <2>1, <2>2 DEF RemoveFirst, SelectInSeq
  <2> QED BY <2>3 DEF RemoveAt
<1>5. /\ a \in Seq(S) /\ Len(a) = k - 1
      /\ \A i \in 1 .. k - 1 : a[i] = s[i]
  BY <1>1, <1>3, SubSeqProperties
<1>6. /\ b \in Seq(S) /\ Len(b) = Len(s) - k
      /\ \A i \in 1 .. Len(s) - k : b[i] = s[k + i]
  <2>1. \A i \in k + 1 .. Len(s) : s[i] \in S
    BY <1>1, <1>3
  <2>2. /\ b \in Seq(S)
        /\ Len(b) = IF k + 1 <= Len(s) THEN Len(s) - (k + 1) + 1 ELSE 0
        /\ \A i \in 1 .. Len(s) - (k + 1) + 1 : b[i] = s[(k + 1) + i - 1]
    BY <1>1, <1>3, <2>1, SubSeqProperties
  <2> QED BY <1>1, <1>3, <2>2
<1>7. /\ a \o b \in Seq(S)
      /\ Len(a \o b) = Len(a) + Len(b)
      /\ \A i \in 1 .. Len(a) + Len(b) :
            (a \o b)[i] = IF i <= Len(a) THEN a[i] ELSE b[i - Len(a)]
  BY <1>5, <1>6, ConcatProperties
<1> HIDE DEF a, b, t
<1>8. t \in Seq(S) /\ Len(t) = Len(s) - 1
  BY <1>1, <1>3, <1>4, <1>5, <1>6, <1>7
<1>9. ASSUME NEW i \in 1 .. Len(s) - 1
      PROVE  t[i] = IF i < k THEN s[i] ELSE s[i + 1]
  <2>1. t[i] = IF i <= k - 1 THEN a[i] ELSE b[i - (k - 1)]
    BY <1>1, <1>3, <1>4, <1>5, <1>6, <1>7
  <2>2. CASE i < k
    BY <1>3, <1>5, <2>1, <2>2
  <2>3. CASE ~(i < k)
    <3>1. i - (k - 1) \in 1 .. Len(s) - k /\ k + (i - (k - 1)) = i + 1
      BY <1>1, <1>3, <2>3
    <3>2. b[i - (k - 1)] = s[k + (i - (k - 1))]
      BY <1>6, <3>1
    <3> QED BY <1>3, <2>1, <2>3, <3>1, <3>2
  <2> QED BY <2>2, <2>3
<1>10. Once(t)
  <2>1. ASSUME NEW i \in 1 .. Len(s) - 1, NEW j \in 1 .. Len(s) - 1, t[i] = t[j] PROVE i = j
    <3> DEFINE m == IF i < k THEN i ELSE i + 1
               n == IF j < k THEN j ELSE j + 1
    <3>1. m \in 1 .. Len(s) /\ n \in 1 .. Len(s) /\ t[i] = s[m] /\ t[j] = s[n]
      BY <1>1, <1>3, <1>9
    <3>2. m = n
      BY <2>1, <3>1 DEF Once
    <3> QED BY <1>3, <3>2
  <2> QED BY <1>8, <2>1 DEF Once
<1>11. ASSUME NEW x, Contains(t, x) PROVE Contains(s, x) /\ x # e
  <2>1. PICK i \in 1 .. Len(s) - 1 : t[i] = x
    BY <1>8, <1>11 DEF Contains
  <2>2. t[i] = s[IF i < k THEN i ELSE i + 1]
    BY <1>9
  <2>3. PICK m \in 1 .. Len(s) : x = s[m] /\ m # k
    BY <1>1, <1>3, <2>1, <2>2
  <2> QED BY <1>2, <2>3 DEF Contains, Once
<1>12. ASSUME NEW x, Contains(s, x), x # e PROVE Contains(t, x)
  <2>1. PICK j \in 1 .. Len(s) : s[j] = x
    BY <1>12 DEF Contains
  <2>2. CASE j < k
    BY <1>1, <1>3, <1>8, <1>9, <2>1, <2>2 DEF Contains
  <2>3. CASE j > k
    <3>1. j - 1 \in 1 .. Len(t) /\ t[j - 1] = x
      BY <1>1, <1>3, <1>8, <1>9, <2>1, <2>3
    <3> QED BY <3>1 DEF Contains
  <2> QED BY <1>1, <1>2, <1>3, <1>12, <2>1, <2>2, <2>3
<1>13. s[1] # e => Len(t) >= 1 /\ t[1] = s[1]
  BY <1>1, <1>2, <1>3, <1>8, <1>9
<1>14. ASSUME NEW i \in 1 .. Len(t), NEW j \in 1 .. Len(t), i < j
       PROVE  \E m, n \in 1 .. Len(s) : m < n /\ t[i] = s[m] /\ t[j] = s[n]
  <2> DEFINE m == IF i < k THEN i ELSE i + 1
             n == IF j < k THEN j ELSE j + 1
  <2>1. m \in 1 .. Len(s) /\ n \in 1 .. Len(s) /\ m < n
    BY <1>1, <1>3, <1>8, <1>14
  <2>2. t[i] = s[m] /\ t[j] = s[n]
    BY <1>8, <1>9
  <2> QED BY <2>1, <2>2
<1>15. KeepsOrderOf(t, s)
  BY <1>14, Zenon DEF KeepsOrderOf
<1> QED BY <1>8, <1>10, <1>11, <1>12, <1>13, <1>15 DEF t

LEMMA OrderIsKept ==
  ASSUME NEW s, NEW t, NEW d, KeepsOrderOf(t, s), Ordered(s, d)
  PROVE  Ordered(t, d)
<1>1. ASSUME NEW i \in 1 .. Len(t), NEW j \in 1 .. Len(t), i < j PROVE d[t[i]] <= d[t[j]]
  <2>1. PICK m \in 1 .. Len(s), n \in 1 .. Len(s) : m < n /\ t[i] = s[m] /\ t[j] = s[n]
    BY <1>1 DEF KeepsOrderOf
  <2>2. d[s[m]] <= d[s[n]]
    BY <2>1 DEF Ordered
  <2> QED BY <2>1, <2>2
<1> QED BY <1>1 DEF Ordered

(* Linking a node at the back. *)
LEMMA PushBackProperties ==
  ASSUME NEW S, NEW s \in Seq(S), NEW e \in S, Once(s), ~Contains(s, e)
  PROVE  /\ Append(s, e) \in Seq(S) /\ Len(Append(s, e)) = Len(s) + 1 /\ Len(s) \in Nat
         /\ Once(Append(s, e))
         /\ \A x : Contains(Append(s, e), x) <=> (Contains(s, x) \/ x = e)
         /\ \A i \in 1 .. Len(s) : Append(s, e)[i] = s[i]
         /\ Append(s, e)[Len(s) + 1] = e
<1>1. /\ Append(s, e) \in Seq(S)
      /\ Len(Append(s, e)) = Len(s) + 1 /\ Len(s) \in Nat
      /\ \A i \in 1 .. Len(s) : Append(s, e)[i] = s[i]
      /\ Append(s, e)[Len(s) + 1] = e
  BY AppendProperties
<1>2. Once(Append(s, e))
  BY <1>1 DEF Once, Contains
<1>3. ASSUME NEW x PROVE Contains(Append(s, e), x) <=> (Contains(s, x) \/ x = e)
  BY <1>1 DEF Contains
<1> QED BY <1>1, <1>2, <1>3

(* A list in order stays so when a node with the latest deadline is linked *)
(* at its back; what the deadline of an unlinked node was does not matter. *)
LEMMA PushBackOrdered ==
  ASSUME NEW s \in Seq(Keys), NEW e \in Keys, Once(s), ~Contains(s, e),
         NEW d \in [Keys -> Nat], NEW v \in Nat, Ordered(s, d),
         \A i \in 1 .. Len(s) : d[s[i]] <= v
  PROVE  Ordered(Append(s, e), [d EXCEPT ![e] = v])
<1> DEFINE t == Append(s, e)
           c == [d EXCEPT ![e] = v]
<1>1. /\ Len(t) = Len(s) + 1 /\ Len(s) \in Nat
      /\ \A i \in 1 .. Len(s) : t[i] = s[i] /\ s[i] \in Keys /\ s[i] # e
      /\ t[Len(s) + 1] = e
  BY AppendProperties, ElementOfSeq DEF Contains
<1>2. c[e] = v /\ \A i \in 1 .. Len(s) : c[s[i]] = d[s[i]]
  BY <1>1
<1> HIDE DEF t, c
<1>3. ASSUME NEW i \in 1 .. Len(t), NEW j \in 1 .. Len(t), i < j PROVE c[t[i]] <= c[t[j]]
  <2>1. i \in 1 .. Len(s)
    BY <1>1, <1>3
  <2>2. CASE j = Len(s) + 1
    BY <1>1, <1>2, <2>1, <2>2
  <2>3. CASE j # Len(s) + 1
    <3>1. j \in 1 .. Len(s)
      BY <1>1, <2>3
    <3>2. d[s[i]] <= d[s[j]]
      BY <1>3, <2>1, <3>1 DEF Ordered
    <3>3. t[i] = s[i] /\ t[j] = s[j] /\ c[s[i]] = d[s[i]] /\ c[s[j]] = d[s[j]]
      BY <1>1, <1>2, <2>1, <3>1
    <3> QED BY <3>2, <3>3
  <2> QED BY <2>2, <2>3
<1> QED BY <1>3 DEF Ordered, t, c

-----------------------------------------------------------------------------
(* What the steps have in common. *)

LEMMA PassesProperties ==
  ASSUME TypeOK, NEW t \in Time, Passes(t)
  PROVE  /\ latest' \in Time /\ latest' >= latest /\ latest' >= t
         /\ monotone' \in BOOLEAN
         /\ monotone' => monotone /\ t >= latest /\ latest' = t
<1>1. MaxTime \in Nat /\ latest \in Nat /\ t \in Nat /\ latest \in Time
  BY ConstantsAssumption DEF TypeOK, Time
<1>2. latest' \in Time /\ latest' >= latest /\ latest' >= t /\ (t >= latest => latest' = t)
  BY <1>1 DEF Passes
<1>3. monotone' = (monotone /\ t >= latest) /\ monotone \in BOOLEAN
  BY DEF Passes, TypeOK
<1>4. monotone' \in BOOLEAN /\ (monotone' => monotone /\ t >= latest)
  BY <1>3
<1> QED BY <1>2, <1>4

(* Steps that neither link nor unlink a node nor give one a deadline. *)
LEMMA ListAlone ==
  ASSUME LruIInv, TypeOK', UNCHANGED <<list, hash, deadline, buckets, heap, starved>>,
         latest' >= latest, monotone' => monotone, OwnNodeInPlace', OnlyOwnNodeIsTaboo'
  PROVE  LruIInv'
<1>1. SameNodes' /\ LoadBelowOne' /\ heap' = hash' /\ buckets' > 0
  BY DEF LruIInv, SameNodes, LoadBelowOne
<1>2. SortedByDeadline'
  BY DEF LruIInv, SortedByDeadline
<1>3. DeadlinesPassed'
  <2>1. /\ latest \in Nat /\ latest' \in Nat /\ Timeout \in Nat
        /\ \A k \in Keys : deadline[k] \in Nat
    BY ConstantsAssumption DEF LruIInv, TypeOK, Time
  <2> QED BY <2>1 DEF LruIInv, DeadlinesPassed
<1> QED BY <1>1, <1>2, <1>3 DEF LruIInv

(* What the list looks like, in the terms of the lemmas above. *)
LEMMA ListFacts ==
  ASSUME LruIInv
  PROVE  /\ list \in Seq(Keys) /\ Once(list) /\ Len(list) \in Nat
         /\ \A k \in Keys : Contains(list, k) <=> k \in hash
         /\ monotone => Ordered(list, deadline)
         /\ deadline \in [Keys -> Nat] /\ latest \in Nat /\ Timeout \in Nat /\ MaxTime \in Nat
         /\ \A k \in Keys : deadline[k] <= latest + Timeout
<1>1. list \in Seq(Keys) /\ Len(list) \in Nat
  BY LenProperties DEF LruIInv, TypeOK
<1>2. Once(list) /\ \A k \in Keys : Contains(list, k) <=> k \in hash
  BY DEF LruIInv, SameNodes, Once
<1>3. monotone => Ordered(list, deadline)
  BY DEF LruIInv, SortedByDeadline, Ordered
<1>4. deadline \in [Keys -> Nat] /\ latest \in Nat /\ Timeout \in Nat /\ MaxTime \in Nat
  BY ConstantsAssumption DEF LruIInv, TypeOK, Time
<1>5. \A k \in Keys : deadline[k] <= latest + Timeout
  BY DEF LruIInv, DeadlinesPassed
<1> QED BY <1>1, <1>2, <1>3, <1>4, <1>5

(* A node's new deadline is within its type and not before any other. *)
LEMMA NewDeadline ==
  ASSUME LruIInv, NEW t \in Time, Passes(t), NEW k \in Keys,
         deadline' = [deadline EXCEPT ![k] = t + Timeout]
  PROVE  /\ deadline' \in [Keys -> 0 .. MaxTime + Timeout]
         /\ DeadlinesPassed'
         /\ t + Timeout \in Nat
         /\ monotone' => monotone /\ \A j \in Keys : deadline[j] <= t + Timeout
<1>1. /\ latest' \in Time /\ latest' >= latest /\ latest' >= t
      /\ monotone' => monotone /\ t >= latest /\ latest' = t
  BY PassesProperties DEF LruIInv
<1>2. /\ deadline \in [Keys -> Nat] /\ latest \in Nat /\ Timeout \in Nat /\ MaxTime \in Nat
      /\ \A j \in Keys : deadline[j] <= latest + Timeout
  BY ListFacts
<1>3. t \in 0 .. MaxTime /\ latest' \in Nat /\ deadline \in [Keys -> 0 .. MaxTime + Timeout]
  BY <1>1, <1>2 DEF Time, LruIInv, TypeOK
<1>4. deadline' \in [Keys -> 0 .. MaxTime + Timeout]
  BY <1>2, <1>3
<1>5. \A j \in Keys : deadline'[j] <= latest' + Timeout
  BY <1>1, <1>2, <1>3
<1>6. monotone' => monotone /\ \A j \in Keys : deadline[j] <= t + Timeout
  BY <1>1, <1>2, <1>3
<1> QED BY <1>2, <1>3, <1>4, <1>5, <1>6 DEF DeadlinesPassed

-----------------------------------------------------------------------------
(* The steps. *)

LEMMA InsertExistingKeeps ==
  ASSUME LruIInv, NEW t \in Time, NEW k \in Keys, InsertExisting(t, k)
  PROVE  LruIInv'
<1>1. TypeOK /\ Passes(t) /\ UNCHANGED <<list, hash, deadline, buckets, heap, at, now, node, own, starved>>
  BY DEF LruIInv, InsertExisting
<1>2. /\ latest' \in Time /\ latest' >= latest /\ monotone' \in BOOLEAN
      /\ monotone' => monotone
  BY <1>1, PassesProperties
<1>3. TypeOK'
  BY <1>1, <1>2 DEF TypeOK
<1>4. OwnNodeInPlace' /\ OnlyOwnNodeIsTaboo'
  BY <1>1 DEF LruIInv, OwnNodeInPlace, OnlyOwnNodeIsTaboo
<1> QED BY <1>1, <1>2, <1>3, <1>4, ListAlone

LEMMA InsertNewKeeps ==
  ASSUME LruIInv, NEW t \in Time, NEW k \in Keys, InsertNew(t, k)
  PROVE  LruIInv'
<1>1. /\ TypeOK /\ k \notin hash /\ Passes(t)
      /\ deadline' = [deadline EXCEPT ![k] = t + Timeout]
      /\ heap' = heap \cup {k} /\ hash' = hash \cup {k} /\ list' = Append(list, k)
      /\ UNCHANGED <<at, now, node, own>>
      /\ \/ Len(list') >= buckets /\ buckets' = 2 * buckets /\ starved' = starved
         \/ Len(list') >= buckets /\ buckets' = buckets /\ starved' = TRUE
         \/ ~(Len(list') >= buckets) /\ buckets' = buckets /\ starved' = starved
  BY DEF LruIInv, InsertNew, find, push_back
<1>2. /\ list \in Seq(Keys) /\ Once(list) /\ Len(list) \in Nat
      /\ \A j \in Keys : Contains(list, j) <=> j \in hash
      /\ monotone => Ordered(list, deadline)
      /\ deadline \in [Keys -> Nat]
  BY ListFacts
<1>3. /\ list' \in Seq(Keys) /\ Len(list') = Len(list) + 1 /\ Once(list')
      /\ \A x : Contains(list', x) <=> (Contains(list, x) \/ x = k)
      /\ \A i \in 1 .. Len(list) : list'[i] = list[i]
  BY <1>1, <1>2, PushBackProperties
<1>4. /\ deadline' \in [Keys -> 0 .. MaxTime + Timeout] /\ DeadlinesPassed'
      /\ t + Timeout \in Nat
      /\ monotone' => monotone /\ \A j \in Keys : deadline[j] <= t + Timeout
  BY <1>1, NewDeadline
<1>5. latest' \in Time /\ monotone' \in BOOLEAN
  BY <1>1, PassesProperties
<1>6. buckets \in Nat /\ buckets > 0 /\ starved \in BOOLEAN /\ (starved \/ Len(list) < buckets)
  BY DEF LruIInv, TypeOK, LoadBelowOne
<1>7. buckets' \in Nat /\ buckets' > 0 /\ starved' \in BOOLEAN
  <2>1. buckets' \in Nat /\ buckets' > 0
    BY <1>1, <1>6
  <2>2. starved' \in BOOLEAN
    BY <1>1, <1>6
  <2> QED BY <2>1, <2>2
<1>8. TypeOK'
  BY <1>1, <1>3, <1>4, <1>5, <1>7 DEF TypeOK
<1>9. LoadBelowOne'
  <2>1. CASE starved'
    BY <2>1 DEF LoadBelowOne
  <2>2. CASE ~starved'
    <3>1. Len(list) < buckets
      BY <1>1, <1>6, <2>2
    <3>2. Len(list') < buckets'
      BY <1>1, <1>2, <1>3, <1>6, <2>2, <3>1
    <3> QED BY <3>2 DEF LoadBelowOne
  <2> QED BY <2>1, <2>2
<1>10. SameNodes'
  BY <1>1, <1>2, <1>3 DEF SameNodes, Once
<1>11. SortedByDeadline'
  <2>1. ASSUME monotone' PROVE Ordered(list', deadline')
    <3>1. \A i \in 1 .. Len(list) : deadline[list[i]] <= t + Timeout
      BY <1>2, <1>4, <2>1, ElementOfSeq
    <3> QED BY <1>1, <1>2, <1>4, <2>1, <3>1, PushBackOrdered
  <2> QED BY <2>1 DEF SortedByDeadline, Ordered
<1>12. OwnNodeInPlace'
  <2>1. list # <<>> => list' # <<>> /\ list'[1] = list[1]
    BY <1>2, <1>3, EmptySeq
  <2> QED BY <1>1, <2>1 DEF LruIInv, OwnNodeInPlace
<1>13. heap' = hash' /\ OnlyOwnNodeIsTaboo'
  BY <1>1 DEF LruIInv, OnlyOwnNodeIsTaboo
<1> QED BY <1>4, <1>7, <1>8, <1>9, <1>10, <1>11, <1>12, <1>13 DEF LruIInv

LEMMA EraseKeeps ==
  ASSUME LruIInv, NEW k \in Keys, erase(k)
  PROVE  LruIInv'
<1>1. /\ TypeOK /\ k \in hash /\ ClientRuns
      /\ hash' = hash \ {k} /\ list' = RemoveFirst(list, k) /\ heap' = heap \ {k}
      /\ own' = IF at = "callback" /\ k = node THEN "erased" ELSE own
      /\ UNCHANGED <<deadline, buckets, at, now, node, latest, monotone, starved>>
  BY DEF LruIInv, erase, find
<1>2. /\ list \in Seq(Keys) /\ Once(list) /\ Len(list) \in Nat
      /\ \A j \in Keys : Contains(list, j) <=> j \in hash
      /\ monotone => Ordered(list, deadline)
  BY ListFacts
<1>3. /\ list' \in Seq(Keys) /\ Len(list') = Len(list) - 1 /\ Once(list')
      /\ \A x : Contains(list', x) <=> (Contains(list, x) /\ x # k)
      /\ list[1] # k => Len(list') >= 1 /\ list'[1] = list[1]
      /\ KeepsOrderOf(list', list)
  <2>1. Contains(list, k)
    BY <1>1, <1>2
  <2> QED BY <1>1, <1>2, <2>1, UnlinkProperties
<1>4. TypeOK'
  BY <1>1, <1>3 DEF TypeOK
<1>5. SameNodes'
  BY <1>1, <1>2, <1>3 DEF SameNodes, Once
<1>6. SortedByDeadline'
  <2>1. monotone => Ordered(list', deadline)
    BY <1>2, <1>3, OrderIsKept
  <2> QED BY <1>1, <2>1 DEF SortedByDeadline, Ordered
<1>7. LoadBelowOne'
  <2>1. starved \/ Len(list) < buckets
    BY DEF LruIInv, LoadBelowOne
  <2>2. Len(list) < buckets => Len(list') < buckets
    BY <1>1, <1>2, <1>3 DEF TypeOK
  <2> QED BY <1>1, <2>1, <2>2 DEF LoadBelowOne
<1>8. OwnNodeInPlace'
  <2>1. ASSUME at = "callback", own' # "erased" PROVE node \in hash' /\ k # node /\ own' = own
    BY <1>1, <2>1 DEF LruIInv, OwnNodeInPlace
  <2>2. ASSUME at = "callback", own' = "nothing" PROVE list' # <<>> /\ list'[1] = node
    <3>1. list[1] = node /\ k # node
      BY <2>1, <2>2 DEF LruIInv, OwnNodeInPlace
    <3>2. Len(list') >= 1 /\ list'[1] = node
      BY <1>3, <3>1
    <3> QED BY <1>3, <3>2, EmptySeq
  <2> QED BY <1>1, <2>1, <2>2 DEF OwnNodeInPlace
<1>9. heap' = hash' /\ buckets' > 0 /\ DeadlinesPassed' /\ OnlyOwnNodeIsTaboo'
  BY <1>1 DEF LruIInv, DeadlinesPassed, OnlyOwnNodeIsTaboo, ClientRuns
<1> QED BY <1>4, <1>5, <1>6, <1>7, <1>8, <1>9 DEF LruIInv

LEMMA TouchKeeps ==
  ASSUME LruIInv, NEW t \in Time, NEW k \in Keys, touch(t, k)
  PROVE  LruIInv'
<1> DEFINE rest == RemoveFirst(list, k)
<1>1. /\ TypeOK /\ k \in hash /\ ClientRuns /\ Passes(t)
      /\ deadline' = [deadline EXCEPT ![k] = t + Timeout]
      /\ list' = Append(rest, k)
      /\ own' = IF at = "callback" /\ k = node /\ own = "nothing" THEN "touched" ELSE own
      /\ UNCHANGED <<hash, buckets, heap, at, now, node, starved>>
  BY DEF LruIInv, touch, find, splice
<1>2. /\ list \in Seq(Keys) /\ Once(list) /\ Len(list) \in Nat
      /\ \A j \in Keys : Contains(list, j) <=> j \in hash
      /\ monotone => Ordered(list, deadline)
      /\ deadline \in [Keys -> Nat]
  BY ListFacts
<1>3. /\ rest \in Seq(Keys) /\ Len(rest) = Len(list) - 1 /\ Once(rest)
      /\ \A x : Contains(rest, x) <=> (Contains(list, x) /\ x # k)
      /\ list[1] # k => Len(rest) >= 1 /\ rest[1] = list[1]
      /\ KeepsOrderOf(rest, list)
  <2>1. Contains(list, k)
    BY <1>1, <1>2
  <2> QED BY <1>1, <1>2, <2>1, UnlinkProperties
<1> HIDE DEF rest
<1>4. /\ list' \in Seq(Keys) /\ Len(list') = Len(rest) + 1 /\ Len(rest) \in Nat /\ Once(list')
      /\ \A x : Contains(list', x) <=> (Contains(rest, x) \/ x = k)
      /\ \A i \in 1 .. Len(rest) : list'[i] = rest[i]
  BY <1>1, <1>3, PushBackProperties
<1>5. /\ deadline' \in [Keys -> 0 .. MaxTime + Timeout] /\ DeadlinesPassed'
      /\ t + Timeout \in Nat
      /\ monotone' => monotone /\ \A j \in Keys : deadline[j] <= t + Timeout
  BY <1>1, NewDeadline
<1>6. latest' \in Time /\ monotone' \in BOOLEAN
  BY <1>1, PassesProperties
<1>7. TypeOK'
  BY <1>1, <1>4, <1>5, <1>6 DEF TypeOK
<1>8. SameNodes'
  BY <1>1, <1>2, <1>3, <1>4 DEF SameNodes, Once
<1>9. SortedByDeadline'
  <2>1. ASSUME monotone' PROVE Ordered(list', deadline')
    <3>1. Ordered(rest, deadline)
      BY <1>2, <1>3, <1>5, <2>1, OrderIsKept
    <3>2. \A i \in 1 .. Len(rest) : deadline[rest[i]] <= t + Timeout
      BY <1>3, <1>5, <2>1, ElementOfSeq
    <3>3. ~Contains(rest, k)
      BY <1>3
    <3> QED BY <1>1, <1>2, <1>3, <1>5, <3>1, <3>2, <3>3, PushBackOrdered
  <2> QED BY <2>1 DEF SortedByDeadline, Ordered
<1>10. LoadBelowOne'
  <2>1. Len(list') = Len(list)
    BY <1>2, <1>3, <1>4
  <2> QED BY <1>1, <2>1 DEF LruIInv, LoadBelowOne
<1>11. OwnNodeInPlace'
  <2>1. ASSUME at = "callback", own' # "erased" PROVE node \in hash'
    BY <1>1, <2>1 DEF LruIInv, OwnNodeInPlace
  <2>2. ASSUME at = "callback", own' = "nothing" PROVE list' # <<>> /\ list'[1] = node
    <3>1. list[1] = node /\ k # node
      BY <1>1, <2>2 DEF LruIInv, OwnNodeInPlace
    <3>2. Len(list') >= 1 /\ list'[1] = node
      BY <1>3, <1>4, <3>1
    <3> QED BY <1>4, <3>2, EmptySeq
  <2> QED BY <1>1, <2>1, <2>2 DEF OwnNodeInPlace
<1>12. heap' = hash' /\ buckets' > 0 /\ OnlyOwnNodeIsTaboo'
  BY <1>1 DEF LruIInv, OnlyOwnNodeIsTaboo, ClientRuns
<1> QED BY <1>5, <1>7, <1>8, <1>9, <1>10, <1>11, <1>12 DEF LruIInv

LEMMA DestructKeeps ==
  ASSUME LruIInv, Destruct
  PROVE  LruIInv'
<1>1. /\ TypeOK /\ heap = hash /\ at = "idle"
      /\ list' = <<>> /\ hash' = {} /\ heap' = {} /\ at' = "gone"
      /\ UNCHANGED <<deadline, buckets, now, node, own, latest, monotone, starved>>
  BY DEF LruIInv, Destruct
<1>2. list' \in Seq(Keys) /\ Len(list') = 0
  BY <1>1, EmptySeq
<1>3. TypeOK'
  BY <1>1, <1>2 DEF TypeOK
<1>4. SameNodes' /\ SortedByDeadline'
  BY <1>1, <1>2 DEF SameNodes, SortedByDeadline, Contains
<1>5. LoadBelowOne' /\ buckets' > 0
  BY <1>1, <1>2 DEF LruIInv, LoadBelowOne
<1>6. DeadlinesPassed' /\ OwnNodeInPlace' /\ OnlyOwnNodeIsTaboo'
  BY <1>1 DEF LruIInv, DeadlinesPassed, OwnNodeInPlace, OnlyOwnNodeIsTaboo
<1> QED BY <1>1, <1>3, <1>4, <1>5, <1>6 DEF LruIInv

LEMMA BeginClearKeeps ==
  ASSUME LruIInv, NEW t \in Time, BeginClear(t)
  PROVE  LruIInv'
<1>1. /\ TypeOK /\ Passes(t) /\ now' = t /\ at' = "clear"
      /\ UNCHANGED <<list, hash, deadline, buckets, heap, node, own, starved>>
  BY DEF LruIInv, BeginClear
<1>2. /\ latest' \in Time /\ latest' >= latest /\ monotone' \in BOOLEAN
      /\ monotone' => monotone
  BY <1>1, PassesProperties
<1>3. TypeOK'
  BY <1>1, <1>2 DEF TypeOK
<1>4. OwnNodeInPlace' /\ OnlyOwnNodeIsTaboo'
  BY <1>1 DEF OwnNodeInPlace, OnlyOwnNodeIsTaboo
<1> QED BY <1>1, <1>2, <1>3, <1>4, ListAlone

LEMMA CallFnKeeps ==
  ASSUME LruIInv, CallFn
  PROVE  LruIInv'
<1>1. /\ TypeOK /\ list # <<>> /\ node' = Head(list) /\ own' = "nothing" /\ at' = "callback"
      /\ UNCHANGED <<list, hash, deadline, buckets, heap, now, latest, monotone, starved>>
  BY DEF LruIInv, CallFn, FrontExpired
<1>2. list \in Seq(Keys) /\ Len(list) \in Nat /\ \A k \in Keys : Contains(list, k) <=> k \in hash
  BY ListFacts
<1>3. Len(list) >= 1 /\ Head(list) = list[1] /\ list[1] \in Keys
  <2>1. Len(list) # 0
    BY <1>1, <1>2, EmptySeq
  <2> QED BY <1>1, <1>2, <2>1, HeadTailProperties, ElementOfSeq
<1>4. list[1] \in hash
  BY <1>2, <1>3 DEF Contains
<1>5. TypeOK'
  BY <1>1, <1>3 DEF TypeOK
<1>6. OwnNodeInPlace' /\ OnlyOwnNodeIsTaboo'
  BY <1>1, <1>3, <1>4 DEF OwnNodeInPlace, OnlyOwnNodeIsTaboo
<1>7. latest' >= latest
  BY <1>1 DEF TypeOK, Time
<1> QED BY <1>1, <1>5, <1>6, <1>7, ListAlone

LEMMA EndOfClearKeeps ==
  ASSUME LruIInv, FnThrows \/ EndClear
  PROVE  LruIInv'
<1>1. /\ TypeOK /\ at' = "idle"
      /\ UNCHANGED <<list, hash, deadline, buckets, heap, now, node, own, latest, monotone, starved>>
  BY DEF LruIInv, FnThrows, EndClear
<1>2. TypeOK'
  BY <1>1 DEF TypeOK
<1>3. OwnNodeInPlace' /\ OnlyOwnNodeIsTaboo'
  BY <1>1 DEF OwnNodeInPlace, OnlyOwnNodeIsTaboo
<1>4. latest' >= latest
  BY <1>1 DEF TypeOK, Time
<1> QED BY <1>1, <1>2, <1>3, <1>4, ListAlone

(* The node fn was called with is dropped from both structures, or, when   *)
(* fn has interfered with it, the cache is corrupt.                        *)
LEMMA DropNodeKeeps ==
  ASSUME LruIInv, DropNode
  PROVE  LruIInv'
<1>1. /\ TypeOK /\ at = "callback" /\ heap = hash
      /\ UNCHANGED <<deadline, buckets, now, node, own, latest, monotone, starved>>
  BY DEF LruIInv, DropNode
<1>2. /\ list \in Seq(Keys) /\ Once(list) /\ Len(list) \in Nat
      /\ \A k \in Keys : Contains(list, k) <=> k \in hash
      /\ monotone => Ordered(list, deadline)
  BY ListFacts
<1>3. /\ own # "erased" => node \in hash
      /\ own = "nothing" => list # <<>> /\ list[1] = node
  BY <1>1 DEF LruIInv, OwnNodeInPlace
<1>4. own # "erased" => list # <<>> /\ Len(list) >= 1 /\ Head(list) = list[1]
  <2>1. ASSUME own # "erased" PROVE Len(list) # 0
    BY <1>1, <1>2, <1>3, <2>1 DEF TypeOK, Contains
  <2> QED BY <1>2, <2>1, EmptySeq, HeadTailProperties
<1>5. CASE own # "erased" /\ Head(list) = node
  <2>1. hash' = hash \ {node} /\ list' = Tail(list) /\ heap' = hash \ {node} /\ at' = "clear"
    BY <1>1, <1>5 DEF DropNode
  <2>2. list # <<>> /\ Len(list) >= 1 /\ list[1] = node
    BY <1>4, <1>5
  <2>3. /\ list' \in Seq(Keys) /\ Len(list') = Len(list) - 1
        /\ \A i \in 1 .. Len(list') : list'[i] = list[i + 1]
    BY <1>2, <2>1, <2>2, HeadTailProperties
  <2>4. TypeOK'
    BY <1>1, <2>1, <2>3 DEF TypeOK
  <2>5. Once(list')
    BY <1>2, <2>3 DEF Once
  <2>6. ASSUME NEW k \in Keys PROVE Contains(list', k) <=> k \in hash'
    <3>1. ASSUME Contains(list', k) PROVE Contains(list, k) /\ k # node
      <4>1. PICK i \in 1 .. Len(list') : list'[i] = k
        BY <3>1 DEF Contains
      <4>2. i + 1 \in 1 .. Len(list) /\ list[i + 1] = k /\ i + 1 # 1 /\ 1 \in 1 .. Len(list)
        BY <1>2, <2>2, <2>3, <4>1
      <4> QED BY <1>2, <2>2, <4>2 DEF Contains, Once
    <3>2. ASSUME Contains(list, k), k # node PROVE Contains(list', k)
      <4>1. PICK i \in 1 .. Len(list) : list[i] = k
        BY <3>2 DEF Contains
      <4>2. i - 1 \in 1 .. Len(list') /\ list'[i - 1] = k
        BY <1>2, <2>2, <2>3, <3>2, <4>1
      <4> QED BY <4>2 DEF Contains
    <3> QED BY <1>2, <2>1, <3>1, <3>2
  <2>7. SameNodes'
    BY <2>5, <2>6 DEF SameNodes, Once
  <2>8. SortedByDeadline'
    <3>1. monotone => Ordered(list', deadline)
      BY <1>2, <2>3 DEF Ordered
    <3> QED BY <1>1, <3>1 DEF SortedByDeadline, Ordered
  <2>9. LoadBelowOne'
    <3>1. starved \/ Len(list) < buckets
      BY DEF LruIInv, LoadBelowOne
    <3>2. Len(list) < buckets => Len(list') < buckets
      BY <1>1, <1>2, <2>3 DEF TypeOK
    <3> QED BY <1>1, <3>1, <3>2 DEF LoadBelowOne
  <2>10. /\ heap' = hash' /\ buckets' > 0 /\ DeadlinesPassed'
         /\ OwnNodeInPlace' /\ OnlyOwnNodeIsTaboo'
    BY <1>1, <2>1 DEF LruIInv, DeadlinesPassed, OwnNodeInPlace, OnlyOwnNodeIsTaboo
  <2> QED BY <2>4, <2>7, <2>8, <2>9, <2>10 DEF LruIInv
<1>6. CASE ~(own # "erased" /\ Head(list) = node)
  <2>1. at' = "corrupt" /\ UNCHANGED <<list, hash, heap>>
    BY <1>6 DEF DropNode
  <2>2. own # "nothing"
    BY <1>3, <1>4, <1>6
  <2>3. TypeOK'
    BY <1>1, <2>1 DEF TypeOK
  <2>4. OwnNodeInPlace' /\ OnlyOwnNodeIsTaboo'
    BY <1>1, <2>1, <2>2 DEF OwnNodeInPlace, OnlyOwnNodeIsTaboo
  <2>5. latest' >= latest
    BY <1>1 DEF TypeOK, Time
  <2> QED BY <1>1, <2>1, <2>3, <2>4, <2>5, ListAlone
<1> QED BY <1>5, <1>6

LEMMA LruInit == Init => LruIInv
<1> SUFFICES ASSUME Init PROVE LruIInv
  OBVIOUS
<1>1. list \in Seq(Keys) /\ Len(list) = 0
  BY EmptySeq DEF Init
<1>2. MaxTime \in Nat /\ Timeout \in Nat /\ InitialBuckets \in Nat \ {0} /\ 0 \in Time
  BY ConstantsAssumption DEF Time
<1>3. TypeOK
  <2>1. deadline \in [Keys -> 0 .. MaxTime + Timeout] /\ buckets \in Nat
    BY <1>2 DEF Init
  <2>2. latest \in Time /\ now \in Time
    BY <1>2 DEF Init
  <2>3. /\ hash \subseteq Keys /\ heap \subseteq Keys /\ node \in Keys
        /\ at \in {"idle", "clear", "callback", "corrupt", "gone"}
        /\ own \in {"nothing", "touched", "erased"}
        /\ monotone \in BOOLEAN /\ starved \in BOOLEAN
    BY DEF Init
  <2> QED BY <1>1, <2>1, <2>2, <2>3 DEF TypeOK
<1>4. SameNodes /\ SortedByDeadline
  BY <1>1 DEF Init, SameNodes, SortedByDeadline, Contains
<1>5. LoadBelowOne /\ buckets > 0 /\ heap = hash
  BY <1>1, <1>2 DEF Init, LoadBelowOne
<1>6. DeadlinesPassed
  BY <1>2 DEF Init, DeadlinesPassed
<1>7. OwnNodeInPlace /\ OnlyOwnNodeIsTaboo
  BY DEF Init, OwnNodeInPlace, OnlyOwnNodeIsTaboo
<1> QED BY <1>3, <1>4, <1>5, <1>6, <1>7 DEF LruIInv

LEMMA LruStep == LruIInv /\ [Next]_vars => LruIInv'
<1> SUFFICES ASSUME LruIInv, [Next]_vars PROVE LruIInv'
  OBVIOUS
<1>1. ASSUME NEW k \in Keys, erase(k) PROVE LruIInv'
  BY <1>1, EraseKeeps
<1>2. ASSUME NEW t \in Time, NEW k \in Keys, InsertExisting(t, k) PROVE LruIInv'
  BY <1>2, InsertExistingKeeps
<1>3. ASSUME NEW t \in Time, NEW k \in Keys, InsertNew(t, k) PROVE LruIInv'
  BY <1>3, InsertNewKeeps
<1>4. ASSUME NEW t \in Time, NEW k \in Keys, touch(t, k) PROVE LruIInv'
  BY <1>4, TouchKeeps
<1>5. ASSUME NEW t \in Time, BeginClear(t) PROVE LruIInv'
  BY <1>5, BeginClearKeeps
<1>6. CASE CallFn
  BY <1>6, CallFnKeeps
<1>7. CASE DropNode
  BY <1>7, DropNodeKeeps
<1>8. CASE FnThrows \/ EndClear
  BY <1>8, EndOfClearKeeps
<1>9. CASE Destruct
  BY <1>9, DestructKeeps
<1>10. CASE UNCHANGED vars
  <2>1. TypeOK /\ TypeOK' /\ OwnNodeInPlace' /\ OnlyOwnNodeIsTaboo'
    BY <1>10 DEF vars, LruIInv, TypeOK, OwnNodeInPlace, OnlyOwnNodeIsTaboo
  <2>2. latest' >= latest
    BY <1>10, <2>1 DEF vars, TypeOK, Time
  <2> QED BY <1>10, <2>1, <2>2, ListAlone DEF vars
<1> QED BY <1>1, <1>2, <1>3, <1>4, <1>5, <1>6, <1>7, <1>8, <1>9, <1>10 DEF Next

LEMMA LruIInvAlways == Spec => []LruIInv
BY LruInit, LruStep, PTL DEF Spec

-----------------------------------------------------------------------------
(* The theorems. *)

(* The list and the hash set hold the same nodes, the list in order of     *)
(* deadlines while times do not go back, the load stays below one unless   *)
(* memory was refused, and every node is freed exactly once, whatever      *)
(* clients and callbacks insert, touch and erase (lru_cache.h).            *)
THEOREM CacheStaysSound == Spec => []CacheInv
<1>1. LruIInv => CacheInv
  BY DEF LruIInv, CacheInv, NodesFreedOnce
<1> QED BY <1>1, LruIInvAlways, PTL

(* A callback that does not touch or erase the node it is called with      *)
(* cannot corrupt the cache, whatever else it does to it (clear_expired).  *)
THEOREM CallbacksMayUseTheCache == Spec => []OnlyOwnNodeIsTaboo
<1>1. LruIInv => OnlyOwnNodeIsTaboo
  BY DEF LruIInv
<1> QED BY <1>1, LruIInvAlways, PTL

(* clear_expired, which stops at the first node that is not due, leaves no *)
(* expired node behind, as long as times do not go back.                   *)
THEOREM ClearExpiredIsComplete == Spec => NoExpiredLeft
<1> DEFINE Complete == at = "clear" /\ at' = "idle" /\ monotone => \A k \in hash : deadline[k] > now
<1>1. LruIInv /\ Next => Complete
  <2> SUFFICES ASSUME LruIInv, Next, at = "clear", at' = "idle", monotone, NEW k \in hash
               PROVE  deadline[k] > now
    OBVIOUS
  <2>1. ~FrontExpired
    BY DEF Next, ClientRuns, erase, InsertExisting, InsertNew, touch, BeginClear, CallFn,
           DropNode, FnThrows, EndClear, Destruct
  <2>2. /\ list \in Seq(Keys) /\ Len(list) \in Nat /\ deadline \in [Keys -> Nat]
        /\ \A j \in Keys : Contains(list, j) <=> j \in hash
        /\ Ordered(list, deadline)
    BY ListFacts
  <2>3. k \in Keys /\ now \in Nat
    BY DEF LruIInv, TypeOK, Time
  <2>4. PICK i \in 1 .. Len(list) : list[i] = k
    BY <2>2, <2>3 DEF Contains
  <2>5. list # <<>> /\ Head(list) = list[1] /\ list[1] \in Keys /\ 1 \in 1 .. Len(list)
    <3>1. Len(list) # 0 /\ 1 \in 1 .. Len(list)
      BY <2>2, <2>4
    <3>2. list # <<>>
      BY <2>2, <3>1, EmptySeq
    <3> QED BY <2>2, <3>1, <3>2, HeadTailProperties, ElementOfSeq
  <2>6. deadline[list[1]] > now
    BY <2>1, <2>2, <2>3, <2>5 DEF FrontExpired
  <2>7. deadline[list[1]] <= deadline[k]
    <3>1. CASE i = 1
      BY <2>2, <2>3, <2>4, <3>1
    <3>2. CASE i # 1
      <4>1. 1 < i
        BY <2>2, <2>4, <3>2
      <4> QED BY <2>2, <2>4, <2>5, <4>1 DEF Ordered
    <3> QED BY <3>1, <3>2
  <2> QED BY <2>2, <2>3, <2>5, <2>6, <2>7
<1>2. LruIInv /\ [Next]_vars => [Complete]_vars
  BY <1>1
<1>3. [][Complete]_vars <=> NoExpiredLeft
  BY DEF NoExpiredLeft
<1> HIDE DEF Complete
<1> QED BY <1>2, <1>3, LruIInvAlways, PTL DEF Spec
=============================================================================
