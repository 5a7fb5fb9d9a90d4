------------------------------ MODULE LruCache ------------------------------
(***************************************************************************)
(* LruCache: every node hangs in two intrusive structures, the list in     *)
(* order of use and the hash set, and carries the deadline by which        *)
(* clear_expired drops it from the front of the list.  clear_expired calls *)
(* client code for each node before it removes it, and that code may use   *)
(* the cache.                                                              *)
(*                                                                         *)
(* A node is named by its key.  Values are left out: no step looks at one. *)
(***************************************************************************)
EXTENDS Integers, Sequences, SequencesExt

CONSTANTS
  Keys,
  MaxTime,         \* bound on the times clients pass as now
  Timeout,         \* the constructor's timeout
  InitialBuckets   \* alloc_buckets(16) in the constructor

ASSUME ConstantsAssumption ==
  MaxTime \in Nat /\ Timeout \in Nat /\ InitialBuckets \in Nat \ {0}

Time == 0 .. MaxTime

VARIABLES
  list,      \* list_, front first
  hash,      \* the keys in hash_
  deadline,  \* deadline_ of each node
  buckets,   \* hash_.bucket_count()
  heap,      \* the nodes that are allocated
  at,        \* "idle", "clear" (top of clear_expired's loop), "callback", "corrupt", "gone"
  now,       \* clear_expired's argument
  node,      \* the key of the node clear_expired is dropping
  own,       \* what fn has done to that node: "nothing", "touched", "erased"
  latest,    \* the latest time a client has passed
  monotone,  \* no client has passed an earlier time after a later one
  starved    \* a rehash has failed for want of memory

vars == <<list, hash, deadline, buckets, heap, at, now, node, own, latest, monotone, starved>>

TypeOK ==
  /\ list \in Seq(Keys) /\ hash \subseteq Keys
  /\ deadline \in [Keys -> 0 .. MaxTime + Timeout]
  /\ buckets \in Nat /\ heap \subseteq Keys
  /\ at \in {"idle", "clear", "callback", "corrupt", "gone"}
  /\ now \in Time /\ node \in Keys /\ own \in {"nothing", "touched", "erased"}
  /\ latest \in Time /\ monotone \in BOOLEAN /\ starved \in BOOLEAN

Init ==
  /\ list = <<>> /\ hash = {}
  /\ deadline = [k \in Keys |-> 0]
  /\ buckets = InitialBuckets /\ heap = {}
  /\ at = "idle" /\ now = 0 /\ node \in Keys /\ own = "nothing"
  /\ latest = 0 /\ monotone = TRUE /\ starved = FALSE

ClientRuns == at \in {"idle", "callback"}

(* A client passes t as now. *)
Passes(t) ==
  /\ latest' = IF t > latest THEN t ELSE latest
  /\ monotone' = (monotone /\ t >= latest)

-----------------------------------------------------------------------------
(* find, which also makes the iterators erase and touch are given. *)
find(k) == k \in hash

(* insert of a key that is there returns its node, unchanged. *)
InsertExisting(t, k) ==
  /\ ClientRuns /\ find(k)
  /\ Passes(t)
  /\ UNCHANGED <<list, hash, deadline, buckets, heap, at, now, node, own, starved>>

(* Mutant: the new node goes to the front of the list. *)
push_front(k) == <<k>> \o list

push_back(k) == Append(list, k)

(* insert of a new key: a node at the back of the list and in the hash     *)
(* set, and twice the buckets when there are as many nodes.  The new       *)
(* bucket array may not be had: then insert throws with the node in place. *)
InsertNew(t, k) ==
  /\ ClientRuns /\ ~find(k)
  /\ Passes(t)
  /\ deadline' = [deadline EXCEPT ![k] = t + Timeout]
  /\ heap' = heap \cup {k}
  /\ list' = push_back(k)
  /\ hash' = hash \cup {k}
  /\ IF Len(list') >= buckets
     THEN \/ buckets' = 2 * buckets /\ UNCHANGED starved
          \/ UNCHANGED buckets /\ starved' = TRUE
     ELSE UNCHANGED <<buckets, starved>>
  /\ UNCHANGED <<at, now, node, own>>

erase(k) ==
  /\ ClientRuns /\ find(k)
  /\ hash' = hash \ {k}
  /\ list' = RemoveFirst(list, k)
  /\ heap' = heap \ {k}
  /\ own' = IF at = "callback" /\ k = node THEN "erased" ELSE own
  /\ UNCHANGED <<deadline, buckets, at, now, node, latest, monotone, starved>>

(* Mutant: the touched node keeps its place in the list. *)
splice_none(k) == list

splice(k) == Append(RemoveFirst(list, k), k)

(* touch: a new deadline, and splice to the back of the list. *)
touch(t, k) ==
  /\ ClientRuns /\ find(k)
  /\ Passes(t)
  /\ deadline' = [deadline EXCEPT ![k] = t + Timeout]
  /\ list' = splice(k)
  /\ own' = IF at = "callback" /\ k = node /\ own = "nothing" THEN "touched" ELSE own
  /\ UNCHANGED <<hash, buckets, heap, at, now, node, starved>>

(* ~LruCache: the nodes in the hash set are freed.  (The bucket array of   *)
(* alloc_buckets is not, as that of boost's set is its user's to free.)    *)
Destruct ==
  /\ at = "idle"
  /\ list' = <<>> /\ hash' = {}
  /\ heap' = heap \ hash
  /\ at' = "gone"
  /\ UNCHANGED <<deadline, buckets, now, node, own, latest, monotone, starved>>

-----------------------------------------------------------------------------
(* clear_expired. *)
BeginClear(t) ==
  /\ at = "idle"
  /\ Passes(t)
  /\ now' = t
  /\ at' = "clear"
  /\ UNCHANGED <<list, hash, deadline, buckets, heap, node, own, starved>>

(* Mutant: a deadline that is reached, not passed, does not count. *)
FrontOverdue == IF list = <<>> THEN FALSE ELSE deadline[Head(list)] < now

FrontExpired == IF list = <<>> THEN FALSE ELSE ~(deadline[Head(list)] > now)

(* The front node has expired: fn is called with it, *)
CallFn ==
  /\ at = "clear" /\ FrontExpired
  /\ node' = Head(list) /\ own' = "nothing"
  /\ at' = "callback"
  /\ UNCHANGED <<list, hash, deadline, buckets, heap, now, latest, monotone, starved>>

(* and then it is erased from the hash set and the front of the list is    *)
(* popped.  If fn erased it, or moved it from the front, that erases a     *)
(* node twice or frees one that is still linked.                           *)
DropNode ==
  /\ at = "callback"
  /\ IF own # "erased" /\ Head(list) = node
     THEN /\ hash' = hash \ {node}
          /\ list' = Tail(list)
          /\ heap' = heap \ {node}
          /\ at' = "clear"
     ELSE at' = "corrupt" /\ UNCHANGED <<list, hash, heap>>
  /\ UNCHANGED <<deadline, buckets, now, node, own, latest, monotone, starved>>

(* fn throws: clear_expired ends with the node in place. *)
FnThrows ==
  /\ at = "callback"
  /\ at' = "idle"
  /\ UNCHANGED <<list, hash, deadline, buckets, heap, now, node, own, latest, monotone, starved>>

EndClear ==
  /\ at = "clear" /\ ~FrontExpired
  /\ at' = "idle"
  /\ UNCHANGED <<list, hash, deadline, buckets, heap, now, node, own, latest, monotone, starved>>

Next ==
  \/ \E k \in Keys : erase(k)
  \/ \E t \in Time, k \in Keys : InsertExisting(t, k) \/ InsertNew(t, k) \/ touch(t, k)
  \/ \E t \in Time : BeginClear(t)
  \/ CallFn \/ DropNode \/ FnThrows \/ EndClear \/ Destruct

Spec == Init /\ [][Next]_vars

-----------------------------------------------------------------------------
(* The list and the hash set hold the same nodes, each once, between any   *)
(* two operations and in the middle of clear_expired.                      *)
SameNodes ==
  /\ \A k \in Keys : Contains(list, k) <=> k \in hash
  /\ \A i, j \in 1 .. Len(list) : list[i] = list[j] => i = j

(* As long as clients pass times that do not go back, the list is in order *)
(* of deadlines, whatever was touched, erased or inserted from within a    *)
(* callback: clear_expired may stop at the first node that is not due.     *)
SortedByDeadline ==
  monotone => \A i, j \in 1 .. Len(list) : i < j => deadline[list[i]] <= deadline[list[j]]

(* clear_expired leaves no expired node behind, if times do not go back.   *)
NoExpiredLeft ==
  [][at = "clear" /\ at' = "idle" /\ monotone => \A k \in hash : deadline[k] > now]_vars

(* A callback may insert, touch and erase nodes, and let the buckets grow, *)
(* as long as it leaves its own node alone: clear_expired then finds that  *)
(* node still linked and still in front, and the structures stay sound.    *)
OnlyOwnNodeIsTaboo == at = "corrupt" => own # "nothing"

(* The hash set never has as many nodes as buckets, unless memory for more *)
(* buckets was once refused.                                               *)
LoadBelowOne == starved \/ Len(list) < buckets

(* A node is allocated exactly as long as it is in the cache: erase,       *)
(* clear_expired and the destructor free each once, also after an insert   *)
(* that threw.                                                             *)
NodesFreedOnce == at # "corrupt" => heap = hash

(* The cache is well formed, its list in order and its nodes owned, *)
(* between any two operations and in the middle of clear_expired.          *)
CacheInv == TypeOK /\ SameNodes /\ SortedByDeadline /\ LoadBelowOne /\ NodesFreedOnce
=============================================================================
