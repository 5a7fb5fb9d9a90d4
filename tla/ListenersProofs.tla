-------------------------- MODULE ListenersProofs --------------------------
(***************************************************************************)
(* The two kinds of listeners that event_dispatch keeps in vectors which   *)
(* the listeners themselves change while they are called.                  *)
(*                                                                         *)
(* The timeout listeners, for any clients and any bounds: on_timeout's     *)
(* queue stays a heap, an entry that was called is the one that is taken   *)
(* away, and none that is due is left when on_timeout returns.             *)
(*                                                                         *)
(* The loop listeners, for any set of them: on_loop's range-for calls      *)
(* through no pointer that was never registered unless one registered, and *)
(* calls everybody once unless one unregistered or the vector moved.       *)
(***************************************************************************)
EXTENDS TimeoutQueue, LoopListeners, FiniteSetTheorems, SequenceTheorems, TLAPS

-----------------------------------------------------------------------------
(* Bags.  An entry is added or taken away as one element of the vector. *)
Bag == UNION {[S -> Nat \ {0}] : S \in SUBSET TimeoutListenerWrapper}

LEMMA BagFacts ==
  ASSUME NEW b \in Bag
  PROVE  /\ DOMAIN b \subseteq TimeoutListenerWrapper
         /\ b = [e \in DOMAIN b |-> b[e]]
         /\ \A e \in DOMAIN b : b[e] \in Nat \ {0}
         /\ b = NoEntries <=> DOMAIN b = {}
<1>1. PICK S \in SUBSET TimeoutListenerWrapper : b \in [S -> Nat \ {0}]
  BY DEF Bag
<1>2. b = NoEntries <=> DOMAIN b = {}
  BY <1>1 DEF NoEntries
<1> QED BY <1>1, <1>2

LEMMA BagIntro ==
  ASSUME NEW S \in SUBSET TimeoutListenerWrapper, NEW b \in [S -> Nat \ {0}]
  PROVE  b \in Bag
BY DEF Bag

LEMMA ElementsDef ==
  ASSUME NEW b, NEW x
  PROVE  x \in Elements(b) <=> \E e \in DOMAIN b : \E k \in 1 .. b[e] : x = <<e, k>>
BY DEF Elements

LEMMA AddIsBag ==
  ASSUME NEW b \in Bag, NEW e \in TimeoutListenerWrapper
  PROVE  /\ BagAdd(b, e) \in Bag
         /\ DOMAIN BagAdd(b, e) = DOMAIN b \cup {e}
         /\ \A f \in DOMAIN b : BagAdd(b, e)[f] = IF f = e THEN b[f] + 1 ELSE b[f]
         /\ e \notin DOMAIN b => BagAdd(b, e)[e] = 1
<1> USE BagFacts
<1>1. CASE e \in DOMAIN b
  <2> DEFINE c == [f \in DOMAIN b |-> IF f = e THEN b[f] + 1 ELSE b[f]]
  <2>1. BagAdd(b, e) = c BY <1>1 DEF BagAdd
  <2>2. c \in [DOMAIN b -> Nat \ {0}] OBVIOUS
  <2> HIDE DEF c
  <2>3. c \in Bag BY <2>2, BagIntro
  <2>4. \A f \in DOMAIN b : c[f] = IF f = e THEN b[f] + 1 ELSE b[f] BY DEF c
  <2>5. DOMAIN c = DOMAIN b \cup {e} BY <1>1 DEF c
  <2> QED BY <1>1, <2>1, <2>3, <2>4, <2>5
<1>2. CASE e \notin DOMAIN b
  <2> DEFINE c == [f \in DOMAIN b \cup {e} |-> IF f = e THEN 1 ELSE b[f]]
  <2>1. BagAdd(b, e) = c BY <1>2 DEF BagAdd
  <2>2. c \in [DOMAIN b \cup {e} -> Nat \ {0}] BY <1>2
  <2>3. DOMAIN b \cup {e} \in SUBSET TimeoutListenerWrapper OBVIOUS
  <2> HIDE DEF c
  <2>4. c \in Bag BY <2>2, <2>3, BagIntro
  <2>5. \A f \in DOMAIN b : c[f] = IF f = e THEN b[f] + 1 ELSE b[f] BY <1>2 DEF c
  <2>6. DOMAIN c = DOMAIN b \cup {e} /\ c[e] = 1 BY DEF c
  <2> QED BY <1>2, <2>1, <2>4, <2>5, <2>6
<1> QED BY <1>1, <1>2

LEMMA RemoveIsBag ==
  ASSUME NEW b \in Bag, NEW e \in DOMAIN b
  PROVE  /\ BagRemove(b, e) \in Bag
         /\ DOMAIN BagRemove(b, e) = IF b[e] = 1 THEN DOMAIN b \ {e} ELSE DOMAIN b
         /\ \A f \in DOMAIN BagRemove(b, e) : BagRemove(b, e)[f] = IF f = e THEN b[f] - 1 ELSE b[f]
<1> USE BagFacts
<1>1. CASE b[e] = 1
  <2> DEFINE c == [f \in DOMAIN b \ {e} |-> b[f]]
  <2>1. BagRemove(b, e) = c BY <1>1 DEF BagRemove
  <2>2. c \in [DOMAIN b \ {e} -> Nat \ {0}] /\ DOMAIN b \ {e} \in SUBSET TimeoutListenerWrapper
    OBVIOUS
  <2> HIDE DEF c
  <2>3. c \in Bag BY <2>2, BagIntro
  <2>4. DOMAIN c = DOMAIN b \ {e} /\ \A f \in DOMAIN c : c[f] = IF f = e THEN b[f] - 1 ELSE b[f]
    BY DEF c
  <2> QED BY <1>1, <2>1, <2>3, <2>4
<1>2. CASE b[e] # 1
  <2> DEFINE c == [f \in DOMAIN b |-> IF f = e THEN b[f] - 1 ELSE b[f]]
  <2>1. BagRemove(b, e) = c BY <1>2 DEF BagRemove
  <2>2. c \in [DOMAIN b -> Nat \ {0}] BY <1>2
  <2> HIDE DEF c
  <2>3. c \in Bag BY <2>2, BagIntro
  <2>4. DOMAIN c = DOMAIN b /\ \A f \in DOMAIN c : c[f] = IF f = e THEN b[f] - 1 ELSE b[f]
    BY DEF c
  <2> QED BY <1>2, <2>1, <2>3, <2>4
<1> QED BY <1>1, <1>2

LEMMA BagsEqual ==
  ASSUME NEW b \in Bag, NEW c \in Bag, DOMAIN b = DOMAIN c, \A e \in DOMAIN b : b[e] = c[e]
  PROVE  b = c
BY BagFacts

(* What is added stays when another entry, or an equal one, is taken away. *)
LEMMA AddRemoveCommute ==
  ASSUME NEW b \in Bag, NEW e \in DOMAIN b, NEW f \in TimeoutListenerWrapper
  PROVE  BagRemove(BagAdd(b, f), e) = BagAdd(BagRemove(b, e), f)
<1> DEFINE c == BagAdd(b, f)
           d == BagRemove(b, e)
           u == BagRemove(c, e)
           v == BagAdd(d, f)
<1>1. /\ c \in Bag
      /\ DOMAIN c = DOMAIN b \cup {f} /\ e \in DOMAIN c
      /\ (\A g \in DOMAIN b : c[g] = IF g = f THEN b[g] + 1 ELSE b[g])
      /\ (f \notin DOMAIN b => c[f] = 1)
  BY AddIsBag
<1>2. /\ d \in Bag
      /\ DOMAIN d = IF b[e] = 1 THEN DOMAIN b \ {e} ELSE DOMAIN b
      /\ \A g \in DOMAIN d : d[g] = IF g = e THEN b[g] - 1 ELSE b[g]
  BY RemoveIsBag
<1> HIDE DEF c, d
<1>3. /\ u \in Bag
      /\ DOMAIN u = IF c[e] = 1 THEN DOMAIN c \ {e} ELSE DOMAIN c
      /\ \A g \in DOMAIN u : u[g] = IF g = e THEN c[g] - 1 ELSE c[g]
  BY <1>1, RemoveIsBag
<1>4. /\ v \in Bag
      /\ DOMAIN v = DOMAIN d \cup {f}
      /\ (\A g \in DOMAIN d : v[g] = IF g = f THEN d[g] + 1 ELSE d[g])
      /\ (f \notin DOMAIN d => v[f] = 1)
  BY <1>2, AddIsBag
<1> HIDE DEF u, v
<1>5. \A g \in DOMAIN b : b[g] \in Nat \ {0} BY BagFacts
<1>6. DOMAIN u = DOMAIN v
  BY <1>1, <1>2, <1>3, <1>4, <1>5
<1>7. \A g \in DOMAIN u : u[g] = v[g]
  BY <1>1, <1>2, <1>3, <1>4, <1>5, <1>6
<1>8. u = v
  BY <1>3, <1>4, <1>6, <1>7, BagsEqual
<1> QED BY <1>8 DEF u, v, c, d

LEMMA AddGrows ==
  ASSUME NEW b \in Bag, NEW e \in TimeoutListenerWrapper, IsFiniteSet(Elements(b))
  PROVE  /\ IsFiniteSet(Elements(BagAdd(b, e)))
         /\ Size(BagAdd(b, e)) = Size(b) + 1
<1> DEFINE c == BagAdd(b, e)
           x == <<e, c[e]>>
<1>1. /\ c \in Bag
      /\ DOMAIN c = DOMAIN b \cup {e}
      /\ (\A f \in DOMAIN b : c[f] = IF f = e THEN b[f] + 1 ELSE b[f])
      /\ (e \notin DOMAIN b => c[e] = 1)
  BY AddIsBag
<1> HIDE DEF c
<1>2. \A f \in DOMAIN b : b[f] \in Nat \ {0} BY BagFacts
<1>3. Elements(c) = Elements(b) \cup {x}
  <2>1. ASSUME NEW y \in Elements(c) PROVE y \in Elements(b) \cup {x}
    <3>0. PICK f \in DOMAIN c : \E k \in 1 .. c[f] : y = <<f, k>> BY ElementsDef
    <3>1. PICK k \in 1 .. c[f] : y = <<f, k>> BY <3>0
    <3>2. CASE f \in DOMAIN b /\ k \in 1 .. b[f] BY <3>1, <3>2, ElementsDef
    <3>3. CASE ~(f \in DOMAIN b /\ k \in 1 .. b[f])
      <4>1. f = e /\ k = c[e] BY <1>1, <1>2, <3>3
      <4> QED BY <3>1, <4>1
    <3> QED BY <3>2, <3>3
  <2>2. ASSUME NEW y \in Elements(b) PROVE y \in Elements(c)
    <3>0. PICK f \in DOMAIN b : \E k \in 1 .. b[f] : y = <<f, k>> BY ElementsDef
    <3>1. PICK k \in 1 .. b[f] : y = <<f, k>> BY <3>0
    <3>2. f \in DOMAIN c /\ k \in 1 .. c[f] BY <1>1, <1>2
    <3> QED BY <3>1, <3>2, ElementsDef
  <2>3. x \in Elements(c)
    <3>1. e \in DOMAIN c /\ c[e] \in 1 .. c[e] BY <1>1, <1>2
    <3> QED BY <3>1, ElementsDef
  <2> QED BY <2>1, <2>2, <2>3
<1>4. x \notin Elements(b)
  <2>1. ASSUME NEW f \in DOMAIN b, NEW k \in 1 .. b[f], x = <<f, k>> PROVE FALSE
    BY <1>1, <1>2, <2>1
  <2> QED BY <2>1, ElementsDef
<1> HIDE DEF x
<1>5. /\ IsFiniteSet(Elements(b) \cup {x})
      /\ Cardinality(Elements(b) \cup {x}) = Cardinality(Elements(b)) + 1
  BY <1>4, FS_AddElement
<1> QED BY <1>3, <1>5 DEF Size, c

LEMMA RemoveShrinks ==
  ASSUME NEW b \in Bag, NEW e \in DOMAIN b, IsFiniteSet(Elements(b))
  PROVE  /\ IsFiniteSet(Elements(BagRemove(b, e)))
         /\ Size(BagRemove(b, e)) = Size(b) - 1
<1> DEFINE c == BagRemove(b, e)
           x == <<e, b[e]>>
<1>1. /\ c \in Bag
      /\ DOMAIN c = IF b[e] = 1 THEN DOMAIN b \ {e} ELSE DOMAIN b
      /\ \A f \in DOMAIN c : c[f] = IF f = e THEN b[f] - 1 ELSE b[f]
  BY RemoveIsBag
<1> HIDE DEF c
<1>2. \A f \in DOMAIN b : b[f] \in Nat \ {0} BY BagFacts
<1>3. Elements(c) = Elements(b) \ {x}
  <2>1. ASSUME NEW y \in Elements(c) PROVE y \in Elements(b) \ {x}
    <3>0. PICK f \in DOMAIN c : \E k \in 1 .. c[f] : y = <<f, k>> BY ElementsDef
    <3>1. PICK k \in 1 .. c[f] : y = <<f, k>> BY <3>0
    <3>2. f \in DOMAIN b /\ k \in 1 .. b[f] /\ ~(f = e /\ k = b[e]) BY <1>1, <1>2
    <3> QED BY <3>1, <3>2, ElementsDef
  <2>2. ASSUME NEW y \in Elements(b), y # x PROVE y \in Elements(c)
    <3>0. PICK f \in DOMAIN b : \E k \in 1 .. b[f] : y = <<f, k>> BY ElementsDef
    <3>1. PICK k \in 1 .. b[f] : y = <<f, k>> BY <3>0
    <3>2. ~(f = e /\ k = b[e]) BY <2>2, <3>1
    <3>3. f \in DOMAIN c /\ k \in 1 .. c[f] BY <1>1, <1>2, <3>2
    <3> QED BY <3>1, <3>3, ElementsDef
  <2> QED BY <2>1, <2>2
<1>4. x \in Elements(b)
  <2>1. b[e] \in 1 .. b[e] BY <1>2
  <2> QED BY <2>1, ElementsDef
<1> HIDE DEF x
<1>5. /\ IsFiniteSet(Elements(b) \ {x})
      /\ Cardinality(Elements(b) \ {x}) = Cardinality(Elements(b)) - 1
  BY <1>4, FS_RemoveElement
<1> QED BY <1>3, <1>5 DEF Size, c

-----------------------------------------------------------------------------
(* The heap: a bag, of which the top has the earliest deadline, in a       *)
(* vector that holds it.                                                   *)
HeapOrdered ==
  /\ pending \in Bag /\ IsFiniteSet(Elements(pending))
  /\ IF pending = NoEntries THEN top = None ELSE top \in Earliest(pending)

ClockRuns == clock \in Time /\ now \in Time /\ now <= clock

(* The entry on_timeout works on is due, so nothing a callback registers   *)
(* is earlier.                                                             *)
FiredIsDue ==
  /\ fired \in TimeoutListenerWrapper \cup {None}
  /\ at = "called" => top = fired /\ fired \in DOMAIN pending /\ fired.deadline <= now

VectorHolds == capacity \in Nat /\ Size(pending) <= capacity

Flags == moved \in BOOLEAN /\ at \in {"idle", "scan", "called"}

QueueInv == HeapOrdered /\ ClockRuns /\ FiredIsDue /\ VectorHolds /\ Flags

LEMMA TimesAreNumbers ==
  /\ Time \subseteq Nat /\ Deadline \subseteq Nat
  /\ \A e \in TimeoutListenerWrapper :
       e.listener \in Listeners /\ e.deadline \in Nat /\ e.interval \in Intervals
  /\ \A l \in Listeners, t \in Time, i \in Intervals :
       Entry(l, t, i) \in TimeoutListenerWrapper /\ Entry(l, t, i).deadline = t + i
<1>1. Time \subseteq Nat /\ Intervals \subseteq Nat
  BY ConstantsAssumption DEF Time
<1>2. Deadline \subseteq Nat
  BY <1>1 DEF Deadline
<1>3. ASSUME NEW l \in Listeners, NEW t \in Time, NEW i \in Intervals
      PROVE  Entry(l, t, i) \in TimeoutListenerWrapper /\ Entry(l, t, i).deadline = t + i
  <2>1. t + i \in Deadline BY DEF Deadline
  <2> QED BY <2>1 DEF Entry, TimeoutListenerWrapper
<1>4. \A e \in TimeoutListenerWrapper :
        e.listener \in Listeners /\ e.deadline \in Deadline /\ e.interval \in Intervals
  BY DEF TimeoutListenerWrapper
<1> QED BY <1>1, <1>2, <1>3, <1>4

LEMMA SizeType == ASSUME NEW b \in Bag, IsFiniteSet(Elements(b)) PROVE Size(b) \in Nat
BY FS_CardinalityType DEF Size

LEMMA QueueInvImpliesHeapInv == QueueInv => HeapInv
<1> SUFFICES ASSUME QueueInv PROVE HeapInv
  OBVIOUS
<1> USE DEF QueueInv
<1>1. /\ DOMAIN pending \subseteq TimeoutListenerWrapper
      /\ \A e \in DOMAIN pending : pending[e] \in Nat \ {0}
      /\ pending = NoEntries <=> DOMAIN pending = {}
  BY BagFacts DEF HeapOrdered
<1>2. top \in DOMAIN pending \cup {None} /\ (top = None <=> pending = NoEntries)
  BY <1>1, NoneAssumption DEF HeapOrdered, Earliest
<1>3. FiredStaysOnTop
  BY DEF FiredIsDue, FiredStaysOnTop
<1>4. TypeOK
  BY <1>1, <1>2 DEF TypeOK, ClockRuns, FiredIsDue, VectorHolds, Flags
<1> QED BY <1>3, <1>4 DEF HeapInv

LEMMA InitQueue == Init => QueueInv
<1> SUFFICES ASSUME Init PROVE QueueInv
  OBVIOUS
<1> USE DEF Init
<1>1. Elements(pending) = {}
  BY DEF NoEntries, Elements
<1>2. HeapOrdered
  <2>1. NoEntries \in [{} -> Nat \ {0}] BY DEF NoEntries
  <2>2. pending \in Bag BY <2>1, BagIntro
  <2> QED BY <1>1, <2>2, FS_EmptySet DEF HeapOrdered
<1>3. ClockRuns
  BY ConstantsAssumption DEF ClockRuns, Time
<1>4. VectorHolds
  BY <1>1, FS_EmptySet DEF VectorHolds, Size
<1>5. FiredIsDue BY DEF FiredIsDue
<1>6. Flags BY DEF Flags
<1> QED BY <1>2, <1>3, <1>4, <1>5, <1>6 DEF QueueInv

(* emplace: the top is the earliest entry again. *)
LEMMA AddKeepsOrder ==
  ASSUME HeapOrdered, NEW e \in TimeoutListenerWrapper
  PROVE  /\ BagAdd(pending, e) \in Bag /\ BagAdd(pending, e) # NoEntries
         /\ Risen(e) \in Earliest(BagAdd(pending, e))
<1> DEFINE c == BagAdd(pending, e)
<1>1. c \in Bag /\ DOMAIN c = DOMAIN pending \cup {e}
  BY AddIsBag DEF HeapOrdered
<1>2. DOMAIN pending \subseteq TimeoutListenerWrapper /\ (pending = NoEntries <=> DOMAIN pending = {})
  BY BagFacts DEF HeapOrdered
<1>3. c # NoEntries
  BY <1>1, BagFacts
<1> HIDE DEF c
<1>4. ASSUME pending = NoEntries PROVE Risen(e) \in Earliest(c)
  BY <1>1, <1>2, <1>4, TimesAreNumbers DEF HeapOrdered, Risen, Earliest
<1>5. ASSUME pending # NoEntries PROVE Risen(e) \in Earliest(c)
  <2>1. top # None /\ top \in DOMAIN pending /\ \A f \in DOMAIN pending : top.deadline <= f.deadline
    BY <1>2, <1>5, NoneAssumption DEF HeapOrdered, Earliest
  <2>2. \A f \in DOMAIN c : f.deadline \in Nat
    BY <1>1, <1>2, TimesAreNumbers
  <2>3. Risen(e) = IF top.deadline > e.deadline THEN e ELSE top
    BY <2>1 DEF Risen
  <2> QED BY <1>1, <2>1, <2>2, <2>3 DEF Earliest
<1> QED BY <1>1, <1>3, <1>4, <1>5 DEF c

(* pop: the top is taken off and an earliest entry takes its place. *)
LEMMA PopKeepsOrder ==
  ASSUME NEW b \in Bag, IsFiniteSet(Elements(b)), NEW e \in DOMAIN b, PopTop(b, e)
  PROVE  HeapOrdered' /\ Size(pending') = Size(b) - 1
<1>1. pending' = BagRemove(b, e)
  BY DEF PopTop
<1>2. pending' \in Bag /\ IsFiniteSet(Elements(pending')) /\ Size(pending') = Size(b) - 1
  BY <1>1, RemoveIsBag, RemoveShrinks
<1>3. IF pending' = NoEntries THEN top' = None ELSE top' \in Earliest(pending')
  BY <1>1 DEF PopTop
<1> QED BY <1>2, <1>3 DEF HeapOrdered

(* The vector grows when it is full. *)
LEMMA GrowthHolds ==
  ASSUME HeapOrdered, VectorHolds, capacity' = IF Full THEN Grown ELSE capacity
  PROVE  capacity' \in Nat /\ Size(pending) + 1 <= capacity'
<1>1. Size(pending) \in Nat
  BY SizeType DEF HeapOrdered
<1> QED BY <1>1 DEF VectorHolds, Full, Grown

LEMMA RegisterKeepsQueue ==
  ASSUME QueueInv, NEW l \in Listeners, NEW i \in Intervals, RegisterTimeout(l, i)
  PROVE  QueueInv'
<1> DEFINE e == Entry(l, clock, i)
<1>1. HeapOrdered /\ ClockRuns /\ FiredIsDue /\ VectorHolds /\ Flags
  BY DEF QueueInv
<1>2. e \in TimeoutListenerWrapper /\ e.deadline = clock + i /\ i \in Nat
  BY <1>1, TimesAreNumbers, ConstantsAssumption DEF ClockRuns
<1> HIDE DEF e
<1>3. pending' = BagAdd(pending, e) /\ top' = Risen(e)
  BY DEF RegisterTimeout, e
<1>4. IsFiniteSet(Elements(pending')) /\ Size(pending') = Size(pending) + 1
  BY <1>1, <1>2, <1>3, AddGrows DEF HeapOrdered
<1>5. HeapOrdered'
  <2>1. pending' \in Bag /\ pending' # NoEntries /\ top' \in Earliest(pending')
    BY <1>1, <1>2, <1>3, AddKeepsOrder
  <2> QED BY <1>4, <2>1 DEF HeapOrdered
<1>6. VectorHolds'
  <2>1. capacity' \in Nat /\ Size(pending) + 1 <= capacity'
    BY <1>1, GrowthHolds DEF RegisterTimeout
  <2> QED BY <1>4, <2>1 DEF VectorHolds
<1>7. ClockRuns'
  BY <1>1 DEF RegisterTimeout, ClockRuns
<1>8. FiredIsDue'
  <2>1. fired' = fired /\ now' = now /\ at' = at
    BY DEF RegisterTimeout
  <2>2. ASSUME at = "called" PROVE top' = fired /\ fired \in DOMAIN pending' /\ fired.deadline <= now
    <3>1. top = fired /\ fired \in DOMAIN pending /\ fired.deadline <= now
      BY <1>1, <2>2 DEF FiredIsDue
    <3>2. fired \in TimeoutListenerWrapper /\ fired # None /\ fired.deadline \in Nat
      BY <1>1, <3>1, BagFacts, NoneAssumption, TimesAreNumbers DEF HeapOrdered
    <3>3. now <= clock /\ now \in Nat /\ clock \in Nat
      BY <1>1, TimesAreNumbers DEF ClockRuns
    <3>4. ~(top.deadline > e.deadline)
      BY <1>2, <3>1, <3>2, <3>3
    <3>5. top' = fired
      BY <1>3, <3>1, <3>2, <3>4 DEF Risen
    <3>6. fired \in DOMAIN pending'
      BY <1>1, <1>2, <1>3, <3>1, AddIsBag DEF HeapOrdered
    <3> QED BY <3>1, <3>5, <3>6
  <2> QED BY <1>1, <2>1, <2>2 DEF FiredIsDue
<1>9. Flags'
  BY <1>1 DEF RegisterTimeout, Flags
<1> QED BY <1>5, <1>6, <1>7, <1>8, <1>9 DEF QueueInv

(* on_timeout's reference: the entry it was bound to is on top, and an     *)
(* entry emplaced for this round does not rise above it.                   *)
LEMMA FiredFacts ==
  ASSUME QueueInv, at = "called"
  PROVE  /\ top = fired /\ fired \in DOMAIN pending /\ fired \in TimeoutListenerWrapper
         /\ \A read \in TimeoutListenerWrapper :
              LET again == Entry(read.listener, now, read.interval)
              IN  again \in TimeoutListenerWrapper /\ Risen(again) = fired
<1>1. HeapOrdered /\ ClockRuns /\ FiredIsDue
  BY DEF QueueInv
<1>2. top = fired /\ fired \in DOMAIN pending /\ fired.deadline <= now
  BY <1>1 DEF FiredIsDue
<1>3. fired \in TimeoutListenerWrapper /\ fired # None /\ fired.deadline \in Nat
  BY <1>1, <1>2, BagFacts, NoneAssumption, TimesAreNumbers DEF HeapOrdered
<1>4. ASSUME NEW read \in TimeoutListenerWrapper
      PROVE  /\ Entry(read.listener, now, read.interval) \in TimeoutListenerWrapper
             /\ Risen(Entry(read.listener, now, read.interval)) = fired
  <2> DEFINE again == Entry(read.listener, now, read.interval)
  <2>1. read.listener \in Listeners /\ read.interval \in Intervals /\ now \in Time /\ now \in Nat
    BY <1>1, TimesAreNumbers DEF ClockRuns
  <2>2. again \in TimeoutListenerWrapper /\ again.deadline = now + read.interval
    BY <2>1, TimesAreNumbers
  <2>3. read.interval \in Nat
    BY <2>1, ConstantsAssumption
  <2> HIDE DEF again
  <2>4. ~(top.deadline > again.deadline)
    BY <1>2, <1>3, <2>1, <2>2, <2>3
  <2>5. Risen(again) = fired
    BY <1>2, <1>3, <2>4 DEF Risen
  <2> QED BY <2>2, <2>5 DEF again
<1> QED BY <1>2, <1>3, <1>4

LEMMA FalseKeepsQueue ==
  ASSUME QueueInv, ReturnsFalse
  PROVE  QueueInv' /\ pending' = BagRemove(pending, fired)
<1>1. HeapOrdered /\ ClockRuns /\ FiredIsDue /\ VectorHolds /\ Flags
  BY DEF QueueInv
<1>2. top = fired /\ fired \in DOMAIN pending
  BY FiredFacts DEF ReturnsFalse
<1>3. HeapOrdered' /\ Size(pending') = Size(pending) - 1
  BY <1>1, <1>2, PopKeepsOrder DEF HeapOrdered, ReturnsFalse
<1>4. VectorHolds'
  <2>1. Size(pending) \in Nat BY <1>1, SizeType DEF HeapOrdered
  <2>2. capacity' = capacity BY DEF ReturnsFalse
  <2> QED BY <1>1, <1>3, <2>1, <2>2 DEF VectorHolds
<1>5. ClockRuns' /\ FiredIsDue'
  BY <1>1 DEF ReturnsFalse, ClockRuns, FiredIsDue
<1>6. Flags'
  BY <1>1 DEF ReturnsFalse, Flags
<1>7. pending' = BagRemove(pending, fired)
  BY <1>2 DEF ReturnsFalse, PopTop
<1> QED BY <1>3, <1>4, <1>5, <1>6, <1>7 DEF QueueInv

LEMMA TrueKeepsQueue ==
  ASSUME QueueInv, ReturnsTrue
  PROVE  /\ QueueInv'
         /\ moved \/ pending' = BagAdd(BagRemove(pending, fired),
                                       Entry(fired.listener, now, fired.interval))
<1>1. HeapOrdered /\ ClockRuns /\ FiredIsDue /\ VectorHolds /\ Flags
  BY DEF QueueInv
<1>2. /\ top = fired /\ fired \in DOMAIN pending /\ fired \in TimeoutListenerWrapper
      /\ \A read \in TimeoutListenerWrapper :
           LET again == Entry(read.listener, now, read.interval)
           IN  again \in TimeoutListenerWrapper /\ Risen(again) = fired
  BY FiredFacts DEF ReturnsTrue
<1>3. PICK read \in TimeoutListenerWrapper :
        /\ moved \/ read = fired
        /\ PopTop(BagAdd(pending, Entry(read.listener, now, read.interval)),
                  Risen(Entry(read.listener, now, read.interval)))
  BY <1>2 DEF ReturnsTrue
<1> DEFINE again == Entry(read.listener, now, read.interval)
           b == BagAdd(pending, again)
<1>4. again \in TimeoutListenerWrapper /\ Risen(again) = fired
  BY <1>2
<1>5. PopTop(b, fired)
  BY <1>3, <1>4
<1> HIDE DEF again
<1>6. b \in Bag /\ fired \in DOMAIN b
  BY <1>1, <1>2, <1>4, AddIsBag DEF HeapOrdered
<1>7. IsFiniteSet(Elements(b)) /\ Size(b) = Size(pending) + 1
  BY <1>1, <1>4, AddGrows DEF HeapOrdered
<1>8. pending' = BagAdd(BagRemove(pending, fired), again)
  BY <1>1, <1>2, <1>4, <1>5, AddRemoveCommute DEF PopTop, HeapOrdered
<1> HIDE DEF b
<1>9. HeapOrdered' /\ Size(pending') = Size(b) - 1
  BY <1>5, <1>6, <1>7, PopKeepsOrder
<1>10. VectorHolds'
  <2>1. Size(pending) \in Nat BY <1>1, SizeType DEF HeapOrdered
  <2>2. capacity' \in Nat /\ Size(pending) + 1 <= capacity'
    BY <1>1, GrowthHolds DEF ReturnsTrue
  <2> QED BY <1>7, <1>9, <2>1, <2>2 DEF VectorHolds
<1>11. ClockRuns' /\ FiredIsDue'
  BY <1>1 DEF ReturnsTrue, ClockRuns, FiredIsDue
<1>12. Flags'
  BY <1>1 DEF ReturnsTrue, Flags
<1>13. moved \/ pending' = BagAdd(BagRemove(pending, fired), Entry(fired.listener, now, fired.interval))
  BY <1>3, <1>8 DEF again
<1> QED BY <1>9, <1>10, <1>11, <1>12, <1>13 DEF QueueInv

(* The steps that leave the heap alone. *)
LEMMA ScanKeepsQueue ==
  ASSUME QueueInv, Tick \/ BeginTimeouts \/ Fire \/ Finish \/ TimeoutThrows \/ UNCHANGED vars
  PROVE  QueueInv'
<1>1. HeapOrdered /\ ClockRuns /\ FiredIsDue /\ VectorHolds /\ Flags
  BY DEF QueueInv
<1>2. UNCHANGED <<pending, top, capacity>>
  BY DEF Tick, BeginTimeouts, Fire, Finish, TimeoutThrows, vars
<1>3. HeapOrdered' /\ VectorHolds'
  BY <1>1, <1>2 DEF HeapOrdered, VectorHolds
<1>4. ClockRuns'
  BY <1>1, ConstantsAssumption DEF ClockRuns, Time, Tick, BeginTimeouts, Fire, Finish, TimeoutThrows, vars
<1>5. FiredIsDue'
  <2>1. CASE Fire
    <3>1. top # None /\ ~(top.deadline > now)
      BY <2>1 DEF Fire, TopIsDue
    <3>2. top \in DOMAIN pending
      BY <1>1, <3>1 DEF HeapOrdered, Earliest
    <3>3. top \in TimeoutListenerWrapper /\ top.deadline \in Nat /\ now \in Nat
      BY <1>1, <3>2, BagFacts, TimesAreNumbers DEF HeapOrdered, ClockRuns
    <3> QED BY <1>2, <2>1, <3>1, <3>2, <3>3 DEF Fire, FiredIsDue
  <2>2. CASE Tick \/ Finish \/ BeginTimeouts \/ TimeoutThrows \/ UNCHANGED vars
    BY <1>1, <1>2, <2>2 DEF FiredIsDue, Tick, Finish, BeginTimeouts, TimeoutThrows, vars
  <2> QED BY <2>1, <2>2
<1>6. Flags'
  <2>1. moved' \in BOOLEAN
    BY <1>1 DEF Flags, Tick, BeginTimeouts, Fire, Finish, TimeoutThrows, vars
  <2>2. at' \in {"idle", "scan", "called"}
    BY <1>1 DEF Flags, Tick, BeginTimeouts, Fire, Finish, TimeoutThrows, vars
  <2> QED BY <2>1, <2>2 DEF Flags
<1> QED BY <1>3, <1>4, <1>5, <1>6 DEF QueueInv

LEMMA NextQueue == QueueInv /\ [Next]_vars => QueueInv'
BY RegisterKeepsQueue, FalseKeepsQueue, TrueKeepsQueue, ScanKeepsQueue DEF Next

LEMMA QueueInvariant == Spec => []QueueInv
BY InitQueue, NextQueue, PTL DEF Spec

(* timeout_listeners_ is at every step a heap whose top() is an entry with  *)
(* an earliest deadline, within its vector, and the entry whose listener    *)
(* on_timeout is calling stays on top, whatever the callback registers:     *)
(* the pop that follows is of that entry.                                   *)
THEOREM HeapStaysWellFormed == Spec => []HeapInv
BY QueueInvariant, QueueInvImpliesHeapInv, PTL

(* When a callback returns, on_timeout takes away the entry it called, and  *)
(* no other, and puts its repetition in its place if it returned true,      *)
(* unless the callback's registrations moved the vector under the           *)
(* reference on_timeout kept.                                               *)
THEOREM FiredEntriesAreReplaced == Spec => FiredEntryIsReplaced
<1> DEFINE A == at = "called" /\ at' = "scan" =>
                  LET left == BagRemove(pending, fired)
                  IN  \/ pending' = left
                      \/ pending' = BagAdd(left, Entry(fired.listener, now, fired.interval))
                      \/ moved
<1>1. QueueInv /\ [Next]_vars => [A]_vars
  <2> SUFFICES ASSUME QueueInv, Next, at = "called", at' = "scan" PROVE A
    OBVIOUS
  <2>1. ReturnsFalse \/ ReturnsTrue
    BY DEF Next, Tick, BeginTimeouts, Fire, Finish, TimeoutThrows, RegisterTimeout
  <2> QED BY <2>1, FalseKeepsQueue, TrueKeepsQueue
<1>2. [][A]_vars <=> FiredEntryIsReplaced
  BY DEF FiredEntryIsReplaced
<1> HIDE DEF A
<1> QED BY <1>1, <1>2, QueueInvariant, PTL DEF Spec

(* on_timeout returns only when nothing in the queue is due, whatever its   *)
(* callbacks registered on the way.                                         *)
THEOREM NothingDueIsForgotten == Spec => NothingDueIsLeft
<1> DEFINE A == at = "scan" /\ at' = "idle" => \A e \in DOMAIN pending : e.deadline > now
<1>1. QueueInv /\ [Next]_vars => [A]_vars
  <2> SUFFICES ASSUME QueueInv, Next, at = "scan", at' = "idle" PROVE A
    OBVIOUS
  <2>1. Finish
    BY DEF Next, Tick, BeginTimeouts, Fire, ReturnsFalse, ReturnsTrue, TimeoutThrows,
           RegisterTimeout
  <2>2. HeapOrdered /\ ClockRuns
    BY DEF QueueInv
  <2>3. /\ DOMAIN pending \subseteq TimeoutListenerWrapper
        /\ pending = NoEntries <=> DOMAIN pending = {}
    BY <2>2, BagFacts DEF HeapOrdered
  <2>4. CASE pending = NoEntries
    BY <2>3, <2>4
  <2>5. CASE pending # NoEntries
    <3>1. top \in DOMAIN pending /\ \A e \in DOMAIN pending : top.deadline <= e.deadline
      BY <2>2, <2>5 DEF HeapOrdered, Earliest
    <3>2. top.deadline > now
      BY <2>1, <2>3, <3>1, NoneAssumption DEF Finish, TopIsDue
    <3>3. now \in Nat /\ \A e \in DOMAIN pending : e.deadline \in Nat
      BY <2>2, <2>3, TimesAreNumbers DEF ClockRuns
    <3> QED BY <3>1, <3>2, <3>3
  <2> QED BY <2>4, <2>5
<1>2. [][A]_vars <=> NothingDueIsLeft
  BY DEF NothingDueIsLeft
<1> HIDE DEF A
<1> QED BY <1>1, <1>2, QueueInvariant, PTL DEF Spec

-----------------------------------------------------------------------------
(* Loop listeners: the inductive invariant. *)

Round == [start : Seq(LoopClients), calls : Seq(LoopClients \cup {Freed}),
          registered : BOOLEAN, unregistered : BOOLEAN]

Running == loop_at \in {"next", "called"}

(* The slots in use hold listeners. *)
SlotsInUse == \A i \in 1 .. size : mem[i] \in LoopClients

(* The iterators stay in the order the range-for gives them, and count the *)
(* calls; only a registration moves the vector under them.                 *)
Iterators ==
  /\ loop_moved => round.registered
  /\ Running =>
       /\ last = Len(round.start) + 1 /\ it >= 1 /\ it <= last
       /\ ~loop_moved => last <= Len(mem) + 1
       /\ loop_at = "next" => Len(round.calls) = it - 1
       /\ loop_at = "called" => it < last /\ Len(round.calls) = it

(* Without a registration, what lies below end() was there at the start,   *)
(* the slots that erase left behind included.                              *)
OnlyStarters ==
  Running /\ ~round.registered =>
    /\ size < last
    /\ \A i \in 1 .. last - 1 : Contains(round.start, mem[i])

(* Without an unregistration and in the same buffer, everything up to      *)
(* end() is where it was, and was called in that order.                    *)
AllInPlace ==
  Running /\ ~loop_moved /\ ~round.unregistered =>
    /\ size + 1 >= last
    /\ \A i \in 1 .. last - 1 : mem[i] = round.start[i]
    /\ \A i \in 1 .. Len(round.calls) : round.calls[i] = round.start[i]

VectorIInv ==
  /\ LoopTypeOK /\ SlotsInUse /\ NoDuplicates
  /\ Iterators /\ OnlyStarters /\ AllInPlace
  /\ UnregisteringStaysInBuffer

-----------------------------------------------------------------------------
(* What the invariant says, in the terms the steps need. *)

LEMMA LoopFacts ==
  ASSUME VectorIInv
  PROVE  /\ mem \in Seq(LoopClients \cup {Freed}) /\ Len(mem) \in Nat /\ size \in Nat /\ size <= Len(mem)
         /\ \A i \in 1 .. Len(mem) : mem[i] \in LoopClients \cup {Freed}
         /\ it \in Nat /\ last \in Nat /\ round \in Round
         /\ round.start \in Seq(LoopClients) /\ Len(round.start) \in Nat
         /\ round.calls \in Seq(LoopClients \cup {Freed}) /\ Len(round.calls) \in Nat
         /\ round.registered \in BOOLEAN /\ round.unregistered \in BOOLEAN /\ loop_moved \in BOOLEAN
<1>1. /\ mem \in Seq(LoopClients \cup {Freed}) /\ size \in 0 .. Len(mem) /\ it \in Nat /\ last \in Nat
      /\ round \in Round /\ loop_moved \in BOOLEAN
  BY DEF VectorIInv, LoopTypeOK, Round
<1>2. /\ round.start \in Seq(LoopClients) /\ round.calls \in Seq(LoopClients \cup {Freed})
      /\ round.registered \in BOOLEAN /\ round.unregistered \in BOOLEAN
  BY <1>1 DEF Round
<1>3. /\ Len(mem) \in Nat /\ Len(round.start) \in Nat /\ Len(round.calls) \in Nat
      /\ \A i \in 1 .. Len(mem) : mem[i] \in LoopClients \cup {Freed}
  BY <1>1, <1>2, LenProperties, ElementOfSeq
<1> QED BY <1>1, <1>2, <1>3

LEMMA LoopStarts == LoopInit => VectorIInv
<1> SUFFICES ASSUME LoopInit PROVE VectorIInv
  OBVIOUS
<1>1. /\ mem = <<>> /\ size = 0 /\ it = 1 /\ last = 1 /\ loop_moved = FALSE
      /\ calling = Freed /\ loop_at = "idle" /\ round = NoRound
  BY DEF LoopInit
<1>2. Len(mem) = 0 /\ mem \in Seq(LoopClients \cup {Freed})
  BY <1>1
<1>3. /\ round.start = <<>> /\ round.calls = <<>> /\ round.registered = FALSE /\ round.unregistered = FALSE
      /\ round \in Round
  <2>1. <<>> \in Seq(LoopClients) /\ <<>> \in Seq(LoopClients \cup {Freed})
    OBVIOUS
  <2>2. NoRound \in Round
    BY <2>1 DEF NoRound, Round
  <2> QED BY <1>1, <2>2 DEF NoRound
<1>4. Len(round.calls) = 0 /\ Len(round.start) = 0
  BY <1>3
<1>5. LoopTypeOK
  <2>1. size \in 0 .. Len(mem) /\ it \in Nat /\ last \in Nat
    BY <1>1, <1>2
  <2>2. loop_moved \in BOOLEAN
    BY <1>1
  <2> QED BY <1>1, <1>2, <1>3, <2>1, <2>2 DEF LoopTypeOK, Round
<1>6. SlotsInUse /\ NoDuplicates
  BY <1>1 DEF SlotsInUse, NoDuplicates
<1>7. Iterators /\ OnlyStarters /\ AllInPlace
  BY <1>1 DEF Iterators, OnlyStarters, AllInPlace, Running
<1>8. UnregisteringStaysInBuffer
  BY <1>4 DEF UnregisteringStaysInBuffer
<1> QED BY <1>5, <1>6, <1>7, <1>8 DEF VectorIInv

(* What push_back does to the buffer. *)
LEMMA PushBack ==
  ASSUME VectorIInv, NEW l \in LoopClients, RegisterLoop(l)
  PROVE  /\ mem' \in Seq(LoopClients \cup {Freed}) /\ size' = size + 1 /\ size + 1 <= Len(mem')
         /\ Len(mem) <= Len(mem') /\ Len(mem') \in Nat
         /\ mem'[size + 1] = l
         /\ \A i \in 1 .. size : mem'[i] = mem[i]
         /\ ~(size = Len(mem)) => /\ Len(mem') = Len(mem)
                                   /\ \A i \in 1 .. Len(mem) : i # size + 1 => mem'[i] = mem[i]
<1>1. /\ mem \in Seq(LoopClients \cup {Freed}) /\ Len(mem) \in Nat /\ size \in Nat /\ size <= Len(mem)
      /\ \A i \in 1 .. Len(mem) : mem[i] \in LoopClients \cup {Freed}
  BY LoopFacts
<1>2. size' = size + 1
  BY DEF RegisterLoop
<1>3. CASE size = Len(mem)
  <2> DEFINE spare == IF size = 0 THEN 0 ELSE size - 1
             more == [i \in 1 .. spare |-> Freed]
             grown == Append(mem, l)
  <2>1. mem' = grown \o more
    BY <1>3 DEF RegisterLoop
  <2>2. spare \in Nat
    BY <1>1
  <2>3. more \in Seq(LoopClients \cup {Freed}) /\ Len(more) = spare
    <3>1. more \in [1 .. spare -> LoopClients \cup {Freed}]
      OBVIOUS
    <3> HIDE DEF more, spare
    <3> QED BY <2>2, <3>1, SeqDef, LenProperties
  <2>4. /\ grown \in Seq(LoopClients \cup {Freed}) /\ Len(grown) = Len(mem) + 1
        /\ \A i \in 1 .. Len(mem) : grown[i] = mem[i]
        /\ grown[Len(mem) + 1] = l
    BY <1>1, AppendProperties
  <2> HIDE DEF more, spare, grown
  <2>5. /\ grown \o more \in Seq(LoopClients \cup {Freed}) /\ Len(grown \o more) = Len(grown) + Len(more)
        /\ \A i \in 1 .. Len(grown) + Len(more) :
              (grown \o more)[i] = IF i <= Len(grown) THEN grown[i] ELSE more[i - Len(grown)]
    BY <2>3, <2>4, ConcatProperties
  <2>6. /\ Len(mem') = Len(mem) + 1 + spare
        /\ \A i \in 1 .. Len(mem) + 1 : mem'[i] = grown[i]
    BY <1>1, <2>1, <2>2, <2>3, <2>4, <2>5
  <2>7. mem' \in Seq(LoopClients \cup {Freed})
    BY <2>1, <2>5
  <2> QED BY <1>1, <1>2, <1>3, <2>2, <2>4, <2>6, <2>7
<1>4. CASE size # Len(mem)
  <2>1. mem' = [mem EXCEPT ![size + 1] = l]
    BY <1>4 DEF RegisterLoop
  <2>2. size + 1 \in 1 .. Len(mem)
    BY <1>1, <1>4
  <2>3. /\ mem' \in Seq(LoopClients \cup {Freed}) /\ Len(mem') = Len(mem)
        /\ mem'[size + 1] = l /\ \A i \in 1 .. Len(mem) : i # size + 1 => mem'[i] = mem[i]
    BY <1>1, <2>1, <2>2
  <2> QED BY <1>1, <1>2, <2>2, <2>3
<1> QED BY <1>3, <1>4

LEMMA RegisterKeeps ==
  ASSUME VectorIInv, NEW l \in LoopClients, RegisterLoop(l)
  PROVE  VectorIInv'
<1>1. /\ mem \in Seq(LoopClients \cup {Freed}) /\ Len(mem) \in Nat /\ size \in Nat /\ size <= Len(mem)
      /\ it \in Nat /\ last \in Nat /\ round \in Round
      /\ round.registered \in BOOLEAN /\ round.unregistered \in BOOLEAN /\ loop_moved \in BOOLEAN
  BY LoopFacts
<1>2. /\ mem' \in Seq(LoopClients \cup {Freed}) /\ size' = size + 1 /\ size + 1 <= Len(mem')
      /\ Len(mem) <= Len(mem') /\ Len(mem') \in Nat
      /\ mem'[size + 1] = l
      /\ \A i \in 1 .. size : mem'[i] = mem[i]
      /\ ~(size = Len(mem)) => /\ Len(mem') = Len(mem)
                                /\ \A i \in 1 .. Len(mem) : i # size + 1 => mem'[i] = mem[i]
  BY PushBack
<1>3. /\ loop_at \in {"idle", "called"} /\ Find(l) = {}
      /\ loop_moved' = (loop_moved \/ (size = Len(mem) /\ loop_at = "called"))
      /\ round' = [round EXCEPT !.registered = @ \/ loop_at = "called"]
      /\ UNCHANGED <<it, last, calling, loop_at>>
  BY DEF RegisterLoop, ClientRuns
<1>4. /\ round' \in Round /\ round'.start = round.start /\ round'.calls = round.calls
      /\ round'.unregistered = round.unregistered
      /\ round'.registered <=> (round.registered \/ loop_at = "called")
  BY <1>1, <1>3 DEF Round
<1>5. LoopTypeOK'
  <2>1. size' \in 0 .. Len(mem')
    BY <1>1, <1>2
  <2>2. loop_moved' \in BOOLEAN
    BY <1>3
  <2> QED BY <1>2, <1>3, <1>4, <2>1, <2>2 DEF VectorIInv, LoopTypeOK, Round
<1>6. SlotsInUse'
  BY <1>1, <1>2 DEF VectorIInv, SlotsInUse
<1>7. NoDuplicates'
  <2>1. \A i \in 1 .. size : mem[i] # l
    BY <1>3 DEF Find
  <2> QED BY <1>1, <1>2, <2>1 DEF VectorIInv, NoDuplicates
<1>8. Running' <=> loop_at = "called"
  BY <1>3 DEF Running
<1>9. Iterators'
  <2>1. loop_moved' => round'.registered
    BY <1>1, <1>3, <1>4 DEF VectorIInv, Iterators
  <2>2. ASSUME loop_at = "called"
        PROVE  /\ last = Len(round.start) + 1 /\ it >= 1 /\ it <= last
               /\ ~loop_moved => last <= Len(mem) + 1
               /\ it < last /\ Len(round.calls) = it
    BY <2>2 DEF VectorIInv, Iterators, Running
  <2>3. ~loop_moved' => ~loop_moved
    BY <1>1, <1>3
  <2>4. ASSUME loop_at = "called", ~loop_moved' PROVE last <= Len(mem') + 1
    BY <1>1, <1>2, <2>2, <2>3, <2>4
  <2> QED BY <1>3, <1>4, <1>8, <2>1, <2>2, <2>4 DEF Iterators
<1>10. OnlyStarters'
  BY <1>3, <1>4, <1>8 DEF OnlyStarters
<1>11. AllInPlace'
  <2>1. ASSUME loop_at = "called", ~loop_moved', ~round'.unregistered
        PROVE  /\ size' + 1 >= last
               /\ \A i \in 1 .. last - 1 : mem'[i] = round.start[i]
               /\ \A i \in 1 .. Len(round.calls) : round.calls[i] = round.start[i]
    <3>1. ~loop_moved /\ size # Len(mem) /\ ~round.unregistered
      BY <1>1, <1>3, <1>4, <2>1
    <3>2. /\ size + 1 >= last
          /\ \A i \in 1 .. last - 1 : mem[i] = round.start[i]
          /\ \A i \in 1 .. Len(round.calls) : round.calls[i] = round.start[i]
          /\ last <= Len(mem) + 1
      BY <2>1, <3>1 DEF VectorIInv, AllInPlace, Iterators, Running
    <3>3. \A i \in 1 .. last - 1 : i \in 1 .. Len(mem) /\ i # size + 1
      BY <1>1, <3>2
    <3> QED BY <1>1, <1>2, <3>1, <3>2, <3>3
  <2> QED BY <1>3, <1>4, <1>8, <2>1 DEF AllInPlace
<1>12. UnregisteringStaysInBuffer'
  BY <1>1, <1>4 DEF VectorIInv, UnregisteringStaysInBuffer, Contains
<1> QED BY <1>5, <1>6, <1>7, <1>9, <1>10, <1>11, <1>12 DEF VectorIInv

(* What erase does to the buffer. *)
LEMMA Erase ==
  ASSUME VectorIInv, NEW l \in LoopClients, UnregisterLoop(l)
  PROVE  /\ mem' \in Seq(LoopClients \cup {Freed}) /\ Len(mem') = Len(mem)
         /\ size \in 1 .. Len(mem) /\ size' = size - 1
         /\ \E p \in 1 .. size : \A i \in 1 .. Len(mem) :
               mem'[i] = IF p <= i /\ i < size THEN mem[i + 1] ELSE mem[i]
<1>1. /\ mem \in Seq(LoopClients \cup {Freed}) /\ Len(mem) \in Nat /\ size \in Nat /\ size <= Len(mem)
      /\ \A i \in 1 .. Len(mem) : mem[i] \in LoopClients \cup {Freed}
  BY LoopFacts
<1>2. PICK p \in 1 .. size :
        mem' = [i \in 1 .. Len(mem) |-> IF p <= i /\ i < size THEN mem[i + 1] ELSE mem[i]]
  BY DEF UnregisterLoop, Find
<1>3. size \in 1 .. Len(mem) /\ size' = size - 1
  BY <1>1 DEF UnregisterLoop
<1>4. \A i \in 1 .. Len(mem) : p <= i /\ i < size => i + 1 \in 1 .. Len(mem)
  BY <1>1
<1>5. mem' \in [1 .. Len(mem) -> LoopClients \cup {Freed}]
  BY <1>1, <1>2, <1>4
<1>6. mem' \in Seq(LoopClients \cup {Freed}) /\ Len(mem') = Len(mem)
  BY <1>1, <1>5, SeqDef, LenProperties
<1> QED BY <1>2, <1>3, <1>6

LEMMA UnregisterKeeps ==
  ASSUME VectorIInv, NEW l \in LoopClients, UnregisterLoop(l)
  PROVE  VectorIInv'
<1>1. /\ Len(mem) \in Nat /\ size \in Nat /\ it \in Nat /\ last \in Nat /\ round \in Round
      /\ round.registered \in BOOLEAN /\ round.unregistered \in BOOLEAN /\ loop_moved \in BOOLEAN
      /\ Len(round.start) \in Nat
  BY LoopFacts
<1>2. /\ mem' \in Seq(LoopClients \cup {Freed}) /\ Len(mem') = Len(mem)
      /\ size \in 1 .. Len(mem) /\ size' = size - 1
  BY Erase
<1>3. PICK p \in 1 .. size : \A i \in 1 .. Len(mem) :
        mem'[i] = IF p <= i /\ i < size THEN mem[i + 1] ELSE mem[i]
  BY Erase
<1>4. /\ loop_at \in {"idle", "called"}
      /\ round' = [round EXCEPT !.unregistered = @ \/ loop_at = "called"]
      /\ UNCHANGED <<it, last, loop_moved, calling, loop_at>>
  BY DEF UnregisterLoop, ClientRuns
<1>5. /\ round' \in Round /\ round'.start = round.start /\ round'.calls = round.calls
      /\ round'.registered = round.registered
      /\ round'.unregistered <=> (round.unregistered \/ loop_at = "called")
  BY <1>1, <1>4 DEF Round
<1>6. LoopTypeOK'
  <2>1. size' \in 0 .. Len(mem')
    BY <1>1, <1>2
  <2> QED BY <1>2, <1>4, <1>5, <2>1 DEF VectorIInv, LoopTypeOK, Round
<1>7. \A i \in 1 .. size - 1 : /\ i \in 1 .. size /\ i + 1 \in 1 .. size /\ i \in 1 .. Len(mem)
                               /\ mem'[i] = IF p <= i THEN mem[i + 1] ELSE mem[i]
  BY <1>1, <1>2, <1>3
<1>8. SlotsInUse'
  BY <1>2, <1>7 DEF VectorIInv, SlotsInUse
<1>9. NoDuplicates'
  <2>1. ASSUME NEW i \in 1 .. size - 1, NEW j \in 1 .. size - 1, mem'[i] = mem'[j] PROVE i = j
    <3>1. PICK m \in 1 .. size : mem'[i] = mem[m] /\ m = IF p <= i THEN i + 1 ELSE i
      BY <1>7
    <3>2. PICK n \in 1 .. size : mem'[j] = mem[n] /\ n = IF p <= j THEN j + 1 ELSE j
      BY <1>7
    <3>3. m = n
      BY <2>1, <3>1, <3>2 DEF VectorIInv, NoDuplicates
    <3> QED BY <1>1, <3>1, <3>2, <3>3
  <2> QED BY <1>2, <2>1 DEF NoDuplicates
<1>10. Running' <=> loop_at = "called"
  BY <1>4 DEF Running
<1>11. Iterators'
  BY <1>2, <1>4, <1>5 DEF VectorIInv, Iterators, Running
<1>12. OnlyStarters'
  <2>1. ASSUME loop_at = "called", ~round.registered
        PROVE  size' < last /\ \A i \in 1 .. last - 1 : Contains(round.start, mem'[i])
    <3>1. /\ size < last /\ last <= Len(mem) + 1
          /\ \A i \in 1 .. last - 1 : Contains(round.start, mem[i])
      BY <1>1, <2>1 DEF VectorIInv, OnlyStarters, Iterators, Running
    <3>2. ASSUME NEW i \in 1 .. last - 1 PROVE \E m \in 1 .. last - 1 : mem'[i] = mem[m]
      <4>1. i \in 1 .. Len(mem)
        BY <1>1, <3>1
      <4>2. CASE p <= i /\ i < size
        <5>1. i + 1 \in 1 .. last - 1 /\ mem'[i] = mem[i + 1]
          BY <1>1, <1>3, <3>1, <4>1, <4>2
        <5> QED BY <5>1
      <4>3. CASE ~(p <= i /\ i < size)
        BY <1>3, <4>1, <4>3
      <4> QED BY <4>2, <4>3
    <3>3. size' < last
      BY <1>1, <1>2, <3>1
    <3> QED BY <3>1, <3>2, <3>3
  <2> QED BY <1>4, <1>5, <1>10, <2>1 DEF OnlyStarters
<1>13. AllInPlace'
  BY <1>5, <1>10 DEF AllInPlace
<1>14. UnregisteringStaysInBuffer'
  BY <1>5 DEF VectorIInv, UnregisteringStaysInBuffer
<1> QED BY <1>6, <1>8, <1>9, <1>11, <1>12, <1>13, <1>14 DEF VectorIInv

-----------------------------------------------------------------------------
(* The steps of on_loop itself. *)

LEMMA BeginKeeps ==
  ASSUME VectorIInv, BeginRound
  PROVE  VectorIInv'
<1>1. /\ mem \in Seq(LoopClients \cup {Freed}) /\ Len(mem) \in Nat /\ size \in Nat /\ size <= Len(mem)
  BY LoopFacts
<1>2. /\ it' = 1 /\ last' = size + 1 /\ loop_moved' = FALSE /\ loop_at' = "next"
      /\ round' = [NoRound EXCEPT !.start = SubSeq(mem, 1, size)]
      /\ UNCHANGED <<mem, size, calling>>
  BY DEF BeginRound, End, loop_listeners
<1> DEFINE begun == SubSeq(mem, 1, size)
<1>3. /\ begun \in Seq(LoopClients) /\ Len(begun) = size /\ \A i \in 1 .. size : begun[i] = mem[i]
  <2>1. \A i \in 1 .. size : mem[i] \in LoopClients
    BY DEF VectorIInv, SlotsInUse
  <2>2. begun = [i \in 1 .. size |-> mem[i]]
    BY <1>1
  <2>3. begun \in [1 .. size -> LoopClients]
    BY <2>1, <2>2
  <2> HIDE DEF begun
  <2> QED BY <1>1, <2>2, <2>3, SeqDef, LenProperties
<1> HIDE DEF begun
<1>4. /\ round' \in Round /\ round'.start = begun /\ round'.calls = <<>>
      /\ round'.registered = FALSE /\ round'.unregistered = FALSE
  <2>1. round' = [start |-> begun, calls |-> <<>>, registered |-> FALSE, unregistered |-> FALSE]
    BY <1>2 DEF NoRound, begun
  <2>2. <<>> \in Seq(LoopClients \cup {Freed})
    OBVIOUS
  <2> QED BY <1>3, <2>1, <2>2 DEF Round
<1>5. Len(round'.calls) = 0
  BY <1>4
<1>6. LoopTypeOK'
  <2>1. it' \in Nat /\ last' \in Nat
    BY <1>1, <1>2
  <2>2. loop_moved' \in BOOLEAN
    BY <1>2
  <2> QED BY <1>2, <1>4, <2>1, <2>2 DEF VectorIInv, LoopTypeOK, Round
<1>7. SlotsInUse' /\ NoDuplicates'
  BY <1>2 DEF VectorIInv, SlotsInUse, NoDuplicates
<1>8. Iterators'
  <2>1. /\ last' = Len(round'.start) + 1 /\ it' >= 1 /\ it' <= last'
        /\ last' <= Len(mem') + 1 /\ Len(round'.calls) = it' - 1
    BY <1>1, <1>2, <1>3, <1>4, <1>5
  <2> QED BY <1>2, <2>1 DEF Iterators
<1>9. OnlyStarters'
  <2>1. size' < last' /\ \A i \in 1 .. last' - 1 : Contains(round'.start, mem'[i])
    <3>1. round'.start = begun /\ size' < last' /\ last' - 1 = size /\ mem' = mem
      BY <1>1, <1>2, <1>4
    <3> QED BY <1>3, <3>1 DEF Contains
  <2> QED BY <2>1 DEF OnlyStarters
<1>10. AllInPlace'
  <2>1. /\ size' + 1 >= last' /\ \A i \in 1 .. last' - 1 : mem'[i] = round'.start[i]
        /\ \A i \in 1 .. Len(round'.calls) : round'.calls[i] = round'.start[i]
    BY <1>1, <1>2, <1>3, <1>4, <1>5
  <2> QED BY <2>1 DEF AllInPlace
<1>11. UnregisteringStaysInBuffer'
  BY <1>1, <1>3, <1>4, <1>5 DEF UnregisteringStaysInBuffer
<1> QED BY <1>6, <1>7, <1>8, <1>9, <1>10, <1>11 DEF VectorIInv

LEMMA CallKeeps ==
  ASSUME VectorIInv, CallNext
  PROVE  VectorIInv'
<1>1. /\ mem \in Seq(LoopClients \cup {Freed}) /\ Len(mem) \in Nat /\ it \in Nat /\ last \in Nat
      /\ \A i \in 1 .. Len(mem) : mem[i] \in LoopClients \cup {Freed}
      /\ round \in Round /\ round.calls \in Seq(LoopClients \cup {Freed}) /\ Len(round.calls) \in Nat
      /\ Len(round.start) \in Nat /\ loop_moved \in BOOLEAN
  BY LoopFacts
<1>2. /\ loop_at = "next" /\ it # last /\ loop_at' = "called" /\ UNCHANGED <<mem, size, it, last, loop_moved>>
  BY DEF CallNext
<1>3. PICK l \in IF loop_moved THEN LoopClients \cup {Freed} ELSE {mem[it]} :
        calling' = l /\ round' = [round EXCEPT !.calls = Append(@, l)]
  BY DEF CallNext
<1>4. /\ last = Len(round.start) + 1 /\ it >= 1 /\ it < last /\ Len(round.calls) = it - 1
      /\ ~loop_moved => it \in 1 .. Len(mem) /\ l = mem[it]
      /\ ~loop_moved => last <= Len(mem) + 1
      /\ loop_moved => round.registered
  <2>1. /\ last = Len(round.start) + 1 /\ it >= 1 /\ it <= last /\ Len(round.calls) = it - 1
        /\ ~loop_moved => last <= Len(mem) + 1
        /\ loop_moved => round.registered
    BY <1>2 DEF VectorIInv, Iterators, Running
  <2> QED BY <1>1, <1>2, <1>3, <2>1
<1>5. l \in LoopClients \cup {Freed}
  <2>1. CASE loop_moved
    BY <1>3, <2>1
  <2>2. CASE ~loop_moved
    BY <1>1, <1>4, <2>2
  <2> QED BY <2>1, <2>2
<1> DEFINE calls == Append(round.calls, l)
<1>6. /\ calls \in Seq(LoopClients \cup {Freed}) /\ Len(calls) = it /\ calls[it] = l
      /\ \A i \in 1 .. it - 1 : calls[i] = round.calls[i]
  <2>1. /\ calls \in Seq(LoopClients \cup {Freed}) /\ Len(calls) = Len(round.calls) + 1
        /\ calls[Len(round.calls) + 1] = l
        /\ \A i \in 1 .. Len(round.calls) : calls[i] = round.calls[i]
    BY <1>1, <1>5, AppendProperties
  <2>2. Len(round.calls) + 1 = it
    BY <1>1, <1>4
  <2> HIDE DEF calls
  <2> QED BY <1>4, <2>1, <2>2
<1> HIDE DEF calls
<1>7. /\ round' \in Round /\ round'.start = round.start /\ round'.calls = calls
      /\ round'.registered = round.registered /\ round'.unregistered = round.unregistered
  <2>1. round' = [round EXCEPT !.calls = calls]
    BY <1>3 DEF calls
  <2> QED BY <1>1, <1>6, <2>1 DEF Round
<1>8. LoopTypeOK'
  BY <1>2, <1>3, <1>5, <1>7 DEF VectorIInv, LoopTypeOK, Round
<1>9. SlotsInUse' /\ NoDuplicates'
  BY <1>2 DEF VectorIInv, SlotsInUse, NoDuplicates
<1>10. Iterators'
  BY <1>1, <1>2, <1>4, <1>6, <1>7 DEF Iterators, Running
<1>11. OnlyStarters'
  BY <1>2, <1>7 DEF VectorIInv, OnlyStarters, Running
<1>12. AllInPlace'
  <2>1. ASSUME ~loop_moved, ~round.unregistered
        PROVE  /\ size + 1 >= last
               /\ \A i \in 1 .. last - 1 : mem[i] = round.start[i]
               /\ \A i \in 1 .. it : calls[i] = round.start[i]
    <3>1. /\ size + 1 >= last
          /\ \A i \in 1 .. last - 1 : mem[i] = round.start[i]
          /\ \A i \in 1 .. it - 1 : round.calls[i] = round.start[i]
      BY <1>2, <1>4, <2>1 DEF VectorIInv, AllInPlace, Running
    <3>2. calls[it] = round.start[it]
      BY <1>1, <1>4, <1>6, <2>1, <3>1
    <3>3. ASSUME NEW i \in 1 .. it PROVE calls[i] = round.start[i]
      <4>1. i = it \/ i \in 1 .. it - 1
        BY <1>1
      <4> QED BY <1>6, <3>1, <3>2, <4>1
    <3> QED BY <3>1, <3>3
  <2> QED BY <1>2, <1>6, <1>7, <2>1 DEF AllInPlace
<1>13. UnregisteringStaysInBuffer'
  <2>1. ASSUME ~round.registered
        PROVE  it <= Len(round.start) /\ \A i \in 1 .. it : Contains(round.start, calls[i])
    <3>1. ~loop_moved /\ l = mem[it]
      BY <1>4, <2>1
    <3>2. Contains(round.start, l)
      BY <1>1, <1>2, <1>4, <2>1, <3>1 DEF VectorIInv, OnlyStarters, Running
    <3>3. \A i \in 1 .. it - 1 : Contains(round.start, round.calls[i])
      BY <1>4, <2>1 DEF VectorIInv, UnregisteringStaysInBuffer
    <3>4. ASSUME NEW i \in 1 .. it PROVE Contains(round.start, calls[i])
      <4>1. i = it \/ i \in 1 .. it - 1
        BY <1>1
      <4> QED BY <1>6, <3>2, <3>3, <4>1
    <3> QED BY <1>1, <1>4, <3>4
  <2> QED BY <1>6, <1>7, <2>1 DEF UnregisteringStaysInBuffer
<1> QED BY <1>8, <1>9, <1>10, <1>11, <1>12, <1>13 DEF VectorIInv

(* A call that returns, the end of the round, and steps of others. *)
LEMMA IteratorKeeps ==
  ASSUME VectorIInv, CallReturns \/ CallThrows \/ EndRound \/ UNCHANGED loop_vars
  PROVE  VectorIInv'
<1>1. /\ it \in Nat /\ last \in Nat /\ Len(round.calls) \in Nat
  BY LoopFacts
<1>2. UNCHANGED <<mem, size, last, loop_moved, round>>
  BY DEF CallReturns, CallThrows, EndRound, loop_vars
<1>3. /\ calling' \in LoopClients \cup {Freed} /\ loop_at' \in {"idle", "next", "called"} /\ it' \in Nat
  BY <1>1 DEF CallReturns, CallThrows, EndRound, loop_vars, VectorIInv, LoopTypeOK
<1>4. LoopTypeOK'
  BY <1>2, <1>3 DEF VectorIInv, LoopTypeOK
<1>5. SlotsInUse' /\ NoDuplicates' /\ UnregisteringStaysInBuffer'
  BY <1>2 DEF VectorIInv, SlotsInUse, NoDuplicates, UnregisteringStaysInBuffer
<1>6. Running' => Running
  BY DEF CallReturns, CallThrows, EndRound, loop_vars, Running
<1>7. Iterators'
  <2>1. CASE CallReturns
    <3>1. loop_at = "called" /\ loop_at' = "next" /\ it' = it + 1
      BY <2>1 DEF CallReturns
    <3> QED BY <1>1, <1>2, <3>1 DEF VectorIInv, Iterators, Running
  <2>2. CASE EndRound \/ CallThrows
    <3>1. loop_at' = "idle"
      BY <2>2 DEF EndRound, CallThrows
    <3> QED BY <1>2, <3>1 DEF VectorIInv, Iterators, Running
  <2>3. CASE UNCHANGED loop_vars
    BY <2>3 DEF VectorIInv, Iterators, Running, loop_vars
  <2> QED BY <2>1, <2>2, <2>3
<1>8. OnlyStarters'
  BY <1>2, <1>6 DEF VectorIInv, OnlyStarters
<1>9. AllInPlace'
  BY <1>2, <1>6 DEF VectorIInv, AllInPlace
<1> QED BY <1>4, <1>5, <1>7, <1>8, <1>9 DEF VectorIInv

LEMMA LoopAlways == LoopSpec => []VectorIInv
<1>1. VectorIInv /\ [LoopNext]_loop_vars => VectorIInv'
  BY RegisterKeeps, UnregisterKeeps, BeginKeeps, CallKeeps, IteratorKeeps DEF LoopNext
<1> QED BY <1>1, LoopStarts, PTL DEF LoopSpec

(* For any number of listeners and however the callbacks of                *)
(* event_dispatch::on_loop change the vector while it is iterated over: no *)
(* listener is in it twice, and as long as no callback registers one,      *)
(* every call is to a listener that was registered when the round began,   *)
(* although erase shifts the elements under the range-for's iterators.     *)
THEOREM VectorStaysWellFormed == LoopSpec => []VectorInv
<1>1. VectorIInv => VectorInv
  BY DEF VectorIInv, VectorInv
<1> QED BY <1>1, LoopAlways, PTL

(* on_loop calls each listener that was there when it began once and in    *)
(* order, unless a callback unregistered one or made the vector grow.      *)
THEOREM UndisturbedRoundsAreComplete == LoopSpec => []UndisturbedRoundCallsAll
<1>1. VectorIInv => UndisturbedRoundCallsAll
  <2> SUFFICES ASSUME VectorIInv, loop_at = "next", it = last, ~loop_moved, ~round.unregistered
               PROVE  round.calls = round.start
    BY DEF UndisturbedRoundCallsAll
  <2>1. /\ round.start \in Seq(LoopClients) /\ round.calls \in Seq(LoopClients \cup {Freed})
        /\ Len(round.start) \in Nat /\ Len(round.calls) \in Nat
    BY LoopFacts
  <2>2. Len(round.calls) = Len(round.start)
    BY <2>1 DEF VectorIInv, Iterators, Running
  <2>3. \A i \in 1 .. Len(round.calls) : round.calls[i] = round.start[i]
    BY DEF VectorIInv, AllInPlace, Running
  <2>4. round.start \in Seq(LoopClients \cup {Freed})
    <3>1. \A i \in 1 .. Len(round.start) : round.start[i] \in LoopClients
      BY <2>1, ElementOfSeq
    <3> QED BY <2>1, <3>1, SeqDef, LenProperties
  <2> QED BY <2>1, <2>2, <2>3, <2>4, SeqEqual
<1> QED BY <1>1, LoopAlways, PTL
=============================================================================
