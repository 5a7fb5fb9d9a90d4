------------------------- MODULE SharedBufferProofs -------------------------
(****************************************************************************)
(* For any number of processes and objects, any page size and any sizes     *)
(* asked for: what is attached lies within its object, an attach that comes *)
(* after create returned gets create's layout, and a layout never changes.  *)
(****************************************************************************)
EXTENDS SharedBuffer, TLAPS

----------------------------------------------------------------------------
(* The inductive invariant.                                                 *)

Header == [capacity : Nat, private_size : Nat, page_mask : Nat, name : BOOLEAN]

ObjectShape == [size : Nat \union {-1}, header : Header]

ProcShape ==
    [pc : {"idle", "truncate", "map", "init", "name", "read", "attach"},
     fd : Objects \union {None}, args : Header, field : 1..4, late : BOOLEAN]

MappingShape == [of : Objects \union {None}, head : Nat, capacity : Nat, whole : BOOLEAN]

USE DEF ObjectShape, ProcShape, MappingShape

\* What the variables hold; TypeOK leaves the shape of the records open.
Shapes ==
    /\ bound \in Objects \union {None}
    /\ object \in [Objects -> ObjectShape]
    /\ proc \in [Procs -> ProcShape]
    /\ mapping \in [Procs -> MappingShape]
    /\ dead \subseteq Procs

\* A layout create may give an object.
Sound(h) == h.capacity > 0 /\ h.capacity % PageSize = 0 /\ h.page_mask = page_mask

\* An object has no header before ftruncate, has room for what its header
\* says so far, and has a name only when its header is complete.
ObjectSound(o) ==
    LET h == object[o].header
    IN  /\ object[o].size <= 0 => h = Zeroed
        /\ object[o].size > 0 =>
              h.capacity + aligned_header_size(h.private_size, page_mask) <= object[o].size
        /\ h.page_mask \in {0, page_mask}
        /\ h.name => Sound(h)

Creating(p) == proc[p].pc \in {"truncate", "map", "init", "name"}

\* A creator has stored the fields before proc[p].field and no other.
CreatorSound(p) ==
    LET a == proc[p].args
        h == object[proc[p].fd].header
        field == proc[p].field
    IN  /\ Sound(a) /\ ~h.name /\ ~proc[p].late
        /\ h.capacity = IF field > 1 THEN a.capacity ELSE 0
        /\ h.private_size = IF field > 2 THEN a.private_size ELSE 0
        /\ h.page_mask = IF field > 3 THEN a.page_mask ELSE 0
        /\ proc[p].pc \in {"truncate", "map"} => field = 1
        /\ proc[p].pc = "init" => field < 4
        /\ proc[p].pc = "name" => field = 4
        /\ object[proc[p].fd].size = IF proc[p].pc = "truncate" THEN 0 ELSE Length(a)

\* A reader's copy has, of each field, nothing or what the header has; of an
\* object that was complete when it was opened, what the header has.
ReaderSound(p) ==
    LET a == proc[p].args
        h == object[proc[p].fd].header
        field == proc[p].field
    IN  /\ object[proc[p].fd].size >= 0
        /\ a.capacity # 0 => a.capacity = h.capacity
        /\ a.private_size # 0 => a.private_size = h.private_size
        /\ a.page_mask # 0 => a.page_mask = h.page_mask
        /\ proc[p].pc = "attach" => field = 4
        /\ proc[p].pc = "read" => field < 4
        /\ proc[p].late =>
              /\ h.name
              /\ field > 1 => a.capacity = h.capacity
              /\ field > 2 => a.private_size = h.private_size
              /\ field > 3 => a.page_mask = h.page_mask
        /\ mapping[p] = NoMapping

ProcSound(p) ==
    /\ proc[p].pc = "idle" <=> proc[p].fd = None
    /\ Creating(p) => CreatorSound(p)
    /\ proc[p].pc \in {"read", "attach"} => ReaderSound(p)
    /\ proc[p].late => p \notin dead

MappingSound(p) ==
    LET m == mapping[p]
        h == object[m.of].header
    IN  /\ m.of = None => m = NoMapping
        /\ m.of # None =>
              /\ m.head > 0 /\ m.head + m.capacity <= object[m.of].size /\ m.whole
              /\ proc[p].late => /\ h.name
                                 /\ m.head = aligned_header_size(h.private_size, h.page_mask)
                                 /\ m.capacity = h.capacity

\* No object has two creators.
OneCreator ==
    \A p, q \in Procs : Creating(p) /\ Creating(q) /\ proc[p].fd = proc[q].fd => p = q

SharedIInv ==
    /\ Shapes
    /\ bound # None => object[bound].size >= 0
    /\ \A o \in Objects : ObjectSound(o)
    /\ \A p \in Procs : ProcSound(p) /\ MappingSound(p)
    /\ OneCreator

----------------------------------------------------------------------------
(* The sizes.                                                               *)

LEMMA ConstantsAreSizes ==
    /\ page_mask \in Nat /\ page_mask + 1 = PageSize /\ PageSize \in Nat \ {0}
    /\ HeaderSize \in Nat \ {0} /\ MaxObjects \in Nat \ {0}
    /\ Capacities \subseteq Nat \ {0} /\ PrivateSizes \subseteq Nat
BY SharedBufferAssumption DEF page_mask

\* Rounding up to whole pages never makes less of a size, ends at a page
\* boundary and keeps the order of sizes.
LEMMA RoundUpProperties ==
    ASSUME NEW n \in Nat, NEW mask \in Nat
    PROVE  /\ RoundUp(n, mask) \in Nat
           /\ RoundUp(n, mask) >= n
           /\ RoundUp(n, mask) % (mask + 1) = 0
           /\ \A k \in Nat : k <= n => RoundUp(k, mask) <= RoundUp(n, mask)
<1> DEFINE d == mask + 1
           q == (n + mask) \div d
<1>1. d \in Nat \ {0} /\ q \in Nat /\ n + mask = n + d - 1
  OBVIOUS
<1>2. RoundUp(n, mask) = q * d
  BY DEF RoundUp
<1>3. q * d \in Nat /\ q * d >= n
  BY <1>1
<1>4. (q * d) % d = 0
  <2> HIDE DEF q, d
  <2> QED BY <1>1
<1>5. ASSUME NEW k \in Nat, k <= n PROVE RoundUp(k, mask) <= RoundUp(n, mask)
  <2> DEFINE r == (k + mask) \div d
  <2>1. r \in Nat /\ r <= q
    BY <1>1, <1>5
  <2>2. RoundUp(k, mask) = r * d
    BY DEF RoundUp
  <2> HIDE DEF q, d, r
  <2>3. r * d <= q * d
    BY <1>1, <2>1
  <2> QED BY <1>2, <2>2, <2>3
<1> QED BY <1>2, <1>3, <1>4, <1>5

\* A header size computed with a page mask of zero, as from a copy made before
\* the mask was stored, is no larger than the real one.
LEMMA HeadSizes ==
    ASSUME NEW n \in Nat, NEW k \in Nat, k <= n, NEW mask \in {0, page_mask}
    PROVE  /\ aligned_header_size(k, mask) \in Nat \ {0}
           /\ aligned_header_size(k, mask) <= aligned_header_size(n, page_mask)
           /\ aligned_header_size(n, page_mask) % PageSize = 0
<1> USE ConstantsAreSizes
<1>1. HeaderSize + k \in Nat /\ HeaderSize + n \in Nat /\ HeaderSize + k > 0 /\ mask \in Nat
  OBVIOUS
<1>2. /\ RoundUp(HeaderSize + k, mask) \in Nat
      /\ RoundUp(HeaderSize + k, mask) >= HeaderSize + k
  BY <1>1, RoundUpProperties
<1>3. /\ RoundUp(HeaderSize + n, page_mask) \in Nat
      /\ RoundUp(HeaderSize + n, page_mask) >= HeaderSize + n
      /\ RoundUp(HeaderSize + n, page_mask) % (page_mask + 1) = 0
      /\ RoundUp(HeaderSize + k, page_mask) <= RoundUp(HeaderSize + n, page_mask)
  BY <1>1, RoundUpProperties
<1>4. RoundUp(HeaderSize + k, 0) = HeaderSize + k
  BY <1>1 DEF RoundUp
<1> QED BY <1>1, <1>2, <1>3, <1>4 DEF aligned_header_size

\* Only when each of its three calls succeeds does map_shared_memory return an
\* address.
LEMMA AddressMeansWhole ==
    ASSUME NEW calls \in Calls, map_shared_memory(calls) # Null
    PROVE  Whole(calls)
BY DEF Calls, map_shared_memory, Whole, Addr, MapFailed, Null

----------------------------------------------------------------------------
(* The frame of a step: what one process does to what the others rely on.   *)

\* An object only gains: a stored field stays, the file is never shortened,
\* and a complete header stays as it is.
Grows(o) ==
    LET h == object[o].header
        k == object'[o].header
    IN  /\ h.capacity # 0 => k.capacity = h.capacity
        /\ h.private_size # 0 => k.private_size = h.private_size
        /\ h.page_mask # 0 => k.page_mask = h.page_mask
        /\ h.name => k = h
        /\ object'[o].size >= object[o].size

\* A step of p touches the state of no other process; the object it changes is
\* new or its own, and it becomes the creator of new objects only.
StepOf(p) ==
    /\ \A q \in Procs : q # p => proc'[q] = proc[q] /\ mapping'[q] = mapping[q]
    /\ \A q \in Procs : q # p /\ q \in dead' => q \in dead
    /\ \A o \in Objects : Grows(o)
    /\ \A o \in Objects : object'[o] # object[o] =>
          (Creating(p) /\ o = proc[p].fd) \/ object[o].size = -1
    /\ Creating(p)' => \/ Creating(p) /\ proc'[p].fd = proc[p].fd
                       \/ proc'[p].fd \in Objects /\ object[proc'[p].fd].size = -1

LEMMA CreatorHasAnObject ==
    ASSUME SharedIInv, NEW q \in Procs, Creating(q)
    PROVE  proc[q].fd \in Objects /\ object[proc[q].fd].size >= 0
<1> USE ConstantsAreSizes
<1>1. CreatorSound(q) /\ proc[q].fd # None /\ proc[q].pc # "idle" /\ Shapes
  BY DEF SharedIInv, ProcSound, Creating
<1>2. proc[q].fd \in Objects
  BY <1>1 DEF Shapes
<1>3. proc[q].args.capacity \in Nat /\ proc[q].args.private_size \in Nat
  BY <1>1 DEF Shapes, Header
<1>4. aligned_header_size(proc[q].args.private_size, page_mask) \in Nat \ {0}
  <2>1. proc[q].args.private_size <= proc[q].args.private_size /\ page_mask \in {0, page_mask}
    BY <1>3
  <2> QED BY <1>3, <2>1, HeadSizes
<1>5. Length(proc[q].args) \in Nat
  BY <1>3, <1>4 DEF Length
<1> QED BY <1>1, <1>2, <1>5 DEF CreatorSound

\* What the other processes have seen stays true.
LEMMA OthersKeep ==
    ASSUME SharedIInv, Shapes', NEW p \in Procs, StepOf(p), NEW q \in Procs, q # p
    PROVE  ProcSound(q)' /\ MappingSound(q)'
<1>1. /\ Shapes /\ ProcSound(q) /\ MappingSound(q)
      /\ proc'[q] = proc[q] /\ mapping'[q] = mapping[q]
      /\ q \in dead' => q \in dead
      /\ \A o \in Objects : Grows(o)
  BY DEF SharedIInv, StepOf
<1>2. ASSUME Creating(q) PROVE CreatorSound(q)'
  <2>1. proc[q].fd \in Objects /\ object[proc[q].fd].size >= 0
    BY <1>2, CreatorHasAnObject
  <2>2. object'[proc[q].fd] = object[proc[q].fd]
    BY <1>2, <2>1 DEF StepOf, SharedIInv, OneCreator
  <2>3. CreatorSound(q)
    BY <1>1, <1>2 DEF ProcSound
  <2> QED BY <1>1, <2>2, <2>3 DEF CreatorSound, Length, Sound
<1>3. ASSUME proc[q].pc \in {"read", "attach"} PROVE ReaderSound(q)'
  <2>1. ReaderSound(q) /\ proc[q].fd \in Objects
    BY <1>1, <1>3 DEF ProcSound, Shapes
  <2>2. Grows(proc[q].fd)
    BY <1>1, <2>1
  <2>3. /\ object[proc[q].fd].size \in Int /\ object'[proc[q].fd].size \in Int
    BY <1>1, <2>1 DEF Shapes
  <2> QED BY <1>1, <2>1, <2>2, <2>3 DEF ReaderSound, Grows
<1>4. ProcSound(q)'
  BY <1>1, <1>2, <1>3 DEF ProcSound, Creating
<1>5. MappingSound(q)'
  <2>1. CASE mapping[q].of = None
    BY <1>1, <2>1 DEF MappingSound
  <2>2. CASE mapping[q].of # None
    <3>1. mapping[q].of \in Objects
      BY <1>1, <2>2 DEF Shapes
    <3>2. Grows(mapping[q].of)
      BY <1>1, <3>1
    <3>3. /\ object[mapping[q].of].size \in Int /\ object'[mapping[q].of].size \in Int
          /\ mapping[q].head \in Nat /\ mapping[q].capacity \in Nat
      BY <1>1, <3>1 DEF Shapes
    <3> QED BY <1>1, <2>2, <3>2, <3>3 DEF MappingSound, Grows
  <2> QED BY <2>1, <2>2
<1> QED BY <1>4, <1>5

LEMMA StepSuffices ==
    ASSUME SharedIInv, Shapes', NEW p \in Procs, StepOf(p), ProcSound(p)', MappingSound(p)',
           \A o \in Objects : ObjectSound(o)',
           bound' # None => object'[bound'].size >= 0
    PROVE  SharedIInv'
<1>1. \A q \in Procs : ProcSound(q)' /\ MappingSound(q)'
  BY OthersKeep
<1>2. \A q \in Procs : q # p => Creating(q)' = Creating(q) /\ proc'[q].fd = proc[q].fd
  BY DEF StepOf, Creating
<1>3. ASSUME NEW q \in Procs, q # p, Creating(p)', Creating(q)', proc'[p].fd = proc'[q].fd
      PROVE  FALSE
  <2>1. Creating(q) /\ proc'[p].fd = proc[q].fd
    BY <1>2, <1>3
  <2>2. object[proc[q].fd].size >= 0
    BY <2>1, CreatorHasAnObject
  <2> QED BY <1>3, <2>1, <2>2 DEF StepOf, SharedIInv, OneCreator
<1>4. ASSUME NEW q \in Procs, NEW r \in Procs, Creating(q)', Creating(r)',
             proc'[q].fd = proc'[r].fd
      PROVE  q = r
  BY <1>2, <1>3, <1>4 DEF SharedIInv, OneCreator
<1>5. OneCreator'
  BY <1>4 DEF OneCreator
<1> QED BY <1>1, <1>5 DEF SharedIInv

\* Steps that store nothing into an object.
LEMMA ObjectsAlone ==
    ASSUME SharedIInv, Shapes', NEW p \in Procs, ProcSound(p)', MappingSound(p)',
           object' = object, bound' = bound \/ bound' = None,
           \A q \in Procs : q # p => proc'[q] = proc[q] /\ mapping'[q] = mapping[q],
           \A q \in Procs : q # p /\ q \in dead' => q \in dead,
           Creating(p)' => Creating(p) /\ proc'[p].fd = proc[p].fd
    PROVE  SharedIInv' /\ \A o \in Objects : Grows(o)
<1>1. \A o \in Objects : Grows(o)
  <2>1. \A o \in Objects : object[o].size \in Int
    BY DEF SharedIInv, Shapes
  <2> QED BY <2>1 DEF Grows
<1>2. StepOf(p)
  BY <1>1 DEF StepOf
<1>3. \A o \in Objects : ObjectSound(o)'
  BY DEF SharedIInv, ObjectSound, Sound
<1>4. bound' # None => object'[bound'].size >= 0
  BY DEF SharedIInv
<1> QED BY <1>1, <1>2, <1>3, <1>4, StepSuffices

LEMMA Records ==
    /\ Zeroed \in Header
    /\ Idle \in ProcShape
    /\ NoMapping \in MappingShape
<1>1. Zeroed \in Header
  BY DEF Zeroed, Header
<1> QED BY <1>1 DEF Idle, NoMapping, None

\* A call returns, or a process stops using its buffer, or it dies.
LEMMA ReturnsToIdle ==
    ASSUME SharedIInv, NEW p \in Procs, proc' = [proc EXCEPT ![p] = Idle],
           mapping' = mapping \/ mapping' = [mapping EXCEPT ![p] = NoMapping],
           UNCHANGED <<object, dead>>, bound' = bound \/ bound' = None
    PROVE  SharedIInv' /\ \A o \in Objects : Grows(o)
<1>1. /\ Shapes /\ MappingSound(p)
      /\ proc'[p] = Idle /\ (mapping'[p] = mapping[p] \/ mapping'[p] = NoMapping)
  BY DEF SharedIInv, Shapes
<1>2. Shapes'
  BY <1>1, Records DEF Shapes
<1>3. ProcSound(p)'
  BY <1>1 DEF ProcSound, Idle, Creating
<1>4. MappingSound(p)'
  BY <1>1 DEF MappingSound, Idle, NoMapping, None
<1>5. ~Creating(p)'
  BY <1>1 DEF Idle, Creating
<1>6. \A q \in Procs : q # p => proc'[q] = proc[q] /\ mapping'[q] = mapping[q]
  BY <1>1 DEF Shapes
<1> QED BY <1>2, <1>3, <1>4, <1>5, <1>6, ObjectsAlone

----------------------------------------------------------------------------
(* The steps of circular_buffer_create.                                     *)

LEMMA CreateOpenKeeps ==
    ASSUME SharedIInv, NEW p \in Procs, NEW c \in Capacities, NEW s \in PrivateSizes,
           CreateOpen(p, c, s)
    PROVE  SharedIInv' /\ \A o \in Objects : Grows(o)
<1> USE ConstantsAreSizes
<1>1. PICK n \in Objects :
        /\ object[n] = NoObject
        /\ object' = [object EXCEPT ![n] = NewObject]
        /\ bound' = n
        /\ proc' = [proc EXCEPT ![p] =
              [Idle EXCEPT !.pc = "truncate", !.fd = n,
                  !.args = [Zeroed EXCEPT !.capacity = RoundUp(c, page_mask),
                                          !.private_size = s,
                                          !.page_mask = page_mask]]]
  BY DEF CreateOpen, Openable
<1>2. UNCHANGED <<mapping, dead>> /\ mapping[p] = NoMapping /\ Shapes
  BY DEF CreateOpen, Free, SharedIInv
<1>3. /\ RoundUp(c, page_mask) \in Nat /\ RoundUp(c, page_mask) > 0
      /\ RoundUp(c, page_mask) % PageSize = 0 /\ s \in Nat
  <2>1. c \in Nat /\ c > 0
    OBVIOUS
  <2>2. /\ RoundUp(c, page_mask) \in Nat /\ RoundUp(c, page_mask) >= c
        /\ RoundUp(c, page_mask) % (page_mask + 1) = 0
    BY <2>1, RoundUpProperties
  <2> QED BY <2>1, <2>2
<1> DEFINE a == [capacity |-> RoundUp(c, page_mask), private_size |-> s,
                 page_mask |-> page_mask, name |-> FALSE]
<1>4. proc'[p] = [pc |-> "truncate", fd |-> n, args |-> a, field |-> 1, late |-> FALSE]
  BY <1>1, <1>2 DEF Shapes, Idle, Zeroed
<1>5. a \in Header
  BY <1>3 DEF Header
<1>6. object'[n] = NewObject /\ object[n].size = -1
  BY <1>1, <1>2 DEF Shapes, NoObject
<1>7. Shapes'
  <2>1. NewObject \in ObjectShape
    BY Records DEF NewObject
  <2> HIDE DEF a
  <2>2. proc'[p] \in ProcShape
    BY <1>4, <1>5
  <2> QED BY <1>1, <1>2, <2>1, <2>2 DEF Shapes
<1>8. ASSUME NEW o \in Objects PROVE Grows(o) /\ ObjectSound(o)'
  <2>1. CASE o = n
    BY <1>1, <1>6, <2>1 DEF Grows, ObjectSound, NewObject, NoObject, Zeroed
  <2>2. CASE o # n
    <3>1. object'[o] = object[o] /\ ObjectSound(o) /\ object[o].size \in Int
      BY <1>1, <1>2, <2>2 DEF Shapes, SharedIInv
    <3> QED BY <3>1 DEF Grows, ObjectSound, Sound
  <2> QED BY <2>1, <2>2
<1>9. \A q \in Procs : q # p => proc'[q] = proc[q] /\ mapping'[q] = mapping[q]
  BY <1>1, <1>2 DEF Shapes
<1>10. StepOf(p)
  <2>1. \A o \in Objects : object'[o] # object[o] => object[o].size = -1
    BY <1>1, <1>2, <1>6 DEF Shapes
  <2> QED BY <1>2, <1>4, <1>6, <1>8, <1>9, <2>1 DEF StepOf
<1>11. ProcSound(p)'
  <2>1. Sound(a)
    BY <1>3 DEF Sound
  <2>2. CreatorSound(p)'
    BY <1>4, <1>6, <2>1 DEF CreatorSound, NewObject, Zeroed
  <2> QED BY <1>4, <2>2 DEF ProcSound, Creating, Objects, None
<1>12. MappingSound(p)'
  BY <1>2 DEF MappingSound, NoMapping, None
<1>13. object'[bound'].size >= 0
  BY <1>1, <1>6 DEF NewObject
<1> QED BY <1>7, <1>8, <1>10, <1>11, <1>12, <1>13, StepSuffices

\* A creator changes its own object.
LEMMA CreatorStores ==
    ASSUME SharedIInv, NEW p \in Procs, Creating(p), NEW new, NEW me,
           NEW mine \in Objects, mine = proc[p].fd,
           object' = [object EXCEPT ![mine] = new],
           new \in ObjectShape,
           proc' = [proc EXCEPT ![p] = me],
           me \in ProcShape,
           Creating(p)' => me.fd = mine, ~me.late,
           UNCHANGED <<bound, mapping, dead>>,
           Grows(mine), ObjectSound(mine)', ProcSound(p)'
    PROVE  SharedIInv' /\ \A o \in Objects : Grows(o)
<1>1. Shapes /\ MappingSound(p)
  BY DEF SharedIInv
<1>2. proc'[p] = me /\ object'[mine] = new
  BY <1>1 DEF Shapes
<1>3. Shapes'
  BY <1>1 DEF Shapes
<1>4. \A q \in Procs : q # p => proc'[q] = proc[q] /\ mapping'[q] = mapping[q]
  BY <1>1 DEF Shapes
<1>5. ASSUME NEW o \in Objects, o # mine
      PROVE  Grows(o) /\ ObjectSound(o)' /\ object'[o] = object[o]
  <2>1. object'[o] = object[o] /\ ObjectSound(o) /\ object[o].size \in Int
    BY <1>1, <1>5 DEF Shapes, SharedIInv
  <2> QED BY <2>1 DEF Grows, ObjectSound, Sound
<1>6. \A o \in Objects : Grows(o) /\ ObjectSound(o)'
  BY <1>5
<1>7. StepOf(p)
  BY <1>2, <1>4, <1>5, <1>6 DEF StepOf
<1>8. MappingSound(p)'
  <2>1. CASE mapping[p].of = None
    BY <1>1, <2>1 DEF MappingSound
  <2>2. CASE mapping[p].of # None
    <3>1. mapping[p].of \in Objects
      BY <1>1, <2>2 DEF Shapes
    <3>2. object'[mapping[p].of].size >= object[mapping[p].of].size
      BY <1>6, <3>1 DEF Grows
    <3>3. /\ object[mapping[p].of].size \in Int /\ object'[mapping[p].of].size \in Int
          /\ mapping[p].head \in Nat /\ mapping[p].capacity \in Nat
      BY <1>1, <1>3, <3>1 DEF Shapes
    <3> QED BY <1>1, <1>2, <2>2, <3>2, <3>3 DEF MappingSound
  <2> QED BY <2>1, <2>2
<1>9. bound' # None => object'[bound'].size >= 0
  <2>1. ASSUME bound # None PROVE object'[bound].size >= 0
    <3>1. bound \in Objects /\ object[bound].size >= 0 /\ object[bound].size \in Int
          /\ object'[bound].size \in Int
      BY <1>1, <1>3, <2>1 DEF Shapes, SharedIInv
    <3>2. object'[bound].size >= object[bound].size
      BY <1>6, <3>1 DEF Grows
    <3> QED BY <3>1, <3>2
  <2> QED BY <2>1
<1> QED BY <1>3, <1>6, <1>7, <1>8, <1>9, StepSuffices

\* What a creator has at hand.
LEMMA CreatorFacts ==
    ASSUME SharedIInv, NEW p \in Procs, Creating(p)
    PROVE  /\ Shapes /\ CreatorSound(p) /\ ObjectSound(proc[p].fd)
           /\ proc[p].fd \in Objects /\ proc[p].fd # None
           /\ object[proc[p].fd] \in ObjectShape
           /\ proc[p] \in ProcShape
           /\ ~proc[p].late
           /\ aligned_header_size(proc[p].args.private_size, page_mask) \in Nat \ {0}
           /\ aligned_header_size(0, page_mask)
                 <= aligned_header_size(proc[p].args.private_size, page_mask)
<1> USE ConstantsAreSizes
<1>1. Shapes /\ CreatorSound(p) /\ proc[p].fd \in Objects
  BY CreatorHasAnObject DEF SharedIInv, ProcSound
<1>2. ObjectSound(proc[p].fd) /\ proc[p].fd # None
  BY <1>1 DEF SharedIInv, None, Objects
<1>3. /\ object[proc[p].fd] \in ObjectShape
      /\ proc[p] \in ProcShape
  BY <1>1 DEF Shapes
<1>4. ~proc[p].late
  BY <1>1 DEF CreatorSound
<1>5. proc[p].args.private_size \in Nat /\ page_mask \in {0, page_mask}
  BY <1>3 DEF Header
<1>6. aligned_header_size(0, page_mask)
        <= aligned_header_size(proc[p].args.private_size, page_mask)
  <2>1. 0 \in Nat /\ 0 <= proc[p].args.private_size
    BY <1>5
  <2> QED BY <1>5, <2>1, HeadSizes
<1>7. aligned_header_size(proc[p].args.private_size, page_mask) \in Nat \ {0}
  <2>1. proc[p].args.private_size <= proc[p].args.private_size
    BY <1>5
  <2> QED BY <1>5, <2>1, HeadSizes
<1> QED BY <1>1, <1>2, <1>3, <1>4, <1>6, <1>7

LEMMA TruncateKeeps ==
    ASSUME SharedIInv, NEW p \in Procs, Truncate(p)
    PROVE  SharedIInv' /\ \A o \in Objects : Grows(o)
<1> USE ConstantsAreSizes
<1>0. PICK o \in Objects : o = proc[p].fd
  BY CreatorHasAnObject DEF Truncate, At, Creating
<1> DEFINE a == proc[p].args
           new == [object[o] EXCEPT !.size = Length(a)]
           me == [proc[p] EXCEPT !.pc = "map"]
<1>1. Creating(p) /\ proc[p].pc = "truncate"
  BY DEF Truncate, At, Creating
<1>2. /\ Shapes /\ CreatorSound(p) /\ ObjectSound(o) /\ o \in Objects /\ o # None
      /\ object[o] \in ObjectShape
      /\ proc[p] \in ProcShape
      /\ ~proc[p].late
      /\ aligned_header_size(a.private_size, page_mask) \in Nat \ {0}
      /\ aligned_header_size(0, page_mask) <= aligned_header_size(a.private_size, page_mask)
  BY <1>0, <1>1, CreatorFacts
<1>3. /\ object' = [object EXCEPT ![o] = new] /\ proc' = [proc EXCEPT ![p] = me]
      /\ UNCHANGED <<bound, mapping, dead>>
  BY <1>0 DEF Truncate
<1>4. /\ object[o].size = 0 /\ object[o].header = Zeroed /\ proc[p].field = 1
      /\ Sound(a) /\ a.capacity \in Nat
  BY <1>0, <1>1, <1>2 DEF CreatorSound, ObjectSound, Header
<1>5. /\ Length(a) \in Nat /\ Length(a) >= aligned_header_size(0, page_mask) /\ Length(a) > 0
      /\ aligned_header_size(0, page_mask) \in Nat
  <2>1. aligned_header_size(0, page_mask) \in Nat
    BY HeadSizes
  <2> QED BY <1>2, <1>4, <2>1 DEF Length
<1>6. /\ new = [size |-> Length(a), header |-> Zeroed]
      /\ new \in ObjectShape
  BY <1>2, <1>4, <1>5
<1>7. /\ me = [pc |-> "map", fd |-> o, args |-> a, field |-> 1, late |-> proc[p].late]
      /\ me \in ProcShape
  BY <1>0, <1>2, <1>4
<1>8. proc'[p] = me /\ object'[o] = new
  BY <1>2, <1>3 DEF Shapes
<1> HIDE DEF new, me
<1>9. Grows(o) /\ ObjectSound(o)'
  <2>1. /\ object'[o].size = Length(a) /\ object'[o].header = Zeroed
        /\ Zeroed.capacity = 0 /\ Zeroed.private_size = 0 /\ Zeroed.page_mask = 0 /\ ~Zeroed.name
    BY <1>6, <1>8 DEF Zeroed
  <2> QED BY <1>4, <1>5, <2>1 DEF Grows, ObjectSound
<1>10. CreatorSound(p)'
  BY <1>2, <1>4, <1>6, <1>7, <1>8 DEF CreatorSound, Zeroed, Sound, Length
<1>11. ProcSound(p)'
  BY <1>2, <1>7, <1>8, <1>10 DEF ProcSound, Creating
<1>12. me.fd = o /\ ~me.late
  BY <1>2, <1>7
<1> QED BY <1>0, <1>1, <1>3, <1>6, <1>7, <1>9, <1>11, <1>12, CreatorStores

LEMMA MapCreatedKeeps ==
    ASSUME SharedIInv, NEW p \in Procs, MapCreated(p)
    PROVE  SharedIInv' /\ \A o \in Objects : Grows(o)
<1> USE ConstantsAreSizes
<1>1. Creating(p) /\ proc[p].pc = "map"
  BY DEF MapCreated, At, Creating
<1> DEFINE a == proc[p].args
           head == aligned_header_size(a.private_size, page_mask)
           m == [of |-> proc[p].fd, head |-> head, capacity |-> a.capacity, whole |-> TRUE]
<1>2. /\ Shapes /\ CreatorSound(p) /\ proc[p].fd \in Objects /\ proc[p].fd # None
      /\ proc[p] \in ProcShape /\ ~proc[p].late /\ head \in Nat \ {0}
  BY <1>1, CreatorFacts
<1>3. /\ mapping' = [mapping EXCEPT ![p] = m]
      /\ proc' = [proc EXCEPT ![p].pc = "init"]
      /\ UNCHANGED <<bound, object, dead>>
  <2>1. PICK calls \in Calls : /\ map_shared_memory(calls) # Null
                               /\ mapping' = [mapping EXCEPT ![p] =
                                     Mapping(proc[p].fd, head, a.capacity, calls)]
    BY DEF MapCreated
  <2>2. Whole(calls) = TRUE
    BY <2>1, AddressMeansWhole DEF Whole, Calls
  <2>3. Mapping(proc[p].fd, head, a.capacity, calls) = m
    BY <2>2 DEF Mapping
  <2> QED BY <2>1, <2>3 DEF MapCreated
<1>4. a.capacity \in Nat /\ Sound(a) /\ object[proc[p].fd].size = Length(a)
  BY <1>1, <1>2 DEF CreatorSound, Header
<1>5. m \in MappingShape
  BY <1>2, <1>4
<1>6. proc'[p] = [proc[p] EXCEPT !.pc = "init"] /\ mapping'[p] = m
  BY <1>2, <1>3 DEF Shapes
<1>7. Shapes'
  BY <1>2, <1>3, <1>5 DEF Shapes
<1>8. /\ proc'[p].pc = "init" /\ proc'[p].fd = proc[p].fd /\ proc'[p].args = a
      /\ proc'[p].field = proc[p].field /\ ~proc'[p].late
  BY <1>2, <1>6
<1>9. CreatorSound(p)'
  BY <1>1, <1>2, <1>3, <1>8 DEF CreatorSound, Sound, Length
<1>10. ProcSound(p)' /\ Creating(p)'
  BY <1>2, <1>8, <1>9 DEF ProcSound, Creating
<1>11. MappingSound(p)'
  <2>1. /\ mapping'[p].of = proc[p].fd /\ mapping'[p].head = head
        /\ mapping'[p].capacity = a.capacity /\ mapping'[p].whole
    BY <1>6
  <2>2. head + a.capacity <= object'[proc[p].fd].size /\ head > 0
    BY <1>2, <1>3, <1>4 DEF Length
  <2> HIDE DEF head, m, a
  <2> QED BY <1>2, <1>8, <2>1, <2>2 DEF MappingSound
<1>12. \A q \in Procs : q # p => proc'[q] = proc[q] /\ mapping'[q] = mapping[q]
  BY <1>2, <1>3 DEF Shapes
<1> QED BY <1>1, <1>3, <1>7, <1>8, <1>10, <1>11, <1>12, ObjectsAlone

LEMMA InitHeaderKeeps ==
    ASSUME SharedIInv, NEW p \in Procs, InitHeader(p)
    PROVE  SharedIInv' /\ \A o \in Objects : Grows(o)
<1> USE ConstantsAreSizes
<1>1. Creating(p) /\ proc[p].pc = "init"
  BY DEF InitHeader, At, Creating
<1>2. PICK o \in Objects : o = proc[p].fd
  BY <1>1, CreatorHasAnObject
<1> DEFINE a == proc[p].args
           k == proc[p].field
           new == [object[o] EXCEPT !.header[Fields[k]] = a[Fields[k]]]
           me == [proc[p] EXCEPT !.field = @ + 1, !.pc = IF k = 3 THEN "name" ELSE "init"]
<1>3. /\ Shapes /\ CreatorSound(p) /\ ObjectSound(o) /\ o # None
      /\ object[o] \in ObjectShape /\ proc[p] \in ProcShape /\ ~proc[p].late
      /\ aligned_header_size(a.private_size, page_mask) \in Nat \ {0}
      /\ aligned_header_size(0, page_mask) <= aligned_header_size(a.private_size, page_mask)
  BY <1>1, <1>2, CreatorFacts
<1>4. /\ object' = [object EXCEPT ![o] = new] /\ proc' = [proc EXCEPT ![p] = me]
      /\ UNCHANGED <<bound, mapping, dead>>
  BY <1>2, <1>3 DEF InitHeader, Shapes
<1>5. /\ k \in 1..3 /\ Sound(a) /\ a \in Header /\ object[o].size = Length(a)
      /\ ~object[o].header.name
      /\ object[o].header.capacity = IF k > 1 THEN a.capacity ELSE 0
      /\ object[o].header.private_size = IF k > 2 THEN a.private_size ELSE 0
      /\ object[o].header.page_mask = 0
  BY <1>1, <1>2, <1>3 DEF CreatorSound
<1>6. /\ me.pc = IF k = 3 THEN "name" ELSE "init"
      /\ me.fd = o /\ me.args = a /\ me.field = k + 1 /\ ~me.late /\ me \in ProcShape
  <2> DEFINE pc == IF k = 3 THEN "name" ELSE "init"
  <2>1. pc \in {"init", "name"} /\ k + 1 \in 1..4
    BY <1>5
  <2>2. me = [proc[p] EXCEPT !.field = k + 1, !.pc = pc]
    OBVIOUS
  <2> HIDE DEF pc, me
  <2>3. /\ me.pc = pc /\ me.fd = o /\ me.args = a /\ me.field = k + 1
        /\ me.late = proc[p].late /\ me \in ProcShape
    BY <1>2, <1>3, <2>1, <2>2
  <2> QED BY <1>3, <2>3 DEF pc
<1>7. /\ new \in ObjectShape /\ new.size = object[o].size /\ ~new.header.name
      /\ new.header.capacity = a.capacity
      /\ new.header.private_size = IF k > 1 THEN a.private_size ELSE 0
      /\ new.header.page_mask = IF k > 2 THEN a.page_mask ELSE 0
  <2>1. CASE k = 1
    <3>1. new = [object[o] EXCEPT !.header.capacity = a.capacity]
      BY <2>1 DEF Fields
    <3> QED BY <1>3, <1>5, <2>1, <3>1 DEF Header
  <2>2. CASE k = 2
    <3>1. new = [object[o] EXCEPT !.header.private_size = a.private_size]
      BY <2>2 DEF Fields
    <3> QED BY <1>3, <1>5, <2>2, <3>1 DEF Header
  <2>3. CASE k = 3
    <3>1. new = [object[o] EXCEPT !.header.page_mask = a.page_mask]
      BY <2>3 DEF Fields
    <3> QED BY <1>3, <1>5, <2>3, <3>1 DEF Header
  <2> QED BY <1>5, <2>1, <2>2, <2>3
<1>8. proc'[p] = me /\ object'[o] = new
  BY <1>3, <1>4 DEF Shapes
<1> HIDE DEF new, me
<1>9. /\ a.capacity \in Nat /\ a.private_size \in Nat /\ a.page_mask = page_mask
      /\ Length(a) \in Nat /\ Length(a) > 0
      /\ aligned_header_size(0, page_mask) \in Nat
  <2>1. aligned_header_size(0, page_mask) \in Nat
    BY HeadSizes
  <2> QED BY <1>3, <1>5, <2>1 DEF Header, Sound, Length
<1>10. Grows(o)
  BY <1>5, <1>7, <1>8, <1>9 DEF Grows
<1>11. ObjectSound(o)'
  <2>1. a.capacity + aligned_header_size(new.header.private_size, page_mask) <= Length(a)
    BY <1>3, <1>5, <1>7, <1>9 DEF Length
  <2>2. object'[o].size = Length(a)
    BY <1>5, <1>7, <1>8
  <2> QED BY <1>7, <1>8, <1>9, <2>1, <2>2 DEF ObjectSound
<1>12. CreatorSound(p)'
  BY <1>3, <1>5, <1>6, <1>7, <1>8 DEF CreatorSound, Sound, Length
<1>13. ProcSound(p)' /\ Creating(p)'
  BY <1>3, <1>6, <1>8, <1>12 DEF ProcSound, Creating
<1> QED BY <1>1, <1>2, <1>4, <1>6, <1>7, <1>10, <1>11, <1>13, CreatorStores

LEMMA SaveNameKeeps ==
    ASSUME SharedIInv, NEW p \in Procs, SaveName(p)
    PROVE  SharedIInv' /\ \A o \in Objects : Grows(o)
<1> USE ConstantsAreSizes
<1>1. Creating(p) /\ proc[p].pc = "name"
  BY DEF SaveName, At, Creating
<1>2. PICK o \in Objects : o = proc[p].fd
  BY <1>1, CreatorHasAnObject
<1> DEFINE new == [object[o] EXCEPT !.header.name = TRUE]
<1>3. /\ Shapes /\ CreatorSound(p) /\ ObjectSound(o)
      /\ object[o] \in ObjectShape /\ proc[p] \in ProcShape
  BY <1>1, <1>2, CreatorFacts
<1>4. /\ object' = [object EXCEPT ![o] = new] /\ proc' = [proc EXCEPT ![p] = Idle]
      /\ UNCHANGED <<bound, mapping, dead>>
  BY <1>2 DEF SaveName
<1>5. Sound(object[o].header) /\ ~object[o].header.name /\ object[o].header \in Header
  BY <1>1, <1>2, <1>3 DEF CreatorSound, Sound
<1>6. /\ new \in ObjectShape /\ new.size = object[o].size /\ new.header.name
      /\ new.header.capacity = object[o].header.capacity
      /\ new.header.private_size = object[o].header.private_size
      /\ new.header.page_mask = object[o].header.page_mask
  BY <1>3, <1>5 DEF Header
<1>7. proc'[p] = Idle /\ object'[o] = new
  BY <1>3, <1>4 DEF Shapes
<1> HIDE DEF new
<1>8. Grows(o)
  BY <1>3, <1>5, <1>6, <1>7 DEF Grows
<1>9. ObjectSound(o)'
  <2>1. object[o].size > 0
    BY <1>3, <1>5 DEF ObjectSound, Zeroed, Sound
  <2>2. Sound(new.header)
    BY <1>5, <1>6 DEF Sound
  <2> QED BY <1>3, <1>6, <1>7, <2>1, <2>2 DEF ObjectSound
<1>10. ProcSound(p)' /\ ~Creating(p)' /\ ~Idle.late
  BY <1>7 DEF ProcSound, Creating, Idle
<1> QED BY <1>1, <1>2, <1>4, <1>6, <1>8, <1>9, <1>10, Records, CreatorStores

----------------------------------------------------------------------------
(* The steps of circular_buffer_attach.                                     *)

LEMMA AttachOpenKeeps ==
    ASSUME SharedIInv, NEW p \in Procs, AttachOpen(p)
    PROVE  SharedIInv' /\ \A o \in Objects : Grows(o)
<1>1. /\ Shapes /\ MappingSound(p) /\ bound \in Objects /\ object[bound].size >= 0
      /\ object[bound] \in ObjectShape
      /\ mapping[p] = NoMapping /\ p \notin dead /\ UNCHANGED <<bound, object, mapping, dead>>
  BY DEF SharedIInv, Shapes, AttachOpen, Free
<1> DEFINE me == [Idle EXCEPT !.pc = "read", !.fd = bound, !.late = object[bound].header.name]
<1>2. proc' = [proc EXCEPT ![p] = me]
  BY DEF AttachOpen
<1>3. /\ me \in ProcShape /\ me.pc = "read" /\ me.fd = bound
      /\ me.args = Zeroed /\ me.field = 1 /\ me.late = object[bound].header.name
  <2>1. object[bound].header.name \in BOOLEAN
    BY <1>1 DEF Header
  <2>2. Idle \in ProcShape /\ Idle.args = Zeroed /\ Idle.field = 1
    BY Records DEF Idle
  <2> HIDE DEF ProcShape
  <2>3. ASSUME NEW name \in BOOLEAN, NEW x, x = [Idle EXCEPT !.pc = "read", !.fd = bound, !.late = name]
        PROVE  /\ x \in ProcShape /\ x.pc = "read" /\ x.fd = bound
               /\ x.args = Zeroed /\ x.field = 1 /\ x.late = name
    BY <1>1, <2>2, <2>3 DEF ProcShape
  <2> QED BY <2>1, <2>3
<1> HIDE DEF me
<1>4. Shapes' /\ proc'[p] = me
  BY <1>1, <1>2, <1>3 DEF Shapes
<1>5. ReaderSound(p)'
  <2>1. /\ proc'[p].pc = "read" /\ proc'[p].fd = bound /\ proc'[p].field = 1
        /\ proc'[p].args.capacity = 0 /\ proc'[p].args.private_size = 0
        /\ proc'[p].args.page_mask = 0
        /\ proc'[p].late => object'[bound].header.name
    BY <1>1, <1>3, <1>4 DEF Zeroed
  <2> QED BY <1>1, <2>1 DEF ReaderSound
<1>6. ProcSound(p)' /\ ~Creating(p)'
  BY <1>1, <1>3, <1>4, <1>5 DEF ProcSound, Creating, Objects, None
<1>7. MappingSound(p)'
  BY <1>1 DEF MappingSound, NoMapping
<1>8. \A q \in Procs : q # p => proc'[q] = proc[q] /\ mapping'[q] = mapping[q]
  BY <1>1, <1>2 DEF Shapes
<1> QED BY <1>1, <1>4, <1>6, <1>7, <1>8, ObjectsAlone

LEMMA ReaderFacts ==
    ASSUME SharedIInv, NEW p \in Procs, proc[p].pc \in {"read", "attach"}
    PROVE  /\ Shapes /\ ReaderSound(p) /\ ProcSound(p) /\ MappingSound(p)
           /\ proc[p].fd \in Objects /\ proc[p].fd # None
           /\ ObjectSound(proc[p].fd)
           /\ object[proc[p].fd] \in ObjectShape /\ proc[p] \in ProcShape
<1>1. /\ Shapes /\ ReaderSound(p) /\ ProcSound(p) /\ MappingSound(p) /\ proc[p].fd # None
  BY DEF SharedIInv, ProcSound
<1>2. proc[p].fd \in Objects /\ proc[p] \in ProcShape
  BY <1>1 DEF Shapes
<1> QED BY <1>1, <1>2 DEF Shapes, SharedIInv

LEMMA ReadFieldKeeps ==
    ASSUME SharedIInv, NEW p \in Procs, ReadField(p)
    PROVE  SharedIInv' /\ \A o \in Objects : Grows(o)
<1>1. proc[p].pc = "read" /\ p \notin dead
  BY DEF ReadField, At
<1>2. /\ Shapes /\ ReaderSound(p) /\ ProcSound(p) /\ MappingSound(p)
      /\ proc[p].fd \in Objects /\ proc[p].fd # None
      /\ object[proc[p].fd] \in ObjectShape /\ proc[p] \in ProcShape
  BY <1>1, ReaderFacts
<1> DEFINE h == object[proc[p].fd].header
           a == proc[p].args
           k == proc[p].field
           copy == [a EXCEPT ![Fields[k]] = h[Fields[k]]]
           pc == IF k = 3 THEN "attach" ELSE "read"
           me == [proc[p] EXCEPT !.args = copy, !.field = k + 1, !.pc = pc]
<1>3. /\ UNCHANGED <<bound, object, mapping, dead>>
      /\ proc' = [proc EXCEPT ![p] = me]
  BY <1>2 DEF ReadField, Object, Shapes
<1>4. /\ k \in 1..3 /\ a \in Header /\ h \in Header /\ pc \in {"attach", "read"}
      /\ mapping[p] = NoMapping /\ object[proc[p].fd].size >= 0
      /\ a.capacity # 0 => a.capacity = h.capacity
      /\ a.private_size # 0 => a.private_size = h.private_size
      /\ a.page_mask # 0 => a.page_mask = h.page_mask
      /\ proc[p].late =>
            /\ h.name
            /\ k > 1 => a.capacity = h.capacity
            /\ k > 2 => a.private_size = h.private_size
  BY <1>1, <1>2 DEF ReaderSound
<1>5. /\ copy \in Header
      /\ copy.capacity = IF k = 1 THEN h.capacity ELSE a.capacity
      /\ copy.private_size = IF k = 2 THEN h.private_size ELSE a.private_size
      /\ copy.page_mask = IF k = 3 THEN h.page_mask ELSE a.page_mask
  <2>1. CASE k = 1
    <3>1. copy = [a EXCEPT !.capacity = h.capacity]
      BY <2>1 DEF Fields
    <3> QED BY <1>4, <2>1, <3>1 DEF Header
  <2>2. CASE k = 2
    <3>1. copy = [a EXCEPT !.private_size = h.private_size]
      BY <2>2 DEF Fields
    <3> QED BY <1>4, <2>2, <3>1 DEF Header
  <2>3. CASE k = 3
    <3>1. copy = [a EXCEPT !.page_mask = h.page_mask]
      BY <2>3 DEF Fields
    <3>2. a \in Header /\ h \in Header
      BY <1>4
    <3>3. copy \in Header
      BY <3>1, <3>2 DEF Header
    <3>4. copy.capacity = a.capacity /\ copy.private_size = a.private_size /\ copy.page_mask = h.page_mask
      BY <3>1, <3>2 DEF Header
    <3> QED BY <2>3, <3>3, <3>4
  <2>4. k = 1 \/ k = 2 \/ k = 3
    BY <1>4
  <2> HIDE DEF copy, h, a
  <2> QED BY <2>1, <2>2, <2>3, <2>4
<1> HIDE DEF copy
<1>6. /\ me \in ProcShape /\ me.pc = pc /\ me.fd = proc[p].fd /\ me.args = copy
      /\ me.field = k + 1 /\ me.late = proc[p].late
  <2>1. k + 1 \in 1..4
    BY <1>4
  <2> HIDE DEF pc
  <2> QED BY <1>2, <1>4, <1>5, <2>1
<1>7. Shapes' /\ proc'[p] = me
  <2> HIDE DEF me
  <2> QED BY <1>2, <1>3, <1>6 DEF Shapes
<1> HIDE DEF me
<1>8. ReaderSound(p)'
  BY <1>3, <1>4, <1>5, <1>6, <1>7 DEF ReaderSound
<1>9. ProcSound(p)' /\ ~Creating(p)'
  BY <1>1, <1>2, <1>3, <1>6, <1>7, <1>8 DEF ProcSound, Creating
<1>10. MappingSound(p)'
  BY <1>3, <1>4 DEF MappingSound, NoMapping
<1>11. \A q \in Procs : q # p => proc'[q] = proc[q] /\ mapping'[q] = mapping[q]
  BY <1>2, <1>3 DEF Shapes
<1> QED BY <1>3, <1>7, <1>9, <1>10, <1>11, ObjectsAlone

\* The copy a reader has made, whole or torn, never asks for more than the
\* object holds; made of a complete header, it passes the asserts.
LEMMA CopyFitsObject ==
    ASSUME SharedIInv, NEW p \in Procs, proc[p].pc = "attach"
    PROVE  LET a == proc[p].args
               h == object[proc[p].fd].header
           IN  /\ HeadOf(a) \in Nat \ {0} /\ a.capacity \in Nat
               /\ a.capacity > 0 => HeadOf(a) + a.capacity <= object[proc[p].fd].size
               /\ proc[p].late => /\ h.name
                                  /\ HeadOf(a) = aligned_header_size(h.private_size, h.page_mask)
                                  /\ a.capacity = h.capacity
                                  /\ Mappable(HeadOf(a), a.capacity)
<1> USE ConstantsAreSizes
<1> DEFINE a == proc[p].args
           h == object[proc[p].fd].header
           size == object[proc[p].fd].size
<1>1. /\ ReaderSound(p) /\ ObjectSound(proc[p].fd)
      /\ object[proc[p].fd] \in ObjectShape /\ proc[p] \in ProcShape
  BY ReaderFacts
<1>2. /\ h \in Header /\ a \in Header /\ size \in Int /\ proc[p].field = 4
      /\ a.capacity # 0 => a.capacity = h.capacity
      /\ a.private_size # 0 => a.private_size = h.private_size
      /\ a.page_mask # 0 => a.page_mask = h.page_mask
      /\ proc[p].late => /\ h.name /\ a.capacity = h.capacity
                         /\ a.private_size = h.private_size /\ a.page_mask = h.page_mask
  BY <1>1 DEF ReaderSound
<1>3. /\ size <= 0 => h = Zeroed
      /\ size > 0 => h.capacity + aligned_header_size(h.private_size, page_mask) <= size
      /\ h.page_mask \in {0, page_mask}
      /\ h.name => Sound(h)
  BY <1>1 DEF ObjectSound
<1> HIDE DEF a, h, size
<1>4. /\ a.private_size \in Nat /\ h.private_size \in Nat /\ a.private_size <= h.private_size
      /\ a.page_mask \in {0, page_mask} /\ a.capacity \in Nat /\ h.capacity \in Nat
  BY <1>2, <1>3 DEF Header
<1>5. /\ HeadOf(a) \in Nat \ {0}
      /\ HeadOf(a) <= aligned_header_size(h.private_size, page_mask)
      /\ aligned_header_size(h.private_size, page_mask) % PageSize = 0
  BY <1>4, HeadSizes DEF HeadOf
<1>6. aligned_header_size(h.private_size, page_mask) \in Nat
  <2>1. h.private_size <= h.private_size /\ page_mask \in {0, page_mask}
    BY <1>4
  <2> QED BY <1>4, <2>1, HeadSizes
<1>7. ASSUME a.capacity > 0 PROVE HeadOf(a) + a.capacity <= size
  <2>1. h.capacity = a.capacity /\ h.capacity > 0
    BY <1>2, <1>4, <1>7
  <2>2. size > 0
    BY <1>2, <1>3, <2>1 DEF Zeroed
  <2> QED BY <1>2, <1>3, <1>4, <1>5, <1>6, <2>1, <2>2
<1>8. ASSUME proc[p].late
      PROVE  /\ h.name
             /\ HeadOf(a) = aligned_header_size(h.private_size, h.page_mask)
             /\ a.capacity = h.capacity
             /\ Mappable(HeadOf(a), a.capacity)
  <2>1. /\ h.name /\ a.capacity = h.capacity /\ a.private_size = h.private_size
        /\ a.page_mask = h.page_mask /\ Sound(h)
    BY <1>2, <1>3, <1>8
  <2>2. HeadOf(a) = aligned_header_size(h.private_size, h.page_mask)
    BY <2>1 DEF HeadOf
  <2>3. h.page_mask = page_mask /\ h.capacity > 0 /\ h.capacity % PageSize = 0
    BY <2>1 DEF Sound
  <2>4. Mappable(HeadOf(a), a.capacity)
    BY <1>5, <2>1, <2>2, <2>3 DEF Mappable
  <2> QED BY <2>1, <2>2, <2>4
<1> QED BY <1>4, <1>5, <1>7, <1>8 DEF a, h, size

\* The state in which an attach leaves its process: idle, and still knowing
\* whether it was late.
LEMMA IdleLate ==
    ASSUME NEW late \in BOOLEAN, NEW x, x = [Idle EXCEPT !.late = late]
    PROVE  x \in ProcShape /\ x.pc = "idle" /\ x.fd = None /\ x.late = late
<1>1. Idle \in ProcShape /\ Idle.pc = "idle" /\ Idle.fd = None
  BY Records DEF Idle
<1> QED BY <1>1

LEMMA MapAttachedKeeps ==
    ASSUME SharedIInv, NEW p \in Procs, MapAttached(p)
    PROVE  SharedIInv' /\ \A o \in Objects : Grows(o)
<1>1. proc[p].pc = "attach" /\ p \notin dead
  BY DEF MapAttached, At
<1>2. Shapes /\ proc[p].fd \in Objects /\ proc[p].fd # None /\ proc[p] \in ProcShape
  BY <1>1, ReaderFacts
<1> DEFINE a == proc[p].args
           h == object[proc[p].fd].header
           m == [of |-> proc[p].fd, head |-> HeadOf(a), capacity |-> a.capacity, whole |-> TRUE]
           me == [Idle EXCEPT !.late = proc[p].late]
<1>3. /\ mapping' = [mapping EXCEPT ![p] = m] /\ a.capacity > 0
      /\ proc' = [proc EXCEPT ![p] = me]
      /\ UNCHANGED <<bound, object, dead>>
  <2>1. PICK calls \in Calls : /\ map_shared_memory(calls) # Null
                               /\ mapping' = [mapping EXCEPT ![p] =
                                     Mapping(proc[p].fd, HeadOf(a), a.capacity, calls)]
    BY DEF MapAttached
  <2>2. Whole(calls) = TRUE
    BY <2>1, AddressMeansWhole DEF Whole, Calls
  <2>3. Mapping(proc[p].fd, HeadOf(a), a.capacity, calls) = m
    BY <2>2 DEF Mapping
  <2> QED BY <2>1, <2>3 DEF MapAttached, Mappable
<1>4. /\ HeadOf(a) \in Nat \ {0} /\ a.capacity \in Nat
      /\ HeadOf(a) + a.capacity <= object[proc[p].fd].size
      /\ proc[p].late => /\ h.name
                         /\ HeadOf(a) = aligned_header_size(h.private_size, h.page_mask)
                         /\ a.capacity = h.capacity
  BY <1>1, <1>3, CopyFitsObject
<1>5. me \in ProcShape /\ me.pc = "idle" /\ me.fd = None /\ me.late = proc[p].late
  <2>1. proc[p].late \in BOOLEAN
    BY <1>2
  <2> QED BY <2>1, IdleLate
<1>6. m \in MappingShape
  BY <1>2, <1>4
<1> HIDE DEF me
<1>7. Shapes'
  BY <1>2, <1>3, <1>5, <1>6 DEF Shapes
<1>8. proc'[p] = me /\ mapping'[p] = m
  BY <1>2, <1>3 DEF Shapes
<1>9. ProcSound(p)' /\ ~Creating(p)'
  BY <1>1, <1>3, <1>5, <1>8 DEF ProcSound, Creating
<1>10. MappingSound(p)'
  <2>1. /\ mapping'[p].of = proc[p].fd /\ mapping'[p].head = HeadOf(a)
        /\ mapping'[p].capacity = a.capacity /\ mapping'[p].whole
        /\ proc'[p].late = proc[p].late
    BY <1>5, <1>8
  <2>2. HeadOf(a) > 0
    BY <1>4
  <2> QED BY <1>2, <1>3, <1>4, <2>1, <2>2 DEF MappingSound
<1>11. \A q \in Procs : q # p => proc'[q] = proc[q] /\ mapping'[q] = mapping[q]
  BY <1>2, <1>3 DEF Shapes
<1> QED BY <1>3, <1>7, <1>9, <1>10, <1>11, ObjectsAlone

LEMMA AssertAbortsKeeps ==
    ASSUME SharedIInv, NEW p \in Procs, AssertAborts(p)
    PROVE  SharedIInv' /\ \A o \in Objects : Grows(o)
<1>1. proc[p].pc = "attach" /\ p \notin dead
  BY DEF AssertAborts, At
<1>2. /\ Shapes /\ ReaderSound(p) /\ proc[p] \in ProcShape
  BY <1>1, ReaderFacts
<1> DEFINE me == [Idle EXCEPT !.late = proc[p].late]
<1>3. /\ dead' = dead \union {p} /\ proc' = [proc EXCEPT ![p] = me]
      /\ UNCHANGED <<bound, object, mapping>>
  BY DEF AssertAborts
<1>4. ~proc[p].late
  BY <1>1, CopyFitsObject DEF AssertAborts
<1>5. me \in ProcShape /\ me.pc = "idle" /\ me.fd = None /\ me.late = proc[p].late
  <2>1. proc[p].late \in BOOLEAN
    BY <1>2
  <2> QED BY <2>1, IdleLate
<1> HIDE DEF me
<1>6. Shapes' /\ proc'[p] = me
  BY <1>2, <1>3, <1>5 DEF Shapes
<1>7. ProcSound(p)' /\ ~Creating(p)'
  BY <1>4, <1>5, <1>6 DEF ProcSound, Creating
<1>8. MappingSound(p)'
  BY <1>2, <1>3 DEF ReaderSound, MappingSound, NoMapping
<1>9. \A q \in Procs : q # p => proc'[q] = proc[q] /\ mapping'[q] = mapping[q]
  BY <1>2, <1>3 DEF Shapes
<1> QED BY <1>3, <1>6, <1>7, <1>8, <1>9, ObjectsAlone

----------------------------------------------------------------------------
(* The theorems.                                                            *)

LEMMA SharedInit == Init => SharedIInv
<1> SUFFICES ASSUME Init PROVE SharedIInv
  OBVIOUS
<1> USE ConstantsAreSizes
<1>1. /\ bound = None /\ dead = {}
      /\ \A o \in Objects : object[o] = NoObject
      /\ \A p \in Procs : proc[p] = Idle /\ mapping[p] = NoMapping
  BY DEF Init
<1>2. Shapes
  <2>1. NoObject \in ObjectShape
    BY Records DEF NoObject
  <2> QED BY <2>1, Records DEF Init, Shapes
<1>3. ASSUME NEW o \in Objects PROVE ObjectSound(o)
  <2>1. /\ object[o].size = -1 /\ object[o].header = Zeroed
        /\ Zeroed.page_mask = 0 /\ ~Zeroed.name
    <3>1. object[o] = NoObject
      BY <1>1
    <3> QED BY <3>1 DEF NoObject, Zeroed
  <2> QED BY <2>1 DEF ObjectSound
<1>4. \A p \in Procs : ProcSound(p) /\ ~Creating(p)
  BY <1>1 DEF ProcSound, Creating, Idle
<1>5. ASSUME NEW p \in Procs PROVE MappingSound(p)
  <2>1. mapping[p] = NoMapping /\ mapping[p].of = None
    <3>1. mapping[p] = NoMapping
      BY <1>1
    <3> QED BY <3>1 DEF NoMapping
  <2> QED BY <2>1 DEF MappingSound
<1> QED BY <1>1, <1>2, <1>3, <1>4, <1>5 DEF SharedIInv, OneCreator

\* Every step of every process keeps the invariant, and takes nothing back of
\* what a header says.
LEMMA SharedStep == SharedIInv /\ Next => SharedIInv' /\ \A o \in Objects : Grows(o)
<1> SUFFICES ASSUME SharedIInv, Next PROVE SharedIInv' /\ \A o \in Objects : Grows(o)
  OBVIOUS
<1>1. PICK p \in Procs :
        \/ \E c \in Capacities, s \in PrivateSizes : CreateOpen(p, c, s)
        \/ Truncate(p) \/ MapCreated(p) \/ CreateFails(p) \/ InitHeader(p) \/ SaveName(p)
        \/ AttachOpen(p) \/ ReadShort(p) \/ ReadField(p)
        \/ MapAttached(p) \/ MapAttachedFails(p) \/ AssertAborts(p)
        \/ Detach(p) \/ Destroy(p) \/ Crash(p)
  BY DEF Next
<1>2. ASSUME NEW c \in Capacities, NEW s \in PrivateSizes, CreateOpen(p, c, s)
      PROVE  SharedIInv' /\ \A o \in Objects : Grows(o)
  BY <1>2, CreateOpenKeeps
<1>3. CASE Truncate(p)
  BY <1>3, TruncateKeeps
<1>4. CASE MapCreated(p)
  BY <1>4, MapCreatedKeeps
<1>5. CASE CreateFails(p)
  BY <1>5, ReturnsToIdle DEF CreateFails, ReturnNull
<1>6. CASE InitHeader(p)
  BY <1>6, InitHeaderKeeps
<1>7. CASE SaveName(p)
  BY <1>7, SaveNameKeeps
<1>8. CASE AttachOpen(p)
  BY <1>8, AttachOpenKeeps
<1>9. CASE ReadShort(p)
  BY <1>9, ReturnsToIdle DEF ReadShort, ReturnNull
<1>10. CASE ReadField(p)
  BY <1>10, ReadFieldKeeps
<1>11. CASE MapAttached(p)
  BY <1>11, MapAttachedKeeps
<1>12. CASE MapAttachedFails(p)
  BY <1>12, ReturnsToIdle DEF MapAttachedFails, ReturnNull
<1>13. CASE AssertAborts(p)
  BY <1>13, AssertAbortsKeeps
<1>14. CASE Detach(p)
  BY <1>14, ReturnsToIdle DEF Detach
<1>15. CASE Destroy(p)
  BY <1>15, ReturnsToIdle DEF Destroy
<1>16. CASE Crash(p)
  BY <1>16, ReturnsToIdle DEF Crash
<1> QED BY <1>1, <1>2, <1>3, <1>4, <1>5, <1>6, <1>7, <1>8, <1>9, <1>10, <1>11, <1>12,
           <1>13, <1>14, <1>15, <1>16

LEMMA SharedStutter == SharedIInv /\ UNCHANGED vars => SharedIInv'
BY DEF SharedIInv, vars, Shapes, ObjectSound, ProcSound, MappingSound, OneCreator, Creating,
       CreatorSound, ReaderSound, Sound, Length

LEMMA SharedIInvAlways == Spec => []SharedIInv
<1>1. SharedIInv /\ [Next]_vars => SharedIInv'
  BY SharedStep, SharedStutter
<1> QED BY <1>1, SharedInit, PTL DEF Spec

\* A mapping or an object that is really there.
LEMMA PresentOnes ==
    ASSUME SharedIInv
    PROVE  /\ \A p \in Procs : mapping[p] # NoMapping => mapping[p].of # None
           /\ \A o \in Objects : object[o].size >= 0 => object[o] # NoObject
BY DEF SharedIInv, MappingSound, NoObject

\* Whatever is attached, however early, lies within its object and is wholly
\* mapped, and every return has closed its descriptor: for any number of
\* processes that create, attach, destroy, fail and die in any order
\* (circular_buffer.c:64-206).
THEOREM MappingsStayWithinObjects == Spec => []ObjectInv
<1>1. SharedIInv => ObjectInv
  <2> SUFFICES ASSUME SharedIInv PROVE ObjectInv
    OBVIOUS
  <2>1. Shapes /\ \A p \in Procs : ProcSound(p) /\ MappingSound(p)
    BY DEF SharedIInv
  <2>2. /\ bound \in Objects \union {None} /\ dead \subseteq Procs
        /\ \A o \in Objects : object[o].size \in Int /\ object[o].header.name \in BOOLEAN
    BY <2>1 DEF Shapes, Header
  <2>3. \A p \in Procs :
          /\ proc[p].pc \in {"idle", "truncate", "map", "init", "name", "read", "attach"}
          /\ proc[p].fd \in Objects \union {None}
          /\ mapping[p].of \in Objects \union {None}
    BY <2>1 DEF Shapes
  <2>4. ASSUME NEW p \in Procs PROVE (proc[p].pc = "idle") = (proc[p].fd = None)
    <3>1. proc[p].pc = "idle" <=> proc[p].fd = None
      BY <2>1 DEF ProcSound
    <3> QED BY <3>1
  <2>5. bound # None => object[bound] # NoObject
    <3>1. bound # None => bound \in Objects /\ object[bound].size >= 0
      BY <2>2 DEF SharedIInv
    <3> QED BY <3>1, PresentOnes
  <2>6. MappedWithinObject
    <3>1. \A p \in Procs : mapping[p].of # None =>
            /\ mapping[p].head + mapping[p].capacity <= object[mapping[p].of].size
            /\ mapping[p].whole
      BY <2>1 DEF MappingSound
    <3> QED BY <3>1, PresentOnes DEF MappedWithinObject
  <2> QED BY <2>2, <2>3, <2>4, <2>5, <2>6 DEF ObjectInv, TypeOK
<1> QED BY <1>1, SharedIInvAlways, PTL

\* An attach that opens the name after create has returned is never aborted by
\* the asserts and maps exactly create's layout (circular_buffer.c:179-206).
THEOREM LateAttachGetsTheLayout == Spec => []SettledAttachIsSound
<1>1. SharedIInv => SettledAttachIsSound
  <2> SUFFICES ASSUME SharedIInv, NEW p \in Procs, proc[p].late
               PROVE  /\ p \notin dead
                      /\ mapping[p] # NoMapping =>
                            LET h == object[mapping[p].of].header
                            IN  /\ mapping[p].head
                                      = aligned_header_size(h.private_size, h.page_mask)
                                /\ mapping[p].capacity = h.capacity
    BY DEF SettledAttachIsSound
  <2>1. ProcSound(p) /\ MappingSound(p)
    BY DEF SharedIInv
  <2> QED BY <2>1, PresentOnes DEF ProcSound, MappingSound
<1> QED BY <1>1, SharedIInvAlways, PTL

\* No step changes a field of a header that has been stored: the fields are
\* written once, by the one creator O_EXCL admits (circular_buffer.c:126,
\* 169-175).
THEOREM LayoutIsWrittenOnce == Spec => LayoutNeverChanges
<1> DEFINE Keeps == \A o \in Objects : \A f \in {"capacity", "private_size", "page_mask"} :
                object[o].header[f] # 0 => object'[o].header[f] = object[o].header[f]
<1>1. SharedIInv /\ Next => Keeps
  <2> SUFFICES ASSUME SharedIInv, Next, NEW o \in Objects,
                      NEW f \in {"capacity", "private_size", "page_mask"},
                      object[o].header[f] # 0
               PROVE  object'[o].header[f] = object[o].header[f]
    OBVIOUS
  <2>1. Grows(o)
    BY SharedStep
  <2>2. CASE f = "capacity"
    BY <2>1, <2>2 DEF Grows
  <2>3. CASE f = "private_size"
    BY <2>1, <2>3 DEF Grows
  <2>4. CASE f = "page_mask"
    BY <2>1, <2>4 DEF Grows
  <2> QED BY <2>2, <2>3, <2>4
<1>2. SharedIInv /\ [Next]_vars => [Keeps]_vars
  BY <1>1
<1>3. [][Keeps]_vars <=> LayoutNeverChanges
  BY DEF LayoutNeverChanges
<1> HIDE DEF Keeps
<1> QED BY <1>2, <1>3, SharedIInvAlways, PTL DEF Spec
=============================================================================
