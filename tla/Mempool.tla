------------------------------- MODULE Mempool -------------------------------
(****************************************************************************)
(* mempool (mempool.h, mempool.cpp): an arena cut, by moving cur_, into     *)
(* blocks of 8 * 2^i bytes; each block is for ever on one of the two        *)
(* doubly-linked lists, free and used, of its manager i.                    *)
(*                                                                          *)
(* A block is named by its address and the links are kept as the code keeps *)
(* them (head_, length_, prev, next), since detach() is about exactly those *)
(* pointers. A checksum is abstracted to whether it still holds the value   *)
(* that alloc_new() gave it. int and size_t keep a width, scaled down.      *)
(****************************************************************************)
EXTENDS Integers, SequencesExt

CONSTANTS
    IntBits,     \* width of int; the code's 29 managers are 32 - 3
    WordBits,    \* width of size_t
    HeaderSize,  \* sizeof (block_header)
    ArenaSize,   \* end - beg as given to the constructor
    Requests     \* the sizes callers ask for

ASSUME MempoolAssumption ==
    /\ IntBits \in Nat /\ IntBits > 4
    /\ WordBits \in Nat /\ WordBits > IntBits
    /\ HeaderSize \in Nat \ {0}
    /\ ArenaSize \in Nat
    /\ Requests \subseteq 0..(2^WordBits - 1)

\* The law the widths rest on.
ASSUME PowersOfTwo == \A i \in 0..WordBits : 2^i \in Nat \ {0} /\ 2^(i + 1) = 2 * 2^i

VARIABLES
    cur,      \* cur_: the first byte that no block owns yet
    block,    \* the block headers in the arena, by address
    lists,    \* lists[i]["free" | "used"]: the two block_lists of manager i
    handed,   \* the caller's blocks, oldest first: [at |-> address, size |-> asked]
    leaked,   \* the blocks whose free() was refused
    crashed   \* detach() has dereferenced a null pointer

vars == <<cur, block, lists, handed, leaked, crashed>>

Null == 0
beg == 8
SizeOfChecksum == 8

Managers == 0..(IntBits - 4)
block_size(i) == 8 * 2^i
impl_size(i) == HeaderSize + block_size(i) + SizeOfChecksum
free_size == beg + ArenaSize - cur

----------------------------------------------------------------------------
(* Choosing a manager.                                                      *)

ToSizeT(n) == n % 2^WordBits
ToInt(n) == LET u == n % 2^IntBits IN IF u < 2^(IntBits - 1) THEN u ELSE u - 2^IntBits

\* (n + 7) & ~7
align8(n) == LET m == ToSizeT(n + 7) IN m - (m % 8)

\* Mutant: the test lets the request be one class too large.
FittingTooSmall(size) == {i \in Managers : 2 * ToSizeT(ToInt(8 * 2^i)) > size}

\* The classes whose (8 << i), an int converted to size_t, exceeds the size.
Fitting(size) == {i \in Managers : ToSizeT(ToInt(8 * 2^i)) > size}

None == -1
find_block_manager(size) ==
    IF Fitting(size) = {} THEN None
    ELSE CHOOSE i \in Fitting(size) : \A j \in Fitting(size) : i <= j

----------------------------------------------------------------------------
(* block_list. A heap is the pair of a list and the block headers; each     *)
(* operation returns the pair after it.                                     *)

pop(list, hdr) ==
    LET top  == list.head
        next == hdr[top].next
    IN  [list |-> [head |-> next, length |-> list.length - 1],
         hdr  |-> IF next = Null THEN hdr ELSE [hdr EXCEPT ![next].prev = Null]]

push(list, hdr, node) ==
    LET linked == [hdr EXCEPT ![node].prev = Null, ![node].next = list.head]
    IN  [list |-> [head |-> node, length |-> list.length + 1],
         hdr  |-> IF list.head = Null THEN linked
                  ELSE [linked EXCEPT ![list.head].prev = node]]

\* Mutant: the first block is recognised by its next instead of its prev.
FaultsOnFirst(list, hdr, node) ==
    /\ ~ (list.head = node /\ hdr[node].next = Null)
    /\ hdr[node].prev = Null \/ hdr[node].next = Null

\* Whether detach() follows a null prev or a null next.
DetachFaults(list, hdr, node) ==
    /\ ~ (list.head = node /\ hdr[node].prev = Null)
    /\ hdr[node].prev = Null \/ hdr[node].next = Null

\* Mutant: the node after the detached one keeps its back link.
DetachOneWay(list, hdr, node) ==
    IF list.head = node /\ hdr[node].prev = Null THEN pop(list, hdr)
    ELSE [list |-> [list EXCEPT !.length = @ - 1],
          hdr  |-> [hdr EXCEPT ![hdr[node].prev].next = hdr[node].next]]

detach(list, hdr, node) ==
    IF list.head = node /\ hdr[node].prev = Null THEN pop(list, hdr)
    ELSE [list |-> [list EXCEPT !.length = @ - 1],
          hdr  |-> [hdr EXCEPT ![hdr[node].prev].next = hdr[node].next,
                               ![hdr[node].next].prev = hdr[node].prev]]

----------------------------------------------------------------------------
(* alloc and free.                                                          *)

EmptyList == [head |-> Null, length |-> 0]

Init ==
    /\ cur = beg
    /\ block = [a \in {} |-> Null]
    /\ lists = [i \in Managers |-> [free |-> EmptyList, used |-> EmptyList]]
    /\ handed = <<>>
    /\ leaked = {}
    /\ crashed = FALSE

HandOut(a, size) == handed' = Append(handed, [at |-> a, size |-> size])

\* alloc() returns nullptr: no class fits, or the arena has no room for it.
AllocFails(size) ==
    /\ ~crashed
    /\ LET i == find_block_manager(align8(size))
       IN  i # None => lists[i].free.head = Null /\ free_size < impl_size(i)
    /\ UNCHANGED vars

\* alloc() with an empty free list: alloc_new().
AllocNew(size) ==
    LET i == find_block_manager(align8(size))
    IN  /\ ~crashed
        /\ i # None
        /\ lists[i].free.head = Null
        /\ free_size >= impl_size(i)
        /\ LET raw == [a \in DOMAIN block \union {cur} |->
                         IF a = cur THEN [mgr |-> i, prev |-> Null, next |-> Null,
                                          header |-> TRUE, trailer |-> TRUE]
                         ELSE block[a]]
               used == push(lists[i].used, raw, cur)
           IN  /\ block' = used.hdr
               /\ lists' = [lists EXCEPT ![i].used = used.list]
        /\ cur' = cur + impl_size(i)
        /\ HandOut(cur, size)
        /\ UNCHANGED <<leaked, crashed>>

\* alloc() with a block on the free list: alloc_exist().
AllocExist(size) ==
    LET i == find_block_manager(align8(size))
    IN  /\ ~crashed
        /\ i # None
        /\ lists[i].free.head # Null
        /\ LET free == pop(lists[i].free, block)
               used == push(lists[i].used, free.hdr, lists[i].free.head)
           IN  /\ block' = used.hdr
               /\ lists' = [lists EXCEPT ![i] = [free |-> free.list, used |-> used.list]]
        /\ HandOut(lists[i].free.head, size)
        /\ UNCHANGED <<cur, leaked, crashed>>

Passes(a) == block[a].header /\ block[a].trailer

\* free() refuses a block with a damaged checksum; it stays on the used list.
FreeRefused(k) ==
    /\ ~crashed
    /\ ~Passes(handed[k].at)
    /\ handed' = RemoveAt(handed, k)
    /\ leaked' = leaked \union {handed[k].at}
    /\ UNCHANGED <<cur, block, lists, crashed>>

\* free() moves an intact block from the used to the free list.
Free(k) ==
    LET a == handed[k].at
        i == block[a].mgr
    IN  /\ ~crashed
        /\ Passes(a)
        /\ ~DetachFaults(lists[i].used, block, a)
        /\ LET used == detach(lists[i].used, block, a)
               free == push(lists[i].free, used.hdr, a)
           IN  /\ block' = free.hdr
               /\ lists' = [lists EXCEPT ![i] = [free |-> free.list, used |-> used.list]]
        /\ handed' = RemoveAt(handed, k)
        /\ UNCHANGED <<cur, leaked, crashed>>

\* free() of an intact block on which detach() faults: the program dies there.
FreeFaults(k) ==
    LET a == handed[k].at
    IN  /\ ~crashed
        /\ Passes(a)
        /\ DetachFaults(lists[block[a].mgr].used, block, a)
        /\ crashed' = TRUE
        /\ handed' = RemoveAt(handed, k)
        /\ UNCHANGED <<cur, block, lists, leaked>>

\* The caller writes past the end of its block, or in front of it.
Damage(k, field) ==
    /\ ~crashed
    /\ block' = [block EXCEPT ![handed[k].at][field] = FALSE]
    /\ UNCHANGED <<cur, lists, handed, leaked, crashed>>

Next ==
    \/ \E size \in Requests : AllocFails(size) \/ AllocNew(size) \/ AllocExist(size)
    \/ \E k \in DOMAIN handed :
          \/ FreeRefused(k) \/ Free(k) \/ FreeFaults(k)
          \/ Damage(k, "header") \/ Damage(k, "trailer")

Spec == Init /\ [][Next]_vars

----------------------------------------------------------------------------
(* Properties.                                                              *)

Held == {handed[k].at : k \in DOMAIN handed}

\* The blocks met by following next from a list's head, in that order.
Chain(list) ==
    LET walk[n \in 0..Cardinality(DOMAIN block)] ==
            IF n = 0 THEN <<>>
            ELSE LET w == walk[n - 1]
                     a == IF w = <<>> THEN list.head ELSE block[Last(w)].next
                 IN  IF a = Null THEN w ELSE Append(w, a)
    IN  walk[Cardinality(DOMAIN block)]

TypeOK ==
    /\ cur \in beg..(beg + ArenaSize)
    /\ DOMAIN block \subseteq beg..(cur - 1)
    /\ \A a \in DOMAIN block :
          block[a] \in [mgr : Managers, prev : DOMAIN block \union {Null},
                        next : DOMAIN block \union {Null},
                        header : BOOLEAN, trailer : BOOLEAN]
    /\ \A i \in Managers, l \in {"free", "used"} :
          lists[i][l] \in [head : DOMAIN block \union {Null}, length : Nat]
    /\ handed \in Seq([at : DOMAIN block, size : Requests])
    /\ leaked \subseteq DOMAIN block
    /\ crashed \in BOOLEAN

\* A list is well linked: the chain from its head never meets a block twice,
\* prev is the inverse of next, and length_ counts it.
WellLinked(list) ==
    LET c == Chain(list)
    IN  /\ IsInjective(c)
        /\ Len(c) = list.length
        /\ c = <<>> \/ block[Last(c)].next = Null
        /\ \A k \in DOMAIN c : block[c[k]].prev = IF k = 1 THEN Null ELSE c[k - 1]

\* After any sequence of alloc(), free() and refused free() calls, every
\* manager's two lists are well linked, its used list holds exactly the blocks
\* that callers hold or that a refused free() leaked, and its free list all its
\* other blocks (block_list::push, pop and detach, mempool.cpp:91-124).
ListsPartitionBlocks ==
    ~crashed => \A i \in Managers :
        LET own == {a \in DOMAIN block : block[a].mgr = i}
        IN  /\ WellLinked(lists[i].free) /\ WellLinked(lists[i].used)
            /\ ToSet(Chain(lists[i].used)) = own \intersect (Held \union leaked)
            /\ ToSet(Chain(lists[i].free)) = own \ (Held \union leaked)

\* No damaged block is ever reused: what a caller did to a block it gave back
\* is caught by the checksums before the block reaches the free list
\* (mempool.cpp:34-37), so alloc_exist() only hands out blocks that free() takes.
FreeBlocksAreIntact ==
    \A a \in DOMAIN block \ (Held \union leaked) : block[a].header /\ block[a].trailer

\* The pool is well formed after any sequence of calls: types, blocks within
\* the arena, the lists, and checksums that hold on every free block.
PoolInv == TypeOK /\ ListsPartitionBlocks /\ FreeBlocksAreIntact

\* find_block_manager compares the int 8 << i with a size_t. The last class's
\* value is negative and so, converted, above almost every size: a request
\* larger than that class's block is not refused, it gets a block of that
\* class. Every other request gets a block that holds it (mempool.cpp:64-70,
\* against the block_size of init).
BlockHoldsRequest ==
    \A k \in DOMAIN handed :
        block_size(block[handed[k].at].mgr) >= handed[k].size
          <=> handed[k].size <= block_size(IntBits - 4)

\* No block of its class was handed out before it and is still held.
IsOldest(a) ==
    \A k \in DOMAIN handed : handed[k].at = a =>
        \A j \in 1..(k - 1) : block[handed[j].at].mgr # block[a].mgr

\* free() dies in exactly one case: the block is the one handed out first
\* among two or more of its class that are still on the used list (detach
\* writes next->prev although the oldest block has no next, mempool.cpp:121).
FaultsOnlyOnTheOldest ==
    [][\A a \in Held \ Held' :
          LET used == lists[block[a].mgr].used
          IN  Passes(a) =>
                 (crashed' <=> /\ used.length > 1
                               /\ IsOldest(a)
                               /\ Last(Chain(used)) = a)]_vars
=============================================================================
