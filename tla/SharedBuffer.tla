----------------------------- MODULE SharedBuffer -----------------------------
(****************************************************************************)
(* The life of a named circular_buffer (circular_buffer.c:64-206, 252-275): *)
(* processes that create, attach to, detach from and destroy the shared     *)
(* memory object of one name, step by step as the system calls and the      *)
(* stores into the shared header interleave. A system call may fail and a   *)
(* process may die between any two steps.                                   *)
(*                                                                          *)
(* The build sets no NDEBUG, so a failed assert ends the process, and no    *)
(* optimisation, so the header's fields are stored in program order. The    *)
(* kernel's copy of the header in read() is in address order and not atomic *)
(* with respect to those stores.                                            *)
(****************************************************************************)
EXTENDS Integers, FiniteSetsExt

CONSTANTS
    Procs,         \* processes
    MaxObjects,    \* bound on the objects ever created under the name
    PageSize,      \* sysconf(_SC_PAGESIZE)
    HeaderSize,    \* sizeof (struct circular_buffer_header)
    Capacities,    \* the capacity arguments of circular_buffer_create
    PrivateSizes   \* the private_size arguments

ASSUME SharedBufferAssumption ==
    /\ MaxObjects \in Nat \ {0} /\ PageSize \in Nat \ {0} /\ HeaderSize \in Nat \ {0}
    /\ Capacities \subseteq Nat \ {0}
    /\ PrivateSizes \subseteq Nat

VARIABLES
    bound,     \* the object the name is bound to, or None
    object,    \* the shared memory objects: file size and header contents
    proc,      \* where each process is, its descriptor, and what it has at hand
    mapping,   \* the buffer a process has mapped, or NoMapping
    dead       \* the processes that an assert has aborted

vars == <<bound, object, proc, mapping, dead>>

None == 0
Null == 0
Objects == 1..MaxObjects

page_mask == PageSize - 1
RoundUp(n, mask) == ((n + mask) \div (mask + 1)) * (mask + 1)
aligned_header_size(private_size, mask) == RoundUp(HeaderSize + private_size, mask)

\* A new object is empty; ftruncate gives it zeroed pages.
Zeroed == [capacity |-> 0, private_size |-> 0, page_mask |-> 0, name |-> FALSE]
NewObject == [size |-> 0, header |-> Zeroed]
NoObject == [size |-> -1, header |-> Zeroed]

\* The fields of the header that fattach uses, in the order in which fcreate
\* stores them, which is also their order in memory.
Fields == <<"capacity", "private_size", "page_mask">>

Idle == [pc |-> "idle", fd |-> None, args |-> Zeroed, field |-> 1, late |-> FALSE]
NoMapping == [of |-> None, head |-> 0, capacity |-> 0, whole |-> TRUE]

Init ==
    /\ bound = None
    /\ object = [o \in Objects |-> NoObject]
    /\ proc = [p \in Procs |-> Idle]
    /\ mapping = [p \in Procs |-> NoMapping]
    /\ dead = {}

Free(p) == p \notin dead /\ proc[p].pc = "idle" /\ mapping[p] = NoMapping
At(p, pc) == p \notin dead /\ proc[p].pc = pc

Object(p) == object[proc[p].fd]

\* The call of p returns NULL, having closed its descriptor.
ReturnNull(p) == proc' = [proc EXCEPT ![p] = Idle]


----------------------------------------------------------------------------
(* circular_buffer_create and circular_buffer_fcreate.                      *)

\* Mutant: O_TRUNC in place of O_EXCL.
OpenableTruncating ==
    {o \in Objects : o = bound \/ (bound = None /\ object[o] = NoObject)}

\* shm_open(name, O_RDWR | O_CREAT | O_EXCL): no object if the name is bound,
\* and then NULL is returned.
Openable ==
    {o \in Objects : /\ bound = None /\ object[o] = NoObject
                     /\ \A older \in 1..(o - 1) : object[older] # NoObject}

CreateOpen(p, capacity, private_size) ==
    /\ Free(p)
    /\ \E o \in Openable :
          /\ object' = [object EXCEPT ![o] = NewObject]
          /\ bound' = o
          /\ proc' = [proc EXCEPT ![p] =
                [Idle EXCEPT !.pc = "truncate", !.fd = o,
                    !.args = [Zeroed EXCEPT !.capacity = RoundUp(capacity, page_mask),
                                            !.private_size = private_size,
                                            !.page_mask = page_mask]]]
    /\ UNCHANGED <<mapping, dead>>

\* Mutant: the header is left out of the length.
LengthShort(args) == args.capacity

Length(args) == args.capacity + aligned_header_size(args.private_size, page_mask)

\* ftruncate to the header and the data area.
Truncate(p) ==
    /\ At(p, "truncate")
    /\ object' = [object EXCEPT ![proc[p].fd].size = Length(proc[p].args)]
    /\ proc' = [proc EXCEPT ![p].pc = "map"]
    /\ UNCHANGED <<bound, mapping, dead>>

\* Which of map_shared_memory's three calls succeed: the reservation, the
\* mapping of the object over it, and its mirror.
Calls == [reserve : BOOLEAN, map : BOOLEAN, mirror : BOOLEAN]
Addr == 1
MapFailed == -1

\* map_shared_memory takes a failed reservation for an address, as only a null
\* one is tested. The mapping then fails with that very value, which passes the
\* comparison, and the mirror's failure is what makes it return NULL.
map_shared_memory(calls) ==
    LET addr == IF calls.reserve THEN Addr ELSE MapFailed
        new_addr == IF addr = Addr /\ calls.map THEN addr ELSE MapFailed
        mirrored == addr = Addr /\ calls.mirror
    IN  IF new_addr # addr \/ ~mirrored THEN Null ELSE addr

Whole(calls) == calls.reserve /\ calls.map /\ calls.mirror

Mapping(o, head, capacity, calls) ==
    [of |-> o, head |-> head, capacity |-> capacity, whole |-> Whole(calls)]

\* map_shared_memory on the sizes the creator has computed.
MapCreated(p) ==
    /\ At(p, "map")
    /\ \E calls \in Calls :
          /\ map_shared_memory(calls) # Null
          /\ mapping' = [mapping EXCEPT ![p] =
                Mapping(proc[p].fd, aligned_header_size(proc[p].args.private_size, page_mask),
                        proc[p].args.capacity, calls)]
    /\ proc' = [proc EXCEPT ![p].pc = "init"]
    /\ UNCHANGED <<bound, object, dead>>

\* ftruncate, or a mmap or mremap of map_shared_memory, fails: what was mapped
\* is unmapped, the descriptor closed and NULL returned. The object stays bound.
CreateFails(p) ==
    /\ At(p, "truncate") \/ (At(p, "map") /\ \E calls \in Calls : map_shared_memory(calls) = Null)
    /\ ReturnNull(p)
    /\ UNCHANGED <<bound, object, mapping, dead>>

\* fcreate stores the next field of the header. (r, w, name[0] and flag are
\* stored as the zeros they are.)
InitHeader(p) ==
    LET f == Fields[proc[p].field]
    IN  /\ At(p, "init")
        /\ object' = [object EXCEPT ![proc[p].fd].header[f] = proc[p].args[f]]
        /\ proc' = [proc EXCEPT ![p].field = @ + 1,
                                ![p].pc = IF proc[p].field = 3 THEN "name" ELSE "init"]
        /\ UNCHANGED <<bound, mapping, dead>>

\* create copies the name into the header, closes the descriptor and returns.
SaveName(p) ==
    /\ At(p, "name")
    /\ object' = [object EXCEPT ![proc[p].fd].header.name = TRUE]
    /\ proc' = [proc EXCEPT ![p] = Idle]
    /\ UNCHANGED <<bound, mapping, dead>>

----------------------------------------------------------------------------
(* circular_buffer_attach and circular_buffer_fattach.                      *)

\* shm_open(name, O_RDWR); late notes whether create had returned by then.
AttachOpen(p) ==
    /\ Free(p)
    /\ bound # None
    /\ proc' = [proc EXCEPT ![p] =
          [Idle EXCEPT !.pc = "read", !.fd = bound, !.late = object[bound].header.name]]
    /\ UNCHANGED <<bound, object, mapping, dead>>

\* read(): short on an object that has no size yet, then NULL is returned;
\* otherwise the copy picks up the next field as it is at that moment.
ReadShort(p) ==
    /\ At(p, "read")
    /\ proc[p].field = 1
    /\ Object(p).size < HeaderSize
    /\ ReturnNull(p)
    /\ UNCHANGED <<bound, object, mapping, dead>>

ReadField(p) ==
    LET f == Fields[proc[p].field]
    IN  /\ At(p, "read")
        /\ Object(p).size >= HeaderSize
        /\ proc' = [proc EXCEPT ![p].args[f] = Object(p).header[f],
                                ![p].field = @ + 1,
                                ![p].pc = IF proc[p].field = 3 THEN "attach" ELSE "read"]
        /\ UNCHANGED <<bound, object, mapping, dead>>

\* The asserts of map_shared_memory.
Mappable(head_size, capacity) ==
    /\ head_size > 0 /\ capacity > 0
    /\ head_size % PageSize = 0 /\ capacity % PageSize = 0

\* Mutant: the private area is left out of the header's size.
HeadWithoutPrivate(h) == aligned_header_size(0, h.page_mask)

HeadOf(h) == aligned_header_size(h.private_size, h.page_mask)

\* map_shared_memory on the sizes of the header copy, then close.
MapAttached(p) ==
    LET copy == proc[p].args
    IN  /\ At(p, "attach")
        /\ Mappable(HeadOf(copy), copy.capacity)
        /\ \E calls \in Calls :
              /\ map_shared_memory(calls) # Null
              /\ mapping' = [mapping EXCEPT ![p] =
                    Mapping(proc[p].fd, HeadOf(copy), copy.capacity, calls)]
        /\ proc' = [proc EXCEPT ![p] = [Idle EXCEPT !.late = proc[p].late]]
        /\ UNCHANGED <<bound, object, dead>>

MapAttachedFails(p) ==
    /\ At(p, "attach")
    /\ Mappable(HeadOf(proc[p].args), proc[p].args.capacity)
    /\ \E calls \in Calls : map_shared_memory(calls) = Null
    /\ ReturnNull(p)
    /\ UNCHANGED <<bound, object, mapping, dead>>

AssertAborts(p) ==
    /\ At(p, "attach")
    /\ ~Mappable(HeadOf(proc[p].args), proc[p].args.capacity)
    /\ dead' = dead \union {p}
    /\ proc' = [proc EXCEPT ![p] = [Idle EXCEPT !.late = proc[p].late]]
    /\ UNCHANGED <<bound, object, mapping>>

----------------------------------------------------------------------------
(* circular_buffer_detach, circular_buffer_destroy, and a killed process.   *)

Using(p) == At(p, "idle") /\ mapping[p] # NoMapping

Detach(p) ==
    /\ Using(p)
    /\ mapping' = [mapping EXCEPT ![p] = NoMapping]
    /\ proc' = [proc EXCEPT ![p] = Idle]
    /\ UNCHANGED <<bound, object, dead>>

\* The name in the header, if there is one, is unlinked, whatever it is bound to.
Destroy(p) ==
    /\ Using(p)
    /\ bound' = IF object[mapping[p].of].header.name THEN None ELSE bound
    /\ mapping' = [mapping EXCEPT ![p] = NoMapping]
    /\ proc' = [proc EXCEPT ![p] = Idle]
    /\ UNCHANGED <<object, dead>>

\* The process dies; the system closes its descriptor and unmaps. It is
\* started again as a process that has called nothing.
Crash(p) ==
    /\ p \notin dead
    /\ proc' = [proc EXCEPT ![p] = Idle]
    /\ mapping' = [mapping EXCEPT ![p] = NoMapping]
    /\ UNCHANGED <<bound, object, dead>>

Next ==
    \E p \in Procs :
        \/ \E c \in Capacities, s \in PrivateSizes : CreateOpen(p, c, s)
        \/ Truncate(p) \/ MapCreated(p) \/ CreateFails(p) \/ InitHeader(p) \/ SaveName(p)
        \/ AttachOpen(p) \/ ReadShort(p) \/ ReadField(p)
        \/ MapAttached(p) \/ MapAttachedFails(p) \/ AssertAborts(p)
        \/ Detach(p) \/ Destroy(p) \/ Crash(p)

Spec == Init /\ [][Next]_vars

----------------------------------------------------------------------------
(* Properties.                                                              *)

TypeOK ==
    /\ bound \in Objects \union {None}
    /\ \A o \in Objects : object[o].size \in Int /\ object[o].header.name \in BOOLEAN
    /\ \A p \in Procs :
          /\ proc[p].pc \in {"idle", "truncate", "map", "init", "name", "read", "attach"}
          /\ proc[p].fd \in Objects \union {None}
          /\ (proc[p].pc = "idle") = (proc[p].fd = None)
          /\ mapping[p].of \in Objects \union {None}
    /\ bound # None => object[bound] # NoObject
    /\ dead \subseteq Procs

\* O_EXCL makes create's initialisation of a header race-free: a field that
\* has been stored is never stored again with another value, so no user of a
\* buffer sees its capacity or its private area change under it
\* (circular_buffer.c:126, 169-175).
LayoutNeverChanges ==
    [][\A o \in Objects : \A f \in {"capacity", "private_size", "page_mask"} :
          object[o].header[f] # 0 => object'[o].header[f] = object[o].header[f]]_vars

\* An attach that opens the name after create has returned is never aborted
\* by the asserts and maps the very layout create gave the object, whatever is
\* destroyed and created under the name between its open and its read
\* (circular_buffer.c:179-206).
SettledAttachIsSound ==
    \A p \in Procs : proc[p].late =>
        /\ p \notin dead
        /\ mapping[p] # NoMapping =>
              LET h == object[mapping[p].of].header
              IN  /\ mapping[p].head = aligned_header_size(h.private_size, h.page_mask)
                  /\ mapping[p].capacity = h.capacity

\* Whatever is attached, however early, is mapped within its object:
\* header and data area together are no longer than the file ftruncate made
\* (circular_buffer.c:160 and 84), so that no access ends in SIGBUS, and the
\* object and its mirror are really there, whichever of map_shared_memory's
\* calls failed and however its tests took the failure.
MappedWithinObject ==
    \A p \in Procs : mapping[p] # NoMapping =>
        /\ mapping[p].head + mapping[p].capacity <= object[mapping[p].of].size
        /\ mapping[p].whole

\* Types, descriptors closed by every return, and mappings within their
\* objects, at every step of every process.
ObjectInv == TypeOK /\ MappedWithinObject

\* attach returns a buffer or, when it fails, NULL (circular_buffer.h:55).
AttachReturns == dead = {}
=============================================================================
