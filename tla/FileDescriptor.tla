--------------------------- MODULE FileDescriptor ---------------------------
(***************************************************************************)
(* file_descriptor: objects that own descriptor numbers.  The system hands *)
(* out the lowest free number and uses a number again as soon as it has    *)
(* been closed, so an object that closes a number it no longer owns closes *)
(* somebody else's file.                                                   *)
(***************************************************************************)
EXTENDS Integers

CONSTANTS
  Objects,         \* file_descriptor objects (addresses)
  Files,           \* open file descriptions
  MaxDescriptors,  \* RLIMIT_NOFILE
  Raw,             \* the int between a system call or release() and its new owner
  NoFile

ASSUME DescriptorAssumption ==
  /\ MaxDescriptors \in Nat
  /\ Raw \notin Objects /\ NoFile \notin Files

Numbers == 0 .. MaxDescriptors - 1
Invalid == -1
Holders == Objects \cup {Raw}

VARIABLES
  fd,     \* fd_ of each object, Invalid for one that is not alive
  table,  \* the process's descriptor table
  alive   \* the objects that exist

descriptor_vars == <<fd, table, alive>>

DescriptorTypeOK ==
  /\ fd \in [Holders -> Numbers \cup {Invalid}]
  /\ table \in [Numbers -> Files \cup {NoFile}]
  /\ alive \subseteq Objects

DescriptorInit ==
  /\ fd = [h \in Holders |-> Invalid]
  /\ table = [n \in Numbers |-> NoFile]
  /\ alive = {}

(* ::close; a number that is not open is EBADF and no harm. *)
Closed(n, tbl) == [m \in Numbers |-> IF m = n THEN NoFile ELSE tbl[m]]

Lowest(n) == table[n] = NoFile /\ \A m \in Numbers : m < n => table[m] # NoFile

Exhausted == \A m \in Numbers : table[m] # NoFile

-----------------------------------------------------------------------------
(* socket(), accept4(), epoll_create1(): a descriptor nobody owns yet. *)
Open ==
  /\ fd[Raw] = Invalid
  /\ \E n \in Numbers, f \in Files :
       /\ Lowest(n) /\ \A m \in Numbers : table[m] # f
       /\ table' = [table EXCEPT ![n] = f]
       /\ fd' = [fd EXCEPT ![Raw] = n]
  /\ UNCHANGED alive

(* file_descriptor(int), and the default constructor when the int is -1. *)
Construct(o) ==
  /\ o \notin alive
  /\ fd' = [fd EXCEPT ![o] = fd[Raw], ![Raw] = Invalid]
  /\ alive' = alive \cup {o}
  /\ UNCHANGED table

(* clone() of p into o: F_DUPFD, or -1 when there is no number left or     *)
(* nothing to clone.  The number old is closed afterwards.                 *)
Duplicate(o, p, old) ==
  IF fd[p] = Invalid \/ Exhausted
  THEN /\ fd' = [fd EXCEPT ![o] = Invalid]
       /\ table' = Closed(old, table)
  ELSE \E n \in Numbers :
         /\ Lowest(n)
         /\ fd' = [fd EXCEPT ![o] = n]
         /\ table' = Closed(old, [table EXCEPT ![n] = table[fd[p]]])

CopyConstruct(o, p) ==
  /\ o \notin alive /\ p \in alive
  /\ Duplicate(o, p, Invalid)
  /\ alive' = alive \cup {o}

MoveConstruct(o, p) ==
  /\ o \notin alive /\ p \in alive
  /\ fd' = [fd EXCEPT ![o] = fd[p], ![p] = Invalid]
  /\ alive' = alive \cup {o}
  /\ UNCHANGED table

Destruct(o) ==
  /\ o \in alive
  /\ table' = Closed(fd[o], table)
  /\ fd' = [fd EXCEPT ![o] = Invalid]
  /\ alive' = alive \ {o}

(* Mutant: close() leaves the number in fd_. *)
CloseKeepsNumber(o) ==
  /\ o \in alive
  /\ table' = Closed(fd[o], table)
  /\ UNCHANGED <<fd, alive>>

Close(o) ==
  /\ o \in alive
  /\ table' = Closed(fd[o], table)
  /\ fd' = [fd EXCEPT ![o] = Invalid]
  /\ UNCHANGED alive

Release(o) ==
  /\ o \in alive /\ fd[Raw] = Invalid
  /\ fd' = [fd EXCEPT ![o] = Invalid, ![Raw] = fd[o]]
  /\ UNCHANGED <<table, alive>>

(* *this = other.clone(): the duplicate is made before the old number is   *)
(* closed, and the old number is closed whether or not there was one to    *)
(* be had.                                                                 *)
CopyAssign(o, p) ==
  /\ o \in alive /\ p \in alive \ {o}
  /\ Duplicate(o, p, fd[o])
  /\ UNCHANGED alive

(* Mutant: the number that is overwritten is not closed. *)
MoveAssignLeaks(o, p) ==
  /\ o \in alive /\ p \in alive \ {o}
  /\ fd' = [fd EXCEPT ![o] = fd[p], ![p] = Invalid]
  /\ UNCHANGED <<table, alive>>

MoveAssign(o, p) ==
  /\ o \in alive /\ p \in alive \ {o}
  /\ table' = Closed(fd[o], table)
  /\ fd' = [fd EXCEPT ![o] = fd[p], ![p] = Invalid]
  /\ UNCHANGED alive

DescriptorNext ==
  \/ Open
  \/ \E o \in Objects :
       \/ Construct(o) \/ Destruct(o) \/ Close(o) \/ Release(o)
       \/ \E p \in Objects :
            CopyConstruct(o, p) \/ MoveConstruct(o, p) \/ CopyAssign(o, p) \/ MoveAssign(o, p)

DescriptorSpec == DescriptorInit /\ [][DescriptorNext]_descriptor_vars

-----------------------------------------------------------------------------
(* Every open number has one holder and every number held is open, through *)
(* any sequence of copies, moves, assignments, closes and failed           *)
(* duplications: nothing leaks and nothing is closed twice, although       *)
(* numbers are used again at once.                                         *)
OwnedOnce ==
  /\ \A h, g \in Holders : fd[h] # Invalid /\ fd[h] = fd[g] => h = g
  /\ \A n \in Numbers : table[n] # NoFile <=> \E h \in Holders : fd[h] = n
  /\ \A o \in Objects \ alive : fd[o] = Invalid

OwnershipInv == DescriptorTypeOK /\ OwnedOnce

(* The objects behave as handles: none ever refers to a file that was not  *)
(* given to it, a file stays open while a copy remains and is closed with  *)
(* the last one.                                                           *)
Abstract == INSTANCE Handles WITH
  None <- NoFile,
  file <- [h \in Holders |-> IF fd[h] = Invalid THEN NoFile ELSE table[fd[h]]],
  open <- {f \in Files : \E n \in Numbers : table[n] = f}

ImplementsHandles == Abstract!Spec
=============================================================================
