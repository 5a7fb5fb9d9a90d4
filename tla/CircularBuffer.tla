--------------------------- MODULE CircularBuffer ---------------------------
(***************************************************************************)
(* The single-producer single-consumer ring of src/circular_buffer.c: two  *)
(* free-running size_t indices in a shared header, a data area that is     *)
(* mapped twice in a row, and no lock, atomic or barrier anywhere.  The    *)
(* indices and the bytes are plain memory that two threads touch at the    *)
(* same time, so what each thread sees of the other is what an x86         *)
(* processor shows it: a store waits in its thread's store buffer and      *)
(* reaches memory later, in program order.                                 *)
(*                                                                         *)
(* The producer writes the stream 0, 1, 2, ... (as the test's producer     *)
(* does): the byte stored at index p has the value p, so that a wrong,     *)
(* stale, lost or repeated byte is visible as a wrong value.               *)
(***************************************************************************)
EXTENDS SizeT, Sequences

CONSTANTS
  PageSize,           \* sysconf(_SC_PAGESIZE)
  RequestedCapacity,  \* the capacity argument of circular_buffer_create
  StoreBufferDepth    \* how many stores a processor may hold back

ASSUME ConstantsAssumption ==
  /\ PageSize \in Nat \ {0}
  /\ RequestedCapacity \in Nat \ {0}
  /\ StoreBufferDepth \in Nat \ {0}

(* The capacity circular_buffer_fcreate stores: rounded up to whole pages. *)
Capacity == ((RequestedCapacity + PageSize - 1) \div PageSize) * PageSize

(* map_shared_memory has found room for it in the address space.  Nothing  *)
(* makes it a power of two.                                                *)
ASSUME CapacityAssumption == Capacity < IndexRange

Cells == 0 .. Capacity - 1

BitAnd(x, y) ==
  LET bit(n, i) == (n \div 2 ^ i) % 2
      low[n \in 0 .. IndexBits] ==  \* the n lowest bits
        IF n = 0 THEN 0
                 ELSE low[n - 1] + 2 ^ (n - 1) * bit(x, n - 1) * bit(y, n - 1)
  IN  low[IndexBits]

(* buffer_pos: where in the data area an index falls. *)
Offset(pos) == BitAnd(pos, Capacity - 1)

(* map_shared_memory maps the data area a second time right behind itself, *)
(* so address Capacity + i is the same memory as address i.                *)
Cell(addr) == IF addr < Capacity THEN addr ELSE addr - Capacity

Blank == -1        \* a byte nobody has written
HeaderW == Capacity \* names header->w in a store; the cells are below it

VARIABLES
  r, w,       \* header->r.value and header->w.value, in memory
  data,       \* the data area, in memory
  pw, cr,     \* w as the producer and r as the consumer read them: each
              \* thread sees its own latest store at once
  pbuf, cbuf, \* the store buffers of the two processors
  piece,      \* the buffer_piece the producer holds, and how much of it is written
  got         \* the buffer_piece the consumer holds

vars == <<r, w, data, pw, cr, pbuf, cbuf, piece, got>>

Store == [to : Cells \cup {HeaderW}, val : Index]

NoPiece == [held |-> FALSE, data |-> 0, size |-> 0, written |-> 0]
NothingGot == [held |-> FALSE, data |-> 0, size |-> 0]

TypeOK ==
  /\ r \in Index /\ w \in Index /\ pw \in Index /\ cr \in Index
  /\ data \in [Cells -> Index \cup {Blank}]
  /\ pbuf \in Seq(Store)
  /\ cbuf \in Seq(Index)
  /\ piece \in [held : BOOLEAN, data : Cells, size : 0 .. Capacity, written : 0 .. Capacity]
  /\ got \in [held : BOOLEAN, data : Cells, size : 0 .. Capacity]

(* circular_buffer_fcreate's initial header over zeroed pages. *)
Init ==
  /\ r = 0 /\ w = 0 /\ pw = 0 /\ cr = 0
  /\ data = [c \in Cells |-> Blank]
  /\ pbuf = <<>> /\ cbuf = <<>>
  /\ piece = NoPiece
  /\ got = NothingGot

-----------------------------------------------------------------------------
(* readable_size and writable_size, as the thread that evaluates them sees *)
(* the two indices.                                                        *)
readable_size(rv, wv) == Distance(rv, wv)

writable_size(rv, wv) == Capacity - readable_size(rv, wv)

(* Mutant: the whole ring is offered, as if nothing were unread. *)
GetWritableAll ==
  /\ ~piece.held
  /\ piece' = [held |-> TRUE, data |-> Offset(pw), size |-> Capacity, written |-> 0]
  /\ UNCHANGED <<r, w, data, pw, cr, pbuf, cbuf, got>>

(* circular_buffer_get_writable, called by the producer. *)
GetWritable ==
  /\ ~piece.held
  /\ piece' = [held |-> TRUE, data |-> Offset(pw),
               size |-> writable_size(r, pw), written |-> 0]
  /\ UNCHANGED <<r, w, data, pw, cr, pbuf, cbuf, got>>

(* The producer stores the next byte of the stream into its piece. *)
WriteByte ==
  /\ piece.held /\ piece.written < piece.size
  /\ Len(pbuf) < StoreBufferDepth
  /\ pbuf' = Append(pbuf, [to |-> Cell(piece.data + piece.written),
                           val |-> Wrap(pw + piece.written)])
  /\ piece' = [piece EXCEPT !.written = @ + 1]
  /\ UNCHANGED <<r, w, data, pw, cr, cbuf, got>>

(* Mutant: the piece is published as it was handed out, not as far as it   *)
(* has been written.                                                       *)
PushWholePiece ==
  /\ piece.held
  /\ Len(pbuf) < StoreBufferDepth
  /\ pw' = Wrap(pw + piece.size)
  /\ pbuf' = Append(pbuf, [to |-> HeaderW, val |-> Wrap(pw + piece.size)])
  /\ piece' = NoPiece
  /\ UNCHANGED <<r, w, data, cr, cbuf, got>>

(* circular_buffer_push_data(cb, size) with the number of bytes written:   *)
(* the writable size is evaluated again and size is cut down to it.        *)
PushData ==
  LET room == writable_size(r, pw)
      size == IF piece.written > room THEN room ELSE piece.written
  IN  /\ piece.held
      /\ Len(pbuf) < StoreBufferDepth
      /\ pw' = Wrap(pw + size)
      /\ pbuf' = Append(pbuf, [to |-> HeaderW, val |-> Wrap(pw + size)])
      /\ piece' = NoPiece
      /\ UNCHANGED <<r, w, data, cr, cbuf, got>>

(* circular_buffer_get_readable, called by the consumer. *)
GetReadable ==
  /\ ~got.held
  /\ got' = [held |-> TRUE, data |-> Offset(cr), size |-> readable_size(cr, w)]
  /\ UNCHANGED <<r, w, data, pw, cr, pbuf, cbuf, piece>>

(* Mutant: pop_data does not cut asked down to what is readable. *)
PopAsked(asked) ==
  /\ got.held
  /\ Len(cbuf) < StoreBufferDepth
  /\ cr' = Wrap(cr + asked)
  /\ cbuf' = Append(cbuf, Wrap(cr + asked))
  /\ got' = NothingGot
  /\ UNCHANGED <<r, w, data, pw, pbuf, piece>>

(* Mutant: the read index moves in the consumer only, never in the header. *)
PopPrivately(asked) ==
  LET ready == readable_size(cr, w)
      size == IF asked > ready THEN ready ELSE asked
  IN  /\ got.held
      /\ cr' = Wrap(cr + size)
      /\ got' = NothingGot
      /\ UNCHANGED <<r, w, data, pw, pbuf, cbuf, piece>>

(* circular_buffer_pop_data(cb, asked): any size may be asked for, more    *)
(* than is readable included; the readable size is evaluated again.        *)
PopData(asked) ==
  LET ready == readable_size(cr, w)
      size == IF asked > ready THEN ready ELSE asked
  IN  /\ got.held
      /\ Len(cbuf) < StoreBufferDepth
      /\ cr' = Wrap(cr + size)
      /\ cbuf' = Append(cbuf, Wrap(cr + size))
      /\ got' = NothingGot
      /\ UNCHANGED <<r, w, data, pw, pbuf, piece>>

-----------------------------------------------------------------------------
(* The oldest store of a store buffer reaches memory. *)
DrainProducer ==
  /\ pbuf # <<>>
  /\ pbuf' = Tail(pbuf)
  /\ LET s == Head(pbuf)
     IN  IF s.to = HeaderW
         THEN w' = s.val /\ UNCHANGED data
         ELSE data' = [data EXCEPT ![s.to] = s.val] /\ UNCHANGED w
  /\ UNCHANGED <<r, pw, cr, cbuf, piece, got>>

DrainConsumer ==
  /\ cbuf # <<>>
  /\ r' = Head(cbuf)
  /\ cbuf' = Tail(cbuf)
  /\ UNCHANGED <<w, data, pw, cr, pbuf, piece, got>>

Producer == GetWritable \/ WriteByte \/ PushData

Consumer == GetReadable \/ \E asked \in 0 .. Capacity + 1 : PopData(asked)

Next == Producer \/ Consumer \/ DrainProducer \/ DrainConsumer

Spec == Init /\ [][Next]_vars

(* Two threads that, like the ones of the test, keep using what they get:  *)
(* the producer writes when it has room and pushes what it wrote, the      *)
(* consumer pops when there is something to pop.                           *)
Fairness ==
  /\ WF_vars(GetWritable) /\ SF_vars(WriteByte) /\ WF_vars(PushData)
  /\ WF_vars(GetReadable)
  /\ SF_vars(\E asked \in 1 .. Capacity + 1 : PopData(asked) /\ cr' # cr)
  /\ WF_vars(PopData(0))
  /\ WF_vars(DrainProducer) /\ WF_vars(DrainConsumer)

FairSpec == Spec /\ Fairness

-----------------------------------------------------------------------------
(* Lock-free reading (circular_buffer.h:11): from get_readable until the   *)
(* matching pop_data, every byte of the piece the consumer holds is the    *)
(* byte of the stream that belongs there, whatever the producer does       *)
(* meanwhile.                                                              *)
ReadableHoldsStream ==
  got.held => \A i \in 0 .. got.size - 1 :
                 data[Cell(got.data + i)] = Wrap(cr + i)

(* The piece get_writable hands out and the piece get_readable hands out   *)
(* never share a byte, however stale the index was that each was computed  *)
(* from.                                                                   *)
PiecesDisjoint ==
  piece.held /\ got.held =>
    \A i \in 0 .. piece.size - 1, j \in 0 .. got.size - 1 :
       Cell(piece.data + i) # Cell(got.data + j)

(* push_data evaluates the writable size a second time; it never comes out *)
(* smaller than the piece get_writable promised, so what was written is    *)
(* published in full.                                                      *)
PushNeverShort ==
  [][piece.held /\ ~piece'.held => pw' = Wrap(pw + piece.written)]_vars

(* The header and the data area, as they are in memory, are a bounded FIFO *)
(* channel of stream bytes: a store to w publishes, a store to r releases. *)
Channel == INSTANCE ByteChannel
             WITH Limit <- Capacity, Positions <- IndexRange, next <- w,
                  chan <- [i \in 1 .. readable_size(r, w) |->
                             data[Cell(Offset(r) + i - 1)]]

ImplementsChannel == Channel!Spec

(* Neither a full nor an empty ring ever wedges: under FairSpec the write  *)
(* index in memory keeps moving, past the wrap of size_t included.         *)
StreamAdvances == []<><<w' # w>>_w
=============================================================================
