--------------------------- MODULE TcpConnection ---------------------------
(***************************************************************************)
(* tcp_connection: the edge-triggered read and write loops between a       *)
(* non-blocking socket and the connection's two circular buffers.  An      *)
(* event is reported once, so a loop that stops with work left over and no *)
(* new event on the way has lost that work.                                *)
(*                                                                         *)
(* The peer, the socket and epoll are external; they act between any two   *)
(* steps of the loops.  What is in a buffer is only counted: that the      *)
(* bytes are the right ones is CircularBuffer's matter.  EventLoop puts    *)
(* the connection under run_once.                                          *)
(***************************************************************************)
EXTENDS Integers

CONSTANTS
  ReadCapacity,   \* of rcb_
  WriteCapacity,  \* of wcb_
  SendSpace,      \* the socket's send buffer
  RecvSpace       \* the socket's receive buffer

Events == {"read", "write"}

VARIABLES
  rcvq,      \* bytes in the socket's receive queue
  eof,       \* the peer has closed its end
  reset,     \* the connection was reset
  sndq,      \* bytes in the socket's send buffer
  nospace,   \* a send failed for want of space: the socket will report some
  listed,    \* the connection is on epoll's ready list
  interest,  \* the events it is registered for
  rcb, wcb,  \* bytes in rcb_ and wcb_
  at,        \* "idle" outside the callbacks, else the loop that runs
  events,    \* the events of the current callback that are still to be handled
  closes     \* how often on_close was called

socket == <<rcvq, eof, reset, sndq, nospace>>
vars == <<socket, listed, interest, rcb, wcb, at, events, closes>>

TypeOK ==
  /\ rcvq \in 0 .. RecvSpace
  /\ eof \in BOOLEAN /\ reset \in BOOLEAN
  /\ sndq \in 0 .. SendSpace /\ nospace \in BOOLEAN
  /\ listed \in BOOLEAN
  /\ interest \in SUBSET Events
  /\ rcb \in 0 .. ReadCapacity /\ wcb \in 0 .. WriteCapacity
  /\ at \in {"idle"} \cup Events /\ events \subseteq Events
  /\ closes \in 0 .. 2

Readable == rcvq > 0 \/ eof \/ reset
Writable == sndq < SendSpace \/ reset

(* What epoll reports for a connection registered for event. *)
ReadyFor(event) == event \cap ((IF Readable THEN {"read"} ELSE {}) \cup
                               (IF Writable THEN {"write"} ELSE {}))

Ready == ReadyFor(interest)

Open == interest # {}

Init ==
  /\ rcvq = 0 /\ eof = FALSE /\ reset = FALSE
  /\ sndq = 0 /\ nospace = FALSE
  /\ interest = {} /\ listed = FALSE
  /\ rcb = 0 /\ wcb = 0
  /\ at = "idle" /\ events = {}
  /\ closes = 0

-----------------------------------------------------------------------------
(* The network. *)
connection == <<interest, rcb, wcb, at, events, closes>>

PeerSends ==
  /\ ~eof /\ ~reset
  /\ \E n \in 1 .. RecvSpace - rcvq : rcvq' = rcvq + n
  /\ listed' = Open
  /\ UNCHANGED <<eof, reset, sndq, nospace, connection>>

PeerCloses ==
  /\ ~eof /\ ~reset
  /\ eof' = TRUE
  /\ listed' = Open
  /\ UNCHANGED <<rcvq, reset, sndq, nospace, connection>>

Reset ==
  /\ ~reset
  /\ reset' = TRUE
  /\ sndq' = 0 /\ nospace' = FALSE
  /\ listed' = Open
  /\ UNCHANGED <<rcvq, eof, connection>>

PeerAcknowledges ==
  /\ ~reset
  /\ \E n \in 1 .. sndq : sndq' = sndq - n
  /\ listed' = (listed \/ (Open /\ nospace))
  /\ nospace' = FALSE
  /\ UNCHANGED <<rcvq, eof, reset, connection>>

-----------------------------------------------------------------------------
(* The client makes a tcp_connection of the socket and registers it; epoll *)
(* lists it if the socket is ready already.                                *)
Register(event) ==
  /\ ~Open /\ closes = 0
  /\ interest' = event
  /\ listed' = (ReadyFor(event) # {})
  /\ UNCHANGED <<socket, rcb, wcb, at, events, closes>>

(* The connection is destroyed, after on_close; another may be made. *)
Destroyed ==
  /\ rcvq' = 0 /\ eof' = FALSE /\ reset' = FALSE
  /\ sndq' = 0 /\ nospace' = FALSE
  /\ interest' = {} /\ listed' = FALSE
  /\ rcb' = 0 /\ wcb' = 0 /\ at' = "idle" /\ events' = {} /\ closes' = 0

(* run_once calls on_read, if the event is one, and then on_write. *)
Start(reported) ==
  /\ at = "idle"
  /\ at' = IF "read" \in reported THEN "read" ELSE "write"
  /\ events' = reported \ {at'}
  /\ UNCHANGED <<socket, listed, interest, rcb, wcb, closes>>

(* The callback returns: on_write follows on_read in the same event. *)
Return ==
  /\ at' = IF events = {} THEN "idle" ELSE "write"
  /\ events' = {}

(* Mutant: the callback returns after one recv or send. *)
ReturnAtOnce == Return

(* The loop of the callback goes on. *)
Continue == UNCHANGED <<at, events>>

(* Mutant: the loop goes on after on_close. *)
OnCloseContinues ==
  /\ closes' = closes + 1
  /\ interest' = {} /\ listed' = FALSE
  /\ UNCHANGED <<at, events>>

(* on_close, client code: it unregisters the connection and leaves its     *)
(* destruction for after the batch.                                        *)
OnClose ==
  /\ closes' = closes + 1
  /\ interest' = {} /\ listed' = FALSE
  /\ Return

(* consume: the handler takes as many of the bytes in rcb_ as it likes. *)
Consume(taken) == rcb' = rcb - taken

(* The sizes recv and send may move: at least a byte, at most the smaller. *)
Portion(a, b) == 1 .. (IF a < b THEN a ELSE b)

(* The loop of on_read() while rcb_ has room: recv returns bytes, *)
RecvBytes ==
  /\ at = "read" /\ rcb < ReadCapacity /\ rcvq > 0
  /\ \E n \in Portion(rcvq, ReadCapacity - rcb) : rcvq' = rcvq - n /\ rcb' = rcb + n
  /\ Continue
  /\ UNCHANGED <<eof, reset, sndq, nospace, listed, interest, wcb, closes>>

(* or 0 at the end of the stream: the rest is consumed and the connection  *)
(* closed,                                                                 *)
RecvEof ==
  /\ at = "read" /\ rcb < ReadCapacity /\ rcvq = 0 /\ eof
  /\ \E taken \in 0 .. rcb : Consume(taken)
  /\ OnClose
  /\ UNCHANGED <<socket, wcb>>

(* or EAGAIN: what came is consumed and the next event waited for, *)
RecvAgain ==
  /\ at = "read" /\ rcb < ReadCapacity /\ rcvq = 0 /\ ~reset /\ ~eof
  /\ \E taken \in 0 .. rcb : Consume(taken)
  /\ Return
  /\ UNCHANGED <<socket, listed, interest, wcb, closes>>

(* or another error, which a socket that has seen the end of the stream    *)
(* may report too.                                                         *)
RecvFails ==
  /\ at = "read" /\ rcb < ReadCapacity /\ rcvq = 0 /\ reset
  /\ OnClose
  /\ UNCHANGED <<socket, rcb, wcb>>

(* rcb_ is full: the handler must take something, or the connection is     *)
(* closed.                                                                 *)
FullThenConsume ==
  /\ at = "read" /\ rcb = ReadCapacity
  /\ \E taken \in 0 .. rcb :
       /\ Consume(taken)
       /\ IF taken = 0 THEN OnClose ELSE Continue /\ UNCHANGED <<listed, interest, closes>>
  /\ UNCHANGED <<socket, wcb>>

-----------------------------------------------------------------------------
(* The loop of on_write(): send takes bytes from wcb_, *)
SendBytes ==
  /\ at = "write" /\ wcb > 0 /\ ~reset /\ sndq < SendSpace
  /\ \E n \in Portion(wcb, SendSpace - sndq) : wcb' = wcb - n /\ sndq' = sndq + n
  /\ Continue
  /\ UNCHANGED <<rcvq, eof, reset, nospace, listed, interest, rcb, closes>>

(* or fails with EAGAIN, *)
SendAgain ==
  /\ at = "write" /\ wcb > 0 /\ ~reset /\ sndq = SendSpace
  /\ nospace' = TRUE
  /\ Return
  /\ UNCHANGED <<rcvq, eof, reset, sndq, listed, interest, rcb, wcb, closes>>

(* or with another error. *)
SendFails ==
  /\ at = "write" /\ wcb > 0 /\ reset
  /\ OnClose
  /\ UNCHANGED <<socket, rcb, wcb>>

(* wcb_ is empty: the handler must produce something, or the connection is *)
(* closed.                                                                 *)
EmptyThenProduce ==
  /\ at = "write" /\ wcb = 0
  /\ \E size \in 0 .. WriteCapacity :
       /\ wcb' = size
       /\ IF size = 0 THEN OnClose ELSE Continue /\ UNCHANGED <<listed, interest, closes>>
  /\ UNCHANGED <<socket, rcb>>

(* The handler that consume() or produce() calls throws; so may on_read's  *)
(* with bytes still in the socket.                                         *)
HandlerThrows ==
  /\ \/ at = "read" /\ (rcb = ReadCapacity \/ (rcvq = 0 /\ (eof \/ ~reset)))
     \/ at = "write" /\ wcb = 0
  /\ at' = "idle" /\ events' = {}
  /\ UNCHANGED <<socket, listed, interest, rcb, wcb, closes>>

(* on_close throws when it comes again in on_write, for its                *)
(* unregister_io_listener fails with ENOENT.                               *)
OnCloseThrows ==
  /\ at = "write" /\ closes > 0
  /\ wcb = 0 \/ reset
  /\ closes' = closes + 1
  /\ at' = "idle" /\ events' = {}
  /\ UNCHANGED <<socket, listed, interest, rcb, wcb>>

Network == PeerSends \/ PeerCloses \/ Reset \/ PeerAcknowledges

Reading == RecvBytes \/ RecvEof \/ RecvAgain \/ RecvFails \/ FullThenConsume

Writing == SendBytes \/ SendAgain \/ SendFails \/ EmptyThenProduce

-----------------------------------------------------------------------------
(* on_read and on_write never go to sleep on work: outside the callbacks,  *)
(* unread bytes, an end of stream, an error, or room in the socket of an   *)
(* open connection that waits for them are on their way as an event,       *)
(* except those of the events in dropped.                                  *)
NothingStranded(dropped) == at = "idle" /\ Ready \ dropped # {} => listed

(* After on_close the only callback that can still run is the on_write of  *)
(* the event in which on_read closed, so on_close is called twice at most. *)
OnlyOnWriteFollowsClose ==
  closes > 0 => /\ at # "read" /\ ~listed
                /\ closes > 1 => at = "idle"

(* Neither ring is filled beyond its capacity or emptied below nothing,    *)
(* and closing is final, at every step of on_read and on_write.            *)
ConnectionOK == TypeOK /\ OnlyOnWriteFollowsClose
=============================================================================
