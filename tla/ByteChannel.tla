---------------------------- MODULE ByteChannel ----------------------------
(***************************************************************************)
(* What circular_buffer promises to one producer and one consumer: a       *)
(* channel that holds at most Limit bytes of one endless stream, takes     *)
(* bytes at one end in stream order and gives up bytes at the other end,   *)
(* never loses, repeats or reorders one.  A byte is named by its position  *)
(* in the stream, counted modulo Positions as the code's size_t indices are.   *)
(***************************************************************************)
EXTENDS Integers, Sequences

CONSTANTS Limit,     \* most bytes in the channel
          Positions  \* stream positions are 0 .. Positions - 1, then 0 again

VARIABLES chan,    \* the bytes that are published and not yet released
          next     \* the position of the next byte to be published

vars == <<chan, next>>

Init == chan = <<>> /\ next = 0

(* The producer publishes the next n bytes of the stream. *)
Publish(n) ==
  /\ Len(chan) + n <= Limit
  /\ chan' = chan \o [i \in 1 .. n |-> (next + i - 1) % Positions]
  /\ next' = (next + n) % Positions

(* The consumer releases the n oldest bytes. *)
Release(n) ==
  /\ n <= Len(chan)
  /\ chan' = SubSeq(chan, n + 1, Len(chan))
  /\ UNCHANGED next

Next == \E n \in 1 .. Limit : Publish(n) \/ Release(n)

Spec == Init /\ [][Next]_vars
=============================================================================
