--------------------------- MODULE LoopListeners ---------------------------
(***************************************************************************)
(* event_dispatch::on_loop and the registration of loop listeners.         *)
(* on_loop is a range-for over the vector loop_listeners_: begin and end   *)
(* are taken once, while the listeners it calls are client code that may   *)
(* register and unregister listeners.  So the model keeps the vector's     *)
(* memory, not only its contents: erase shifts the elements and leaves the *)
(* last one behind past the end, push_back on a full vector moves          *)
(* everything to a new buffer and leaves the iterators in the old one.     *)
(*                                                                         *)
(* Its names say loop where TimeoutQueue has the same ones: the proofs     *)
(* extend both modules.                                                    *)
(***************************************************************************)
EXTENDS Integers, Sequences, SequencesExt

CONSTANTS LoopClients,  \* the listeners that clients register
          Freed       \* what a read from a buffer that was given back yields

ASSUME LoopAssumption == Freed \notin LoopClients

VARIABLES
  mem,      \* the vector's buffer, Len(mem) its capacity
  size,     \* how many of its elements are in use
  it, last, \* the range-for's iterators, as indices; end() was last
  loop_moved, \* the buffer was given back since the iterators were taken
  calling,  \* the listener whose on_loop is running, Freed if none or garbage
  loop_at,  \* "idle", "next" (between two calls), "called" (in a callback)
  round     \* this round: the listeners at its start, the calls made, and
            \* what the callbacks did to the vector

loop_vars == <<mem, size, it, last, loop_moved, calling, loop_at, round>>

loop_listeners == SubSeq(mem, 1, size)

LoopTypeOK ==
  /\ mem \in Seq(LoopClients \cup {Freed}) /\ size \in 0 .. Len(mem)
  /\ it \in Nat /\ last \in Nat
  /\ loop_moved \in BOOLEAN
  /\ calling \in LoopClients \cup {Freed}
  /\ loop_at \in {"idle", "next", "called"}
  /\ round \in [start : Seq(LoopClients), calls : Seq(LoopClients \cup {Freed}),
                registered : BOOLEAN, unregistered : BOOLEAN]

NoRound == [start |-> <<>>, calls |-> <<>>, registered |-> FALSE, unregistered |-> FALSE]

LoopInit ==
  /\ mem = <<>> /\ size = 0
  /\ it = 1 /\ last = 1 /\ loop_moved = FALSE
  /\ calling = Freed
  /\ loop_at = "idle"
  /\ round = NoRound

(* Mutant: a listener that is there is not found. *)
FindNone(l) == {}

(* std::find. *)
Find(l) == {i \in 1 .. size : mem[i] = l}

ClientRuns == loop_at \in {"idle", "called"}

-----------------------------------------------------------------------------
(* register_loop_listener: push_back unless it is there; a full vector     *)
(* doubles its capacity.                                                   *)
RegisterLoop(l) ==
  /\ ClientRuns
  /\ Find(l) = {}
  /\ LET full == size = Len(mem)
         spare == IF size = 0 THEN 0 ELSE size - 1
     IN  /\ mem' = IF full THEN Append(mem, l) \o [i \in 1 .. spare |-> Freed]
                           ELSE [mem EXCEPT ![size + 1] = l]
         /\ loop_moved' = (loop_moved \/ (full /\ loop_at = "called"))
  /\ size' = size + 1
  /\ round' = [round EXCEPT !.registered = @ \/ loop_at = "called"]
  /\ UNCHANGED <<it, last, calling, loop_at>>

(* unregister_loop_listener: erase moves the elements behind it down. *)
UnregisterLoop(l) ==
  /\ ClientRuns
  /\ \E p \in Find(l) :
       mem' = [i \in 1 .. Len(mem) |-> IF p <= i /\ i < size THEN mem[i + 1] ELSE mem[i]]
  /\ size' = size - 1
  /\ round' = [round EXCEPT !.unregistered = @ \/ loop_at = "called"]
  /\ UNCHANGED <<it, last, loop_moved, calling, loop_at>>

(* Mutant: the last listener is left out. *)
EndShort == IF size = 0 THEN 1 ELSE size

End == size + 1

(* on_loop takes begin() and end(), *)
BeginRound ==
  /\ loop_at = "idle"
  /\ it' = 1 /\ last' = End /\ loop_moved' = FALSE
  /\ round' = [NoRound EXCEPT !.start = loop_listeners]
  /\ loop_at' = "next"
  /\ UNCHANGED <<mem, size, calling>>

(* calls the listener at the iterator, *)
CallNext ==
  /\ loop_at = "next" /\ it # last
  /\ \E l \in IF loop_moved THEN LoopClients \cup {Freed} ELSE {mem[it]} :
       /\ calling' = l
       /\ round' = [round EXCEPT !.calls = Append(@, l)]
  /\ loop_at' = "called"
  /\ UNCHANGED <<mem, size, it, last, loop_moved>>

(* which returns, *)
CallReturns ==
  /\ loop_at = "called"
  /\ it' = it + 1
  /\ calling' = Freed
  /\ loop_at' = "next"
  /\ UNCHANGED <<mem, size, last, loop_moved, round>>

(* or throws out of on_loop. *)
CallThrows ==
  /\ loop_at = "called"
  /\ calling' = Freed
  /\ loop_at' = "idle"
  /\ UNCHANGED <<mem, size, it, last, loop_moved, round>>

EndRound ==
  /\ loop_at = "next" /\ it = last
  /\ loop_at' = "idle"
  /\ UNCHANGED <<mem, size, it, last, loop_moved, calling, round>>

LoopNext ==
  \/ \E l \in LoopClients : RegisterLoop(l) \/ UnregisterLoop(l)
  \/ BeginRound \/ CallNext \/ CallReturns \/ CallThrows \/ EndRound

LoopSpec == LoopInit /\ [][LoopNext]_loop_vars

-----------------------------------------------------------------------------
(* A listener is in the vector at most once, whatever the callbacks did    *)
(* while on_loop was iterating.                                            *)
NoDuplicates == \A i, j \in 1 .. size : mem[i] = mem[j] => i = j

(* Callbacks may unregister themselves and others without a call through a *)
(* pointer that was never registered: as long as none registers, on_loop   *)
(* makes as many calls as there were listeners and each is to one of them. *)
UnregisteringStaysInBuffer ==
  ~round.registered =>
    /\ Len(round.calls) <= Len(round.start)
    /\ \A i \in 1 .. Len(round.calls) : Contains(round.start, round.calls[i])

(* The vector is well formed, its spare slots and the iterators included,  *)
(* at every point of on_loop, and no call leaves it unless a callback      *)
(* registered a listener.                                                  *)
VectorInv == LoopTypeOK /\ NoDuplicates /\ UnregisteringStaysInBuffer

(* A round calls every listener that was registered when it began, once    *)
(* and in order, unless a callback unregistered one or registered one that *)
(* made the vector grow: registering into spare room is harmless.          *)
UndisturbedRoundCallsAll ==
  loop_at = "next" /\ it = last /\ ~loop_moved /\ ~round.unregistered => round.calls = round.start
=============================================================================
