--------------------------- MODULE EventDispatch ---------------------------
(***************************************************************************)
(* event_dispatch::run_loop and run_once with their IO listeners: one      *)
(* thread that calls the loop listeners, waits in epoll_wait, and hands    *)
(* out either the timeouts or one batch of IO events.  The batch is an     *)
(* array on the stack of run_once: it holds raw listener pointers while    *)
(* the callbacks, which are client code, register, unregister, create and  *)
(* destroy listeners, their own among them, or throw.  A call through the  *)
(* pointer of a destroyed listener ends the model's process.               *)
(*                                                                         *)
(* epoll is external: an edge-triggered ready list in arrival order, from  *)
(* which epoll_wait takes at most MaxEvents entries.                       *)
(***************************************************************************)
EXTENDS Integers, Sequences, SequencesExt

CONSTANTS
  Listeners,      \* io_listener objects (addresses), each with a socket of its own
  MaxEvents       \* max_events

ASSUME ConstantsAssumption == MaxEvents \in Nat \ {0}

Events == {"read", "write"}

VARIABLES
  at,        \* where run_once is
  interest,  \* the events each listener is registered for, {} if it is not
  rdlist,    \* epoll's ready list
  batch,     \* what is left of events[0 .. n - 1], the current one first
  alive,     \* the listeners that exist
  orphans,   \* listeners that IO callbacks destroyed with a call still to come
  owed,      \* listeners whose socket became ready and that were not called since
  dropped    \* listeners whose fetched events an exception threw away

vars == <<at, interest, rdlist, batch, alive, orphans, owed, dropped>>

TypeOK ==
  /\ at \in {"loop", "wait", "timeout", "next", "dead"} \cup Events
  /\ interest \in [Listeners -> SUBSET Events]
  /\ rdlist \in Seq(Listeners)
  /\ batch \in Seq([listener : Listeners, events : SUBSET Events])
  /\ alive \subseteq Listeners /\ orphans \subseteq Listeners
  /\ owed \subseteq Listeners /\ dropped \subseteq Listeners

Init ==
  /\ at = "loop"
  /\ interest = [l \in Listeners |-> {}]
  /\ rdlist = <<>> /\ batch = <<>>
  /\ alive = {} /\ orphans = {}
  /\ owed = {} /\ dropped = {}

InCallback == at \in Events

Current == Head(batch).listener

(* run_once still has a call to make for entry i of the batch. *)
ToCall(i) == i # 1 \/ ~InCallback \/ (at = "read" /\ "write" \in batch[1].events)

Awaited(l) == \E i \in 1 .. Len(batch) : batch[i].listener = l /\ ToCall(i)

(* Client code runs between two calls of run_once, in the loop listeners   *)
(* (at "loop"), in the timeout listeners and in the IO callbacks.          *)
ClientRuns == at \in {"loop", "timeout"} \/ InCallback

Registered(l) == interest[l] # {}

-----------------------------------------------------------------------------
(* The socket of l becomes ready: epoll queues it. *)
Ready(l) ==
  /\ rdlist' = Append(rdlist, l)
  /\ owed' = owed \cup {l} /\ dropped' = dropped \ {l}

(* register_io_listener: EPOLL_CTL_ADD with EPOLLET.  It throws when the   *)
(* socket is registered already; a socket that is ready is queued at once. *)
RegisterIo(l, event) ==
  /\ ClientRuns
  /\ l \in alive /\ ~Registered(l)
  /\ interest' = [interest EXCEPT ![l] = event]
  /\ UNCHANGED <<rdlist, owed, dropped>> \/ Ready(l)
  /\ UNCHANGED <<at, batch, alive, orphans>>

(* Mutant: epoll keeps the listener. *)
ForgetNothing(l) == UNCHANGED <<interest, rdlist, owed>>

(* EPOLL_CTL_DEL, or the close of the socket: epoll forgets the listener,  *)
(* the batch does not.                                                     *)
Forget(l) ==
  /\ interest' = [interest EXCEPT ![l] = {}]
  /\ rdlist' = RemoveFirst(rdlist, l)
  /\ owed' = owed \ {l}

(* unregister_io_listener. *)
UnregisterIo(l) ==
  /\ ClientRuns
  /\ l \in alive /\ Registered(l)
  /\ Forget(l)
  /\ UNCHANGED <<at, batch, alive, orphans, dropped>>

(* The client creates a listener or destroys one, which closes its socket. *)
(* A new listener may have the address of one that is gone.                *)
Create(l) ==
  /\ ClientRuns
  /\ l \notin alive
  /\ alive' = alive \cup {l}
  /\ dropped' = dropped \ {l}
  /\ UNCHANGED <<at, interest, rdlist, batch, orphans, owed>>

Destroy(l) ==
  /\ ClientRuns
  /\ l \in alive
  /\ alive' = alive \ {l}
  /\ orphans' = IF Awaited(l) THEN orphans \cup {l} ELSE orphans
  /\ Forget(l)
  /\ UNCHANGED <<at, batch, dropped>>

Client ==
  \E l \in Listeners :
    \/ \E event \in {{"read"}, {"write"}, Events} : RegisterIo(l, event)
    \/ UnregisterIo(l) \/ Create(l) \/ Destroy(l)

-----------------------------------------------------------------------------
(* A registered socket becomes readable or writable. *)
Edge(l) ==
  /\ at # "dead" /\ Registered(l) /\ ~Contains(rdlist, l)
  /\ Ready(l)
  /\ UNCHANGED <<at, interest, batch, alive, orphans>>

(* on_loop returns. *)
OnLoop ==
  /\ at = "loop"
  /\ at' = "wait"
  /\ UNCHANGED <<interest, rdlist, batch, alive, orphans, owed, dropped>>

(* The events that do not fit the array stay in the ready list. *)
Rest(n) == SubSeq(rdlist, n + 1, Len(rdlist))

(* Mutant: the loop runs to i <= n, over what was in the array before. *)
OneTooMany(n, ready) ==
  {Append([i \in 1 .. n |-> [listener |-> rdlist[i], events |-> ready[i]]],
          [listener |-> l, events |-> Events]) : l \in Listeners}

(* What the loop over events[0 .. n - 1] works on. *)
Batches(n, ready) == {[i \in 1 .. n |-> [listener |-> rdlist[i], events |-> ready[i]]]}

(* epoll_wait returns n > 0 events; ev.events are those the listener is    *)
(* registered for that hold now.                                           *)
WaitEvents ==
  /\ at = "wait" /\ rdlist # <<>>
  /\ LET n == IF Len(rdlist) < MaxEvents THEN Len(rdlist) ELSE MaxEvents
     IN  /\ \E ready \in [1 .. n -> (SUBSET Events) \ {{}}] :
              /\ \A i \in 1 .. n : ready[i] \subseteq interest[rdlist[i]]
              /\ batch' \in Batches(n, ready)
         /\ rdlist' = Rest(n)
  /\ at' = "next"
  /\ UNCHANGED <<interest, alive, orphans, owed, dropped>>

(* epoll_wait returns 0 and on_timeout is called: see TimeoutQueue. *)
WaitTimesOut ==
  /\ at = "wait" /\ rdlist = <<>>
  /\ at' = "timeout"
  /\ UNCHANGED <<interest, rdlist, batch, alive, orphans, owed, dropped>>

OnTimeout ==
  /\ at = "timeout"
  /\ at' = "loop"
  /\ UNCHANGED <<interest, rdlist, batch, alive, orphans, owed, dropped>>

(* epoll_wait fails with EINTR and run_once returns. *)
WaitInterrupted ==
  /\ at = "wait"
  /\ at' = "loop"
  /\ UNCHANGED <<interest, rdlist, batch, alive, orphans, owed, dropped>>

(* run_once calls through a pointer whose listener is gone. *)
Dies ==
  /\ at' = "dead"
  /\ UNCHANGED <<interest, rdlist, batch, alive, orphans, owed, dropped>>

(* The loop over the events: on_read if EPOLLIN is set, *)
DispatchEvent ==
  /\ at = "next" /\ batch # <<>>
  /\ IF Current \notin alive
       THEN Dies
       ELSE /\ at' = IF "read" \in Head(batch).events THEN "read" ELSE "write"
            /\ owed' = owed \ {Current} /\ dropped' = dropped \ {Current}
            /\ UNCHANGED <<interest, rdlist, batch, alive, orphans>>

(* Mutant: the loop over the events ends at n - 1. *)
EndsOneEarly == IF Len(batch) = 2 THEN <<>> ELSE Tail(batch)

(* ++i: what is left of the batch. *)
Advance == Tail(batch)

(* then on_write, on the same pointer, if EPOLLOUT is set.  A listener     *)
(* that its on_read has destroyed is gone by now.                          *)
CallbackReturns ==
  /\ InCallback
  /\ IF at = "read" /\ "write" \in Head(batch).events
       THEN IF Current \notin alive
              THEN Dies
              ELSE at' = "write" /\ UNCHANGED <<interest, rdlist, batch, alive, orphans, owed, dropped>>
       ELSE /\ at' = "next" /\ batch' = Advance
            /\ UNCHANGED <<interest, rdlist, alive, orphans, owed, dropped>>

BatchDone ==
  /\ at = "next" /\ batch = <<>>
  /\ at' = "loop" /\ orphans' = {}
  /\ UNCHANGED <<interest, rdlist, batch, alive, owed, dropped>>

(* A callback throws: the exception leaves run_once and run_loop, whose    *)
(* stack held the array, and the client calls run_loop again.              *)
CallbackThrows ==
  /\ InCallback
  /\ dropped' = dropped \cup {batch[i].listener : i \in 1 .. Len(batch)}
  /\ batch' = <<>> /\ orphans' = {}
  /\ at' = "loop"
  /\ UNCHANGED <<interest, rdlist, alive, owed>>

Dispatch ==
  OnLoop \/ WaitEvents \/ WaitTimesOut \/ OnTimeout \/ WaitInterrupted
  \/ DispatchEvent \/ CallbackReturns \/ BatchDone \/ CallbackThrows

Next == Client \/ Dispatch \/ \E l \in Listeners : Edge(l)

Spec == Init /\ [][Next]_vars

-----------------------------------------------------------------------------
(* run_once calls a listener that no longer exists only when an IO         *)
(* callback has destroyed it while a call to it was still to come in the   *)
(* batch: a listener destroyed by a loop or timeout listener, between the  *)
(* calls of run_once, or by an IO callback of a batch it is not in, or no  *)
(* longer, is never called, and neither is one whose events an exception   *)
(* threw away.                                                             *)
CallsLiveListeners == at = "dead" => Current \in orphans

(* Whatever the callbacks do to the registrations, epoll's ready list      *)
(* never names a listener that is destroyed or unregistered, so the next   *)
(* epoll_wait hands out no stale pointer.                                  *)
ReadyListIsFresh ==
  \A i \in 1 .. Len(rdlist) : rdlist[i] \in alive /\ Registered(rdlist[i])

(* Types and what epoll holds, under every order of registering,           *)
(* unregistering, destroying and throwing in the callbacks of run_once.    *)
DispatchInv == TypeOK /\ ReadyListIsFresh

(* An edge is not repeated, so one that is lost is lost for good.  However *)
(* many sockets are ready, and whatever is registered and unregistered     *)
(* meanwhile, a listener that is owed a call is in the ready list or in    *)
(* the batch: the only edges lost are those an exception throws away.      *)
EdgesAreKept ==
  \A l \in owed \ dropped :
    \/ Contains(rdlist, l)
    \/ \E i \in 1 .. Len(batch) : batch[i].listener = l
=============================================================================
