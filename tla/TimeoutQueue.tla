---------------------------- MODULE TimeoutQueue ----------------------------
(***************************************************************************)
(* event_dispatch's timeout listeners: register_timeout_listener and       *)
(* on_timeout over a std::priority_queue in a vector.  on_timeout keeps a  *)
(* reference to the top entry while the listener, client code, runs and    *)
(* perhaps registers more timeouts; afterwards it emplaces the repetition  *)
(* through that reference and pops whatever is on top.                     *)
(*                                                                         *)
(* Of the heap's order only what on_timeout can see is kept: the entry on  *)
(* top, which changes on emplace only for a strictly earlier deadline and  *)
(* on pop to any entry with the earliest deadline.                         *)
(***************************************************************************)
EXTENDS Integers, FiniteSets, BagsExt

CONSTANTS
  Listeners,
  Intervals,   \* the intervals clients ask for
  MaxTime,     \* bound on the clock
  MaxEntries,  \* bound on the entries clients register
  None

ASSUME ConstantsAssumption ==
  /\ Intervals \subseteq Nat
  /\ MaxTime \in Nat /\ MaxEntries \in Nat

Time == 0 .. MaxTime

Deadline == {t + i : t \in Time, i \in Intervals}

TimeoutListenerWrapper == [listener : Listeners, deadline : Deadline, interval : Intervals]

ASSUME NoneAssumption == None \notin TimeoutListenerWrapper

NoEntries == [e \in {} |-> 0]

(* The elements of the vector: each entry as often as it is there. *)
Elements(bag) == UNION {{e} \X (1 .. bag[e]) : e \in DOMAIN bag}

Size(bag) == Cardinality(Elements(bag))

VARIABLES
  pending,   \* timeout_listeners_, as a bag
  top,       \* its top(), None when it is empty
  capacity,  \* of the vector below it
  clock,     \* steady_clock::now()
  now,       \* on_timeout's argument
  fired,     \* the entry that on_timeout's reference was bound to
  moved,     \* the vector moved since: the reference dangles
  at         \* "idle", "scan" (top of the while loop), "called" (in a callback)

vars == <<pending, top, capacity, clock, now, fired, moved, at>>

TypeOK ==
  /\ DOMAIN pending \subseteq TimeoutListenerWrapper
  /\ \A e \in DOMAIN pending : pending[e] \in Nat \ {0}
  /\ top \in DOMAIN pending \cup {None} /\ (top = None <=> pending = NoEntries)
  /\ capacity \in Nat /\ Size(pending) <= capacity
  /\ clock \in Time /\ now \in Time
  /\ fired \in TimeoutListenerWrapper \cup {None}
  /\ moved \in BOOLEAN
  /\ at \in {"idle", "scan", "called"}

Init ==
  /\ pending = NoEntries /\ top = None /\ capacity = 0
  /\ clock = 0 /\ now = 0
  /\ fired = None /\ moved = FALSE
  /\ at = "idle"

Entry(l, time, interval) ==
  [listener |-> l, deadline |-> time + interval, interval |-> interval]

(* Mutant: equal deadlines are swapped. *)
RisenPastEqual(e) == IF top = None THEN e ELSE IF top.deadline >= e.deadline THEN e ELSE top

(* The top after push_heap: the new entry rises only past later deadlines. *)
Risen(e) == IF top = None THEN e ELSE IF top.deadline > e.deadline THEN e ELSE top

(* Mutant: a deadline that is reached, not passed, does not count. *)
TopIsOverdue == IF top = None THEN FALSE ELSE top.deadline < now

TopIsDue == IF top = None THEN FALSE ELSE ~(top.deadline > now)

Grown == IF capacity = 0 THEN 1 ELSE 2 * capacity

Full == Size(pending) = capacity

Earliest(bag) ==
  {e \in DOMAIN bag : \A f \in DOMAIN bag : e.deadline <= f.deadline}

-----------------------------------------------------------------------------
Tick ==
  /\ clock < MaxTime
  /\ clock' = clock + 1
  /\ UNCHANGED <<pending, top, capacity, now, fired, moved, at>>

(* register_timeout_listener, outside on_timeout or from a callback. *)
RegisterTimeout(l, interval) ==
  /\ at \in {"idle", "called"}
  /\ Size(pending) < MaxEntries
  /\ pending' = BagAdd(pending, Entry(l, clock, interval))
  /\ top' = Risen(Entry(l, clock, interval))
  /\ capacity' = IF Full THEN Grown ELSE capacity
  /\ moved' = (moved \/ Full)
  /\ UNCHANGED <<clock, now, fired, at>>

BeginTimeouts ==
  /\ at = "idle"
  /\ now' = clock
  /\ at' = "scan"
  /\ UNCHANGED <<pending, top, capacity, clock, fired, moved>>

(* The while loop: the top entry is due and its listener is called, *)
Fire ==
  /\ at = "scan" /\ TopIsDue
  /\ fired' = top
  /\ moved' = FALSE
  /\ at' = "called"
  /\ UNCHANGED <<pending, top, capacity, clock, now>>

(* or nothing is due. *)
Finish ==
  /\ at = "scan" /\ ~TopIsDue
  /\ at' = "idle"
  /\ UNCHANGED <<pending, top, capacity, clock, now, fired, moved>>

PopTop(bag, e) ==
  LET left == BagRemove(bag, e)
  IN  /\ pending' = left
      /\ IF left = NoEntries THEN top' = None ELSE top' \in Earliest(left)

(* Mutant: the entry of a listener that returned false is not popped. *)
FalseKeepsEntry ==
  /\ at = "called"
  /\ at' = "scan"
  /\ UNCHANGED <<pending, top, capacity, clock, now, fired, moved>>

(* The listener returns false: pop. *)
ReturnsFalse ==
  /\ at = "called"
  /\ PopTop(pending, top)
  /\ at' = "scan"
  /\ UNCHANGED <<capacity, clock, now, fired, moved>>

(* Mutant: emplace without pop. *)
TrueKeepsEntry ==
  /\ at = "called"
  /\ LET again == Entry(fired.listener, now, fired.interval)
     IN  pending' = BagAdd(pending, again) /\ top' = Risen(again)
  /\ capacity' = IF Full THEN Grown ELSE capacity
  /\ at' = "scan"
  /\ UNCHANGED <<clock, now, fired, moved>>

(* It returns true: emplace, then pop.  What a dangling reference reads is *)
(* any listener and any interval.                                          *)
ReturnsTrue ==
  /\ at = "called"
  /\ \E read \in IF moved THEN TimeoutListenerWrapper ELSE {fired} :
       LET again == Entry(read.listener, now, read.interval)
       IN  PopTop(BagAdd(pending, again), Risen(again))
  /\ capacity' = IF Full THEN Grown ELSE capacity
  /\ at' = "scan"
  /\ UNCHANGED <<clock, now, fired, moved>>

(* It throws out of on_timeout: the entry stays, and is still due.         *)
TimeoutThrows ==
  /\ at = "called"
  /\ at' = "idle"
  /\ UNCHANGED <<pending, top, capacity, clock, now, fired, moved>>

Next ==
  \/ Tick \/ BeginTimeouts \/ Fire \/ Finish
  \/ ReturnsFalse \/ ReturnsTrue \/ TimeoutThrows
  \/ \E l \in Listeners, i \in Intervals : RegisterTimeout(l, i)

Spec == Init /\ [][Next]_vars

(* on_timeout runs on and the listeners it calls return or throw. *)
Fairness ==
  WF_vars(Fire) /\ WF_vars(Finish) /\ WF_vars(ReturnsFalse \/ ReturnsTrue \/ TimeoutThrows)

FairSpec == Spec /\ Fairness

-----------------------------------------------------------------------------
(* pop() takes off the entry whose listener was called, and a listener     *)
(* that returned true is scheduled again, once, an interval after this     *)
(* round, whatever timeouts the callback registered, unless these moved    *)
(* the vector under on_timeout's reference.                                *)
FiredEntryIsReplaced ==
  [][at = "called" /\ at' = "scan" =>
       LET left == BagRemove(pending, fired)
       IN  \/ pending' = left
           \/ pending' = BagAdd(left, Entry(fired.listener, now, fired.interval))
           \/ moved]_vars

(* The entry whose listener is running stays on top of the heap, also when *)
(* its listener registers a timeout that is due at once: the pop that      *)
(* follows is never of another entry.                                      *)
FiredStaysOnTop == at = "called" => top = fired

(* The priority queue is well formed, within its vector, and its top is    *)
(* what on_timeout's reference and pop take it for.                        *)
HeapInv == TypeOK /\ FiredStaysOnTop

(* When on_timeout returns, nothing that was due when it was called is     *)
(* left.                                                                   *)
NothingDueIsLeft ==
  [][at = "scan" /\ at' = "idle" => \A e \in DOMAIN pending : e.deadline > now]_vars

(* on_timeout ends, although callbacks register and repeat timeouts, as    *)
(* long as no interval is zero (a zero interval is due again at once).     *)
OnTimeoutEnds ==
  at = "scan" ~> at = "idle" \/ \E e \in DOMAIN pending : e.interval = 0
=============================================================================
