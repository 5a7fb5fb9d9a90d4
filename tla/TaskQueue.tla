----------------------------- MODULE TaskQueue -----------------------------
(***************************************************************************)
(* task_queue_thread and the circular_queue inside it: one thread pushes   *)
(* tasks, the worker thread runs them, and a semaphore lets the worker     *)
(* sleep while the queue looks empty.  ridx_ and widx_ are plain size_t's  *)
(* that both threads use without a lock, so each thread's stores go        *)
(* through its processor's store buffer (x86); only the semaphore's        *)
(* operations, which are atomic instructions, wait for the buffer to       *)
(* empty.                                                                  *)
(*                                                                         *)
(* The task pushed at index p is called p, so a task that is run out of    *)
(* turn shows as a wrong number.  A task_pointer is stored as one word.    *)
(* The process dies of an address that is no storage and of a task_pointer *)
(* that is not there; nothing happens after that.                          *)
(***************************************************************************)
EXTENDS SizeT, Sequences

CONSTANTS
  RequestedCapacity,  \* the queue_capacity argument of the constructor
  StoreBufferDepth,   \* how many stores a processor may hold back
  SemMax,             \* SEM_VALUE_MAX
  Places,             \* storage for task_pointers
  Wild                \* an address that is not storage

Widx == "widx_"  \* names widx_ and ridx_ in a store; the other stores go
Ridx == "ridx_"  \* to places

(* next_pow2(1) evaluates __builtin_clzll(0), and next_pow2 of more than   *)
(* half the range shifts by the width: both are undefined.                 *)
ASSUME ConstantsAssumption ==
  /\ RequestedCapacity \in Nat \ {1} /\ 2 * RequestedCapacity <= IndexRange
  /\ StoreBufferDepth \in Nat /\ StoreBufferDepth >= 2
  /\ SemMax \in Nat \ {0}
  /\ Wild \notin Places /\ {Widx, Ridx} \cap (Places \cup {Wild}) = {}

(* utility::next_pow2, for the arguments it is defined for. *)
next_pow2(n) ==
  IF n = 0 THEN 1
           ELSE CHOOSE c \in {2 ^ k : k \in 0 .. IndexBits} :
                  n <= c /\ \A d \in {2 ^ k : k \in 0 .. IndexBits} : n <= d => c <= d

Capacity == next_pow2(RequestedCapacity)

Slots == 0 .. Capacity - 1

Garbage == -1  \* no task_pointer: a null, or what unwritten memory holds

VARIABLES
  widx, ridx,  \* queue_.widx_ and queue_.ridx_, in memory
  words,       \* the buffer read as an array of pointers, as at() does
  place,       \* the storage those pointers point to
  sema,        \* the semaphore's value
  pw, cr,      \* widx_ and ridx_ as the thread that owns them sees them
  pbuf, cbuf,  \* the store buffers
  ppc, wpc,    \* where the pushing thread and the worker are
  task,        \* what the worker got from front()
  fin,         \* what its run() returned
  missed,      \* a push decided not to post while an increment was on its way
  lost         \* the tasks pushed into a slot that pop was still destroying

vars == <<widx, ridx, words, place, sema, pw, cr, pbuf, cbuf, ppc, wpc, task, fin, missed, lost>>

pushing == <<pw, pbuf, ppc>>
working == <<cr, cbuf, wpc, task, fin>>

Store == [to : Places \cup {Wild, Widx}, val : Index]
WorkerStore == [to : Places \cup {Wild, Ridx}, val : Index \cup {Garbage}]

TypeOK ==
  /\ widx \in Index /\ ridx \in Index /\ pw \in Index /\ cr \in Index
  /\ words \in [Slots -> Places \cup {Wild}]
  /\ place \in [Places -> Index \cup {Garbage}]
  /\ sema \in 0 .. SemMax
  /\ pbuf \in Seq(Store) /\ cbuf \in Seq(WorkerStore)
  /\ ppc \in {"idle", "pushed", "post"}
  /\ wpc \in {"check", "wait", "front", "run", "pop", "destroy", "stopped", "gone", "dead"}
  /\ task \in Index \cup {Garbage}
  /\ fin \in BOOLEAN /\ missed \in BOOLEAN /\ lost \subseteq Index

(* The constructor: an empty queue in the buffer the allocator returned,   *)
(* whose words nobody initialises, and a thread that starts at once.       *)
Init ==
  /\ widx = 0 /\ ridx = 0 /\ pw = 0 /\ cr = 0
  /\ words \in [Slots -> Places \cup {Wild}]
  /\ place = [p \in Places |-> Garbage]
  /\ sema = 0
  /\ pbuf = <<>> /\ cbuf = <<>>
  /\ ppc = "idle" /\ wpc = "check"
  /\ task = Garbage /\ fin = TRUE /\ missed = FALSE /\ lost = {}

(* circular_queue::at: the pointer stored in word idx & mask_. *)
at(idx) == words[idx % Capacity]

Alive == wpc # "dead"

(* A null that pop left in p is still on its way. *)
Nulled(p) == \E i \in DOMAIN cbuf : cbuf[i].to = p

(* The task_pointer at p as the worker sees it, past its own stores. *)
Fetch(p) == IF p = Wild \/ Nulled(p) THEN Garbage ELSE place[p]

Queued(v) == Distance(cr, v) < Distance(cr, pw)

-----------------------------------------------------------------------------
(* Mutant: push does not ask full(). *)
NeverFull(r, w) == FALSE

(* circular_queue::full. *)
full(r, w) == Distance(r, w) = Capacity

(* push, up to the return of queue_.push: a full queue makes it return     *)
(* false and change nothing.  widx_ is incremented on the way to the       *)
(* address, so before the task_pointer is constructed there.               *)
Push ==
  /\ Alive /\ ppc = "idle" /\ wpc # "gone"
  /\ ~full(ridx, pw)
  /\ at(pw) # Wild
  /\ Len(pbuf) + 2 <= StoreBufferDepth
  /\ pbuf' = pbuf \o <<[to |-> Widx, val |-> Wrap(pw + 1)], [to |-> at(pw), val |-> pw]>>
  /\ pw' = Wrap(pw + 1)
  /\ ppc' = "pushed"
  /\ UNCHANGED <<widx, ridx, words, place, sema, missed, lost, working>>

(* A word that points to no storage: constructing there kills the process. *)
PushDies ==
  /\ Alive /\ ppc = "idle" /\ wpc # "gone"
  /\ ~full(ridx, pw) /\ at(pw) = Wild
  /\ wpc' = "dead"
  /\ UNCHANGED <<widx, ridx, words, place, sema, missed, lost, pushing, cr, cbuf, task, fin>>

(* Mutant: the count is taken as if the task were not yet in the queue. *)
CountsNone == Distance(ridx, pw) = 0

(* get_current_task_num() == 1, with ridx_ as it is in memory. *)
CountsOne == Distance(ridx, pw) = 1

CountAfterPush ==
  /\ Alive /\ ppc = "pushed"
  /\ ppc' = IF CountsOne THEN "post" ELSE "idle"
  /\ missed' = (missed \/ (Distance(ridx, pw) # 1 /\ (ridx # cr \/ widx # pw)))
  /\ UNCHANGED <<widx, ridx, words, place, sema, pw, pbuf, lost, working>>

(* sema_.post(), an atomic instruction; at SEM_VALUE_MAX it throws, and    *)
(* push ends with the task queued.                                         *)
Post ==
  /\ Alive /\ ppc = "post" /\ pbuf = <<>>
  /\ sema' = IF sema = SemMax THEN sema ELSE sema + 1
  /\ ppc' = "idle"
  /\ UNCHANGED <<widx, ridx, words, place, pw, pbuf, missed, lost, working>>

-----------------------------------------------------------------------------
(* The worker's thread_routine. *)
CheckEmpty ==
  /\ wpc = "check"
  /\ wpc' = IF Distance(cr, widx) = 0 THEN "wait" ELSE "front"
  /\ missed' = (missed /\ (cr = widx \/ widx # pw))
  /\ UNCHANGED <<widx, ridx, words, place, sema, cr, cbuf, task, fin, lost, pushing>>

(* sema_.wait() returns when it has taken one from the semaphore. *)
Wait ==
  /\ wpc = "wait" /\ sema > 0 /\ cbuf = <<>>
  /\ sema' = sema - 1
  /\ wpc' = "check"
  /\ UNCHANGED <<widx, ridx, words, place, cr, cbuf, task, fin, missed, lost, pushing>>

(* front() and the call of run(), which kills the process when there is no *)
(* task_pointer yet, or no longer.                                         *)
Front ==
  /\ wpc = "front"
  /\ IF Fetch(at(cr)) = Garbage
       THEN wpc' = "dead" /\ task' = task
       ELSE wpc' = "run" /\ task' = Fetch(at(cr))
  /\ UNCHANGED <<widx, ridx, words, place, sema, cr, cbuf, fin, missed, lost, pushing>>

(* The task pushes another one, on the worker's thread.  Two threads that  *)
(* push need a lock, whose operations empty the store buffers.  The task   *)
(* that runs is still in the queue, so the count is never 1 and nothing is *)
(* posted.                                                                 *)
PushFromRun ==
  /\ wpc = "run" /\ ppc = "idle" /\ pbuf = <<>> /\ cbuf = <<>>
  /\ ~full(cr, pw)
  /\ IF at(pw) = Wild
       THEN wpc' = "dead" /\ UNCHANGED <<place, pw, widx>>
       ELSE /\ place' = [place EXCEPT ![at(pw)] = pw]
            /\ pw' = Wrap(pw + 1) /\ widx' = pw'
            /\ wpc' = wpc
  /\ UNCHANGED <<ridx, words, sema, pbuf, ppc, missed, lost, cr, cbuf, task, fin>>

(* run() returns, true to go on and false to stop the thread. *)
RunReturns(result) ==
  /\ wpc = "run"
  /\ fin' = result
  /\ wpc' = "pop"
  /\ UNCHANGED <<widx, ridx, words, place, sema, cr, cbuf, task, missed, lost, pushing>>

(* pop: ridx_ is incremented first, *)
Pop ==
  /\ wpc = "pop" /\ Len(cbuf) < StoreBufferDepth
  /\ cr' = Wrap(cr + 1)
  /\ cbuf' = Append(cbuf, [to |-> Ridx, val |-> Wrap(cr + 1)])
  /\ wpc' = "destroy"
  /\ UNCHANGED <<widx, ridx, words, place, sema, task, fin, missed, lost, pushing>>

Previous == Wrap(cr + IndexRange - 1)

(* Mutant: pop destroys at the index that the increment returns. *)
AfterIncrement == cr

(* The index whose slot pop destroys: the one before the increment. *)
Popped == Previous

(* then the task_pointer in the slot is destroyed, which leaves a null     *)
(* there: its deleter gets the task that the slot holds at that moment,    *)
(* and that is a queued one when a push has used the slot again.           *)
Destroy ==
  /\ wpc = "destroy" /\ Len(cbuf) < StoreBufferDepth
  /\ cbuf' = Append(cbuf, [to |-> at(Popped), val |-> Garbage])
  /\ lost' = lost \cup {v \in Index : Fetch(at(Previous)) = v /\ Queued(v)}
  /\ wpc' = IF fin THEN "check" ELSE "stopped"
  /\ task' = Garbage
  /\ UNCHANGED <<widx, ridx, words, place, sema, cr, fin, missed, pushing>>

(* ~task_queue_thread, after the thread was joined: clear() destroys the   *)
(* tasks that are left and frees the buffer.                               *)
Clear ==
  /\ wpc = "stopped" /\ ppc = "idle" /\ pbuf = <<>> /\ cbuf = <<>>
  /\ cr' = widx /\ ridx' = widx
  /\ wpc' = "gone"
  /\ UNCHANGED <<widx, words, place, sema, cbuf, task, fin, missed, lost, pushing>>

-----------------------------------------------------------------------------
(* A task_pointer that reaches its place ahead of a null which pop left    *)
(* there is about to be written over.                                      *)
DrainPusher ==
  /\ Alive /\ pbuf # <<>>
  /\ pbuf' = Tail(pbuf)
  /\ LET s == Head(pbuf)
     IN  /\ widx' = IF s.to = Widx THEN s.val ELSE widx
         /\ place' = IF s.to \in Places THEN [place EXCEPT ![s.to] = s.val] ELSE place
         /\ lost' = IF Nulled(s.to) THEN lost \cup {s.val} ELSE lost
  /\ UNCHANGED <<ridx, words, sema, pw, ppc, missed, working>>

DrainWorker ==
  /\ Alive /\ cbuf # <<>>
  /\ cbuf' = Tail(cbuf)
  /\ LET s == Head(cbuf)
     IN  /\ ridx' = IF s.to = Ridx THEN s.val ELSE ridx
         /\ place' = IF s.to \in Places THEN [place EXCEPT ![s.to] = s.val] ELSE place
  /\ UNCHANGED <<widx, words, sema, cr, wpc, task, fin, missed, lost, pushing>>

Pusher == Push \/ PushDies \/ CountAfterPush \/ Post

Worker ==
  \/ CheckEmpty \/ Wait \/ Front \/ PushFromRun \/ Pop \/ Destroy
  \/ \E result \in BOOLEAN : RunReturns(result)

Next == Pusher \/ Worker \/ Clear \/ DrainPusher \/ DrainWorker

Spec == Init /\ [][Next]_vars

(* Both threads are scheduled, stores reach memory, a push that was begun  *)
(* is finished and every task's run() returns.  Nobody has to push.        *)
Fairness ==
  /\ WF_vars(Worker) /\ WF_vars(CountAfterPush \/ Post)
  /\ WF_vars(DrainPusher) /\ WF_vars(DrainWorker)

FairSpec == Spec /\ Fairness

-----------------------------------------------------------------------------
(* front()'s assert(!empty()) holds whatever the pushing thread does       *)
(* between the worker's test and its call of front().                      *)
FrontIsNeverEmpty == wpc \in {"front", "run", "pop"} => Distance(cr, widx) # 0

(* The queue never holds more than its capacity, by either thread's count, *)
(* although full() is computed from a ridx_ that may be old.               *)
NeverOverfull ==
  /\ Distance(ridx, pw) <= Capacity
  /\ Distance(ridx, cr) <= Distance(ridx, widx)
  /\ Distance(ridx, widx) <= Distance(ridx, pw)

(* The queue's structure: types, a count that neither thread gets wrong,   *)
(* and front()'s assert, at every step of push, pop and the store buffers. *)
QueueInv == TypeOK /\ NeverOverfull /\ FrontIsNeverEmpty

(* Word i of the buffer points to storage of its own.  Neither the         *)
(* constructor nor push sees to that; only the allocator can.              *)
Prepared == /\ \A i \in Slots : words[i] \in Places
            /\ \A i, j \in Slots : words[i] = words[j] => i = j

(* The pointer to task v is on its way to its place. *)
UnderConstruction(v) == \E i \in DOMAIN pbuf : pbuf[i] = [to |-> at(v), val |-> v]

(* Whatever the words of the buffer point to, a task that is run is queued, *)
(* and shares its place with the one whose turn it is.  When every slot     *)
(* has a place of its own, it is that one, and so no task is run out of     *)
(* turn or twice; pop destroys the task that was run unless a push has      *)
(* filled the queue meanwhile; a queued task is there for the worker, or    *)
(* for clear, unless its construction, which push begins after widx_ has    *)
(* told of it, is under way or such a pop has destroyed it; and nothing     *)
(* else than these two kills the process.                                   *)
RunsTheTaskOfTheTurn ==
  /\ wpc = "run" => Queued(task) /\ at(task) = at(cr)
  /\ Prepared =>
       /\ wpc = "run" => task = cr
       /\ wpc = "destroy" /\ Distance(cr, pw) < Capacity => Fetch(at(Previous)) = task
       /\ \A v \in Index : Queued(v) =>
            Fetch(at(v)) = v \/ UnderConstruction(v) \/ v \in lost
       /\ wpc = "dead" => UnderConstruction(cr) \/ cr \in lost

(* The worker sleeps on a queue that is not empty, with nobody about to    *)
(* wake it, only after a push counted while its own increment of widx_ or  *)
(* the worker's of ridx_ was still in a store buffer: push posts whenever  *)
(* it finds its task first in the queue, and no wake-up is lost otherwise. *)
WakeupLostOnlyToStoreBuffers ==
  wpc = "wait" /\ sema = 0 /\ ppc = "idle" /\ pbuf = <<>> /\ cr # widx => missed

(* A queued task gets its turn, unless an earlier one stopped the thread,  *)
(* the process died, or a push counted in that window.                     *)
QueuedTaskGetsItsTurn ==
  \A i \in Index : cr = i /\ widx # i ~> cr # i \/ wpc \in {"stopped", "gone", "dead"} \/ missed
=============================================================================
