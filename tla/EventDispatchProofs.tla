------------------------ MODULE EventDispatchProofs ------------------------
(***************************************************************************)
(* For any number of listeners and any size of the events array: run_once  *)
(* calls a listener that is gone only when an IO callback destroyed it in  *)
(* the middle of its batch, epoll's ready list names registered listeners  *)
(* only, and no edge is lost except to an exception.                       *)
(***************************************************************************)
EXTENDS EventDispatch, SequenceTheorems, TLAPS

-----------------------------------------------------------------------------
(* The ready list. *)

(* No element occurs twice. *)
Once(s) == \A i, j \in 1 .. Len(s) : s[i] = s[j] => i = j

LEMMA FunctionIsSeq ==
  ASSUME NEW S, NEW n \in Nat, NEW f \in [1 .. n -> S]
  PROVE  f \in Seq(S)
BY SeqDef

(* epoll queues a socket at the end of the list. *)
LEMMA AppendOnce ==
  ASSUME NEW S, NEW s \in Seq(S), NEW e \in S, Once(s), ~Contains(s, e)
  PROVE  /\ Append(s, e) \in Seq(S)
         /\ Once(Append(s, e))
         /\ \A x : Contains(Append(s, e), x) <=> (Contains(s, x) \/ x = e)
<1>1. /\ Append(s, e) \in Seq(S)
      /\ Len(Append(s, e)) = Len(s) + 1 /\ Len(s) \in Nat
      /\ \A i \in 1 .. Len(s) : Append(s, e)[i] = s[i]
      /\ Append(s, e)[Len(s) + 1] = e
  BY AppendProperties
<1>2. Once(Append(s, e))
  BY <1>1 DEF Once, Contains
<1>3. ASSUME NEW x PROVE Contains(Append(s, e), x) <=> (Contains(s, x) \/ x = e)
  BY <1>1 DEF Contains
<1> QED BY <1>1, <1>2, <1>3

(* What is left when epoll forgets a socket, or hands out the first n. *)
LEMMA RemoveAtProperties ==
  ASSUME NEW S, NEW s \in Seq(S), NEW k \in 1 .. Len(s)
  PROVE  /\ RemoveAt(s, k) \in Seq(S)
         /\ Len(RemoveAt(s, k)) = Len(s) - 1
         /\ \A i \in 1 .. Len(s) - 1 : RemoveAt(s, k)[i] = IF i < k THEN s[i] ELSE s[i + 1]
<1> DEFINE a == SubSeq(s, 1, k - 1)
           b == SubSeq(s, k + 1, Len(s))
<1>1. Len(s) \in Nat /\ \A i \in 1 .. Len(s) : s[i] \in S
  BY LenProperties, ElementOfSeq
<1>2. /\ a \in Seq(S) /\ Len(a) = k - 1
      /\ \A i \in 1 .. k - 1 : a[i] = s[i]
  BY <1>1, SubSeqProperties
<1>3. /\ b \in Seq(S) /\ Len(b) = Len(s) - k
      /\ \A i \in 1 .. Len(s) - k : b[i] = s[k + i]
  <2>1. \A i \in k + 1 .. Len(s) : s[i] \in S
    BY <1>1
  <2>2. /\ b \in Seq(S)
        /\ Len(b) = IF k + 1 <= Len(s) THEN Len(s) - (k + 1) + 1 ELSE 0
        /\ \A i \in 1 .. Len(s) - (k + 1) + 1 : b[i] = s[(k + 1) + i - 1]
    BY <1>1, <2>1, SubSeqProperties
  <2> QED BY <1>1, <2>2
<1> DEFINE c == a \o b
<1>4. /\ c \in Seq(S)
      /\ Len(c) = Len(a) + Len(b)
      /\ \A i \in 1 .. Len(a) + Len(b) : c[i] = IF i <= Len(a) THEN a[i] ELSE b[i - Len(a)]
  BY <1>2, <1>3, ConcatProperties
<1>5. RemoveAt(s, k) = c
  BY DEF RemoveAt
<1> HIDE DEF a, b, c
<1>6. ASSUME NEW i \in 1 .. Len(s) - 1
      PROVE  c[i] = IF i < k THEN s[i] ELSE s[i + 1]
  <2>1. k \in Int /\ i \in Int /\ k <= Len(s)
    BY <1>1
  <2>2. c[i] = IF i <= k - 1 THEN a[i] ELSE b[i - (k - 1)]
    BY <1>1, <1>2, <1>3, <1>4, <2>1
  <2>3. CASE i < k
    BY <1>2, <2>1, <2>2, <2>3
  <2>4. CASE ~(i < k)
    <3>1. i - (k - 1) \in 1 .. Len(s) - k /\ k + (i - (k - 1)) = i + 1
      BY <1>1, <2>1, <2>4
    <3>2. b[i - (k - 1)] = s[k + (i - (k - 1))]
      BY <1>3, <3>1
    <3>3. c[i] = b[i - (k - 1)]
      BY <2>1, <2>2, <2>4
    <3> QED BY <2>4, <3>1, <3>2, <3>3
  <2> QED BY <2>3, <2>4
<1>7. Len(c) = Len(s) - 1
  BY <1>1, <1>2, <1>3, <1>4
<1> QED BY <1>4, <1>5, <1>6, <1>7

LEMMA RemoveFirstOnce ==
  ASSUME NEW S, NEW s \in Seq(S), NEW e, Once(s)
  PROVE  /\ RemoveFirst(s, e) \in Seq(S)
         /\ Once(RemoveFirst(s, e))
         /\ \A x : Contains(RemoveFirst(s, e), x) <=> (Contains(s, x) /\ x # e)
<1>1. CASE ~Contains(s, e)
  <2>1. RemoveFirst(s, e) = s
    BY <1>1 DEF RemoveFirst, Contains
  <2> QED BY <1>1, <2>1
<1>2. CASE Contains(s, e)
  <2>1. PICK k \in 1 .. Len(s) : s[k] = e
    BY <1>2 DEF Contains
  <2>2. {i \in 1 .. Len(s) : s[i] = e} = {k}
    BY <2>1 DEF Once
  <2>3. Min({k}) = k
    <3>1. k \in Int BY LenProperties
    <3> QED BY <3>1 DEF Min
  <2>4. RemoveFirst(s, e) = RemoveAt(s, k)
    BY <2>1, <2>2, <2>3 DEF RemoveFirst, SelectInSeq
  <2> DEFINE t == RemoveAt(s, k)
  <2>5. /\ t \in Seq(S) /\ Len(t) = Len(s) - 1 /\ Len(s) \in Nat
        /\ \A i \in 1 .. Len(s) - 1 : t[i] = IF i < k THEN s[i] ELSE s[i + 1]
    BY RemoveAtProperties, LenProperties
  <2> HIDE DEF t
  <2>6. Once(t)
    BY <2>5 DEF Once
  <2>7. ASSUME NEW x, Contains(t, x) PROVE Contains(s, x) /\ x # e
    BY <2>1, <2>5, <2>7 DEF Contains, Once
  <2>8. ASSUME NEW x, Contains(s, x), x # e PROVE Contains(t, x)
    <3>1. PICK j \in 1 .. Len(s) : s[j] = x
      BY <2>8 DEF Contains
    <3>2. CASE j < k
      BY <2>5, <3>1, <3>2 DEF Contains
    <3>3. CASE j > k
      <4>1. j - 1 \in 1 .. Len(t) /\ t[j - 1] = x
        BY <2>5, <3>1, <3>3
      <4> QED BY <4>1 DEF Contains
    <3> QED BY <2>1, <2>5, <2>8, <3>1, <3>2, <3>3
  <2> QED BY <2>4, <2>5, <2>6, <2>7, <2>8 DEF t
<1> QED BY <1>1, <1>2

-----------------------------------------------------------------------------
(* The inductive invariant. *)

(* The batch exists only while run_once works on it, and a callback runs   *)
(* on its first entry.                                                     *)
BatchInHand ==
  /\ batch # <<>> => at \in {"next", "dead"} \/ InCallback
  /\ InCallback => batch # <<>>

(* Every call that run_once still has to make is to a listener that lives  *)
(* or that an IO callback of this batch destroyed.                         *)
CallsSound ==
  /\ \A i \in 1 .. Len(batch) : ToCall(i) => batch[i].listener \in alive \cup orphans
  /\ at = "dead" => Current \in orphans

(* Only listeners that exist are registered or owed a call. *)
OnlyLiveRegistered ==
  /\ \A l \in Listeners : Registered(l) => l \in alive
  /\ owed \subseteq alive

(* What the ready list names, without its positions. *)
Fresh == \A l \in Listeners : Contains(rdlist, l) => l \in alive /\ Registered(l)

(* l is in a part of the batch that is still to be called. *)
InBatch(l) ==
  \E i \in 1 .. Len(batch) : batch[i].listener = l /\ (InCallback => i # 1)

(* EdgesAreKept is not inductive: the entry whose callback runs is in the  *)
(* batch but is dropped when the callback returns, so an edge that arrives *)
(* meanwhile must be in the ready list.                                    *)
Kept == \A l \in owed \ dropped : Contains(rdlist, l) \/ InBatch(l)

DispatchIInv ==
  /\ TypeOK
  /\ Once(rdlist) /\ Fresh
  /\ CallsSound
  /\ BatchInHand /\ OnlyLiveRegistered
  /\ Kept

LEMMA InitIInv == Init => DispatchIInv
<1> SUFFICES ASSUME Init PROVE DispatchIInv
  OBVIOUS
<1>1. /\ Len(<<>>) = 0
      /\ <<>> \in Seq(Listeners)
      /\ <<>> \in Seq([listener : Listeners, events : SUBSET Events])
  BY EmptySeq
<1> QED
  BY <1>1 DEF Init, DispatchIInv, TypeOK, Once, Fresh, Contains, CallsSound, Current,
              BatchInHand, InCallback, Events, OnlyLiveRegistered, Registered, Kept

(* A socket that becomes ready. *)
LEMMA ReadyKeeps ==
  ASSUME DispatchIInv, NEW l \in Listeners, ~Contains(rdlist, l), Ready(l),
         l \in alive, interest'[l] # {}, interest' \in [Listeners -> SUBSET Events],
         \A k \in Listeners : k # l => interest'[k] = interest[k],
         UNCHANGED <<at, batch, alive, orphans>>
  PROVE  DispatchIInv'
<1>1. /\ rdlist' \in Seq(Listeners)
      /\ Once(rdlist')
      /\ \A x : Contains(rdlist', x) <=> (Contains(rdlist, x) \/ x = l)
  BY AppendOnce DEF Ready, DispatchIInv, TypeOK
<1>2. TypeOK'
  BY <1>1 DEF DispatchIInv, TypeOK, Ready
<1>3. Once(rdlist)' /\ Fresh'
  BY <1>1 DEF DispatchIInv, TypeOK, Once, Fresh, Contains, Registered
<1>4. CallsSound' /\ BatchInHand'
  BY DEF DispatchIInv, CallsSound, ToCall, Current, BatchInHand, InCallback
<1>5. OnlyLiveRegistered'
  BY DEF DispatchIInv, OnlyLiveRegistered, Registered, Ready
<1>6. Kept'
  <2> SUFFICES ASSUME NEW k \in owed' \ dropped' PROVE Contains(rdlist, k)' \/ InBatch(k)'
    BY DEF Kept
  <2>1. InBatch(k)' <=> InBatch(k)
    BY DEF InBatch, InCallback
  <2>2. k = l \/ k \in owed \ dropped
    BY DEF Ready
  <2>3. Contains(rdlist, k)' <=> (Contains(rdlist, k) \/ k = l)
    BY <1>1 DEF Contains
  <2> QED BY <2>1, <2>2, <2>3 DEF DispatchIInv, Kept
<1> QED BY <1>2, <1>3, <1>4, <1>5, <1>6 DEF DispatchIInv

(* epoll forgets a listener, which may be destroyed with its socket.       *)
LEMMA ForgetKeeps ==
  ASSUME DispatchIInv, NEW l \in Listeners, Forget(l),
         \/ UNCHANGED <<alive, orphans>>
         \/ /\ alive' = alive \ {l}
            /\ orphans' = IF Awaited(l) THEN orphans \cup {l} ELSE orphans,
         UNCHANGED <<at, batch, dropped>>
  PROVE  DispatchIInv'
<1>1. /\ rdlist' \in Seq(Listeners)
      /\ Once(rdlist')
      /\ \A x : Contains(rdlist', x) <=> (Contains(rdlist, x) /\ x # l)
  BY RemoveFirstOnce DEF Forget, DispatchIInv, TypeOK
<1>2. TypeOK'
  BY <1>1 DEF DispatchIInv, TypeOK, Forget
<1>3. Once(rdlist)' /\ Fresh'
  BY <1>1 DEF DispatchIInv, TypeOK, Once, Fresh, Contains, Registered, Forget
<1>4. CallsSound'
  <2>1. \A i : ToCall(i)' <=> ToCall(i)
    BY DEF ToCall, InCallback
  <2>2. ASSUME NEW i \in 1 .. Len(batch), ToCall(i)
        PROVE  batch[i].listener \in alive' \cup orphans'
    BY <2>2 DEF DispatchIInv, CallsSound, Awaited
  <2>3. orphans \subseteq orphans'
    OBVIOUS
  <2> QED BY <2>1, <2>2, <2>3 DEF DispatchIInv, CallsSound, Current
<1>5. BatchInHand'
  BY DEF DispatchIInv, BatchInHand, InCallback
<1>6. OnlyLiveRegistered'
  BY DEF DispatchIInv, TypeOK, OnlyLiveRegistered, Registered, Forget
<1>7. Kept'
  <2> SUFFICES ASSUME NEW k \in owed' \ dropped' PROVE Contains(rdlist, k)' \/ InBatch(k)'
    BY DEF Kept
  <2>1. InBatch(k)' <=> InBatch(k)
    BY DEF InBatch, InCallback
  <2>2. k # l /\ k \in owed \ dropped
    BY DEF Forget
  <2>3. Contains(rdlist, k)' <=> Contains(rdlist, k)
    BY <1>1, <2>2 DEF Contains
  <2> QED BY <2>1, <2>2, <2>3 DEF DispatchIInv, Kept
<1> QED BY <1>2, <1>3, <1>4, <1>5, <1>6, <1>7 DEF DispatchIInv

(* epoll_wait moves the first entries of the ready list into the batch. *)
LEMMA WaitEventsKeeps == DispatchIInv /\ WaitEvents => DispatchIInv'
<1> SUFFICES ASSUME DispatchIInv, WaitEvents PROVE DispatchIInv'
  OBVIOUS
<1> DEFINE m == Len(rdlist)
           n == IF Len(rdlist) < MaxEvents THEN Len(rdlist) ELSE MaxEvents
           Entry == [listener : Listeners, events : SUBSET Events]
<1>1. m \in Nat /\ n \in Nat /\ n <= m
  BY ConstantsAssumption, LenProperties DEF DispatchIInv, TypeOK
<1>2. PICK ready \in [1 .. n -> (SUBSET Events) \ {{}}] :
        batch' = [i \in 1 .. n |-> [listener |-> rdlist[i], events |-> ready[i]]]
  BY DEF WaitEvents, Batches
<1>3. \A i \in 1 .. m : rdlist[i] \in Listeners
  BY ElementOfSeq DEF DispatchIInv, TypeOK
<1>4. rdlist' = SubSeq(rdlist, n + 1, m)
  BY DEF WaitEvents, Rest
<1> HIDE DEF n
<1>5. /\ batch' \in Seq(Entry) /\ Len(batch') = n
      /\ \A i \in 1 .. n : batch'[i].listener = rdlist[i]
  <2>1. \A i \in 1 .. n : [listener |-> rdlist[i], events |-> ready[i]] \in Entry
    BY <1>1, <1>3
  <2>2. batch' \in [1 .. n -> Entry]
    BY <1>2, <2>1
  <2>3. batch' \in Seq(Entry)
    BY <1>1, <2>2, FunctionIsSeq
  <2> QED BY <1>1, <1>2, <2>2, <2>3
<1>6. /\ rdlist' \in Seq(Listeners) /\ Len(rdlist') = m - n
      /\ \A i \in 1 .. m - n : rdlist'[i] = rdlist[n + i]
  <2>1. \A i \in n + 1 .. m : rdlist[i] \in Listeners
    BY <1>1, <1>3
  <2>2. /\ rdlist' \in Seq(Listeners)
        /\ Len(rdlist') = IF n + 1 <= m THEN m - (n + 1) + 1 ELSE 0
        /\ \A i \in 1 .. m - (n + 1) + 1 : rdlist'[i] = rdlist[(n + 1) + i - 1]
    BY <1>1, <1>4, <2>1, SubSeqProperties
  <2> QED BY <1>1, <2>2
<1> HIDE DEF m
<1>7. TypeOK'
  BY <1>5, <1>6 DEF DispatchIInv, TypeOK, WaitEvents
<1>8. Once(rdlist)'
  <2> SUFFICES ASSUME NEW i \in 1 .. m - n, NEW j \in 1 .. m - n, rdlist'[i] = rdlist'[j]
               PROVE  i = j
    BY <1>6 DEF Once
  <2>1. n + i \in 1 .. m /\ n + j \in 1 .. m /\ rdlist[n + i] = rdlist[n + j]
    BY <1>1, <1>6
  <2>2. n + i = n + j
    BY <2>1 DEF DispatchIInv, Once, m
  <2> QED BY <1>1, <2>2
<1>9. Fresh'
  <2> SUFFICES ASSUME NEW l \in Listeners, Contains(rdlist, l)'
               PROVE  l \in alive /\ Registered(l)
    BY DEF Fresh, WaitEvents, Registered
  <2>1. PICK i \in 1 .. m - n : rdlist'[i] = l
    BY <1>6 DEF Contains
  <2>2. n + i \in 1 .. m /\ rdlist[n + i] = l
    BY <1>1, <1>6, <2>1
  <2>3. Contains(rdlist, l)
    BY <2>2 DEF Contains, m
  <2> QED BY <2>3 DEF DispatchIInv, Fresh
<1>10. CallsSound'
  <2> SUFFICES ASSUME NEW i \in 1 .. n PROVE rdlist[i] \in alive
    BY <1>5 DEF CallsSound, WaitEvents
  <2>1. rdlist[i] \in Listeners /\ i \in 1 .. m
    BY <1>1, <1>3
  <2>2. Contains(rdlist, rdlist[i])
    BY <2>1 DEF Contains, m
  <2> QED BY <2>1, <2>2 DEF DispatchIInv, Fresh
<1>11. BatchInHand' /\ OnlyLiveRegistered'
  BY DEF DispatchIInv, BatchInHand, InCallback, Events, OnlyLiveRegistered, Registered, WaitEvents
<1>12. Kept'
  <2> SUFFICES ASSUME NEW l \in owed \ dropped PROVE Contains(rdlist, l)' \/ InBatch(l)'
    BY DEF Kept, WaitEvents
  <2>1. batch = <<>>
    BY DEF WaitEvents, DispatchIInv, BatchInHand, InCallback, Events
  <2>2. ~InBatch(l)
    BY <2>1, EmptySeq DEF InBatch
  <2>3. PICK i \in 1 .. m : rdlist[i] = l
    BY <2>2 DEF DispatchIInv, Kept, Contains, m
  <2>4. CASE i <= n
    <3>1. i \in 1 .. n /\ batch'[i].listener = l
      BY <1>1, <1>5, <2>3, <2>4
    <3>2. ~InCallback'
      BY DEF WaitEvents, InCallback, Events
    <3> QED BY <1>5, <3>1, <3>2 DEF InBatch
  <2>5. CASE i > n
    <3>1. i - n \in 1 .. m - n /\ n + (i - n) = i
      BY <1>1, <2>5
    <3>2. rdlist'[i - n] = l
      BY <1>6, <2>3, <3>1
    <3> QED BY <1>6, <3>1, <3>2 DEF Contains
  <2> QED BY <1>1, <2>4, <2>5
<1> QED BY <1>7, <1>8, <1>9, <1>10, <1>11, <1>12 DEF DispatchIInv

(* The loop over the batch, up to a call through a pointer to nothing. *)
LEMMA DiesKeeps ==
  ASSUME DispatchIInv, Dies, batch # <<>>, ToCall(1), Current \notin alive
  PROVE  DispatchIInv'
<1>1. Head(batch) = batch[1] /\ Len(batch) \in Nat \ {0}
  BY EmptySeq DEF DispatchIInv, TypeOK
<1>2. at' = "dead" /\ UNCHANGED <<interest, rdlist, batch, alive, orphans, owed, dropped>>
  BY DEF Dies
<1>3. ~InCallback'
  BY <1>2 DEF InCallback, Events
<1>4. TypeOK' /\ BatchInHand' /\ OnlyLiveRegistered' /\ Once(rdlist)' /\ Fresh'
  BY <1>2, <1>3 DEF DispatchIInv, TypeOK, BatchInHand, OnlyLiveRegistered, Registered, Once, Fresh,
                    Contains
<1>5. Current \in orphans
  BY <1>1 DEF DispatchIInv, CallsSound, Current
<1>6. CallsSound'
  <2>1. ASSUME NEW i \in 1 .. Len(batch) PROVE batch[i].listener \in alive \cup orphans
    BY <1>1 DEF DispatchIInv, CallsSound, ToCall
  <2> QED BY <1>2, <1>5, <2>1 DEF CallsSound, Current
<1>7. Kept'
  BY <1>2, <1>3 DEF DispatchIInv, Kept, InBatch, Contains
<1> QED BY <1>4, <1>6, <1>7 DEF DispatchIInv

LEMMA DispatchEventKeeps == DispatchIInv /\ DispatchEvent => DispatchIInv'
<1> SUFFICES ASSUME DispatchIInv, DispatchEvent PROVE DispatchIInv'
  OBVIOUS
<1>0. CASE Current \notin alive
  <2>1. ToCall(1)
    BY DEF DispatchEvent, ToCall, InCallback, Events
  <2> QED BY <1>0, <2>1, DiesKeeps DEF DispatchEvent
<1> SUFFICES ASSUME Current \in alive PROVE DispatchIInv'
  BY <1>0
<1>1. Head(batch) = batch[1] /\ Len(batch) \in Nat \ {0}
  BY EmptySeq DEF DispatchEvent, DispatchIInv, TypeOK
<1>2. at' \in Events /\ at = "next" /\ ~InCallback
  BY DEF DispatchEvent, Events, InCallback
<1>3. TypeOK' /\ BatchInHand' /\ OnlyLiveRegistered'
  BY <1>2 DEF DispatchIInv, TypeOK, DispatchEvent, BatchInHand, InCallback, OnlyLiveRegistered,
              Registered
<1>4. Once(rdlist)' /\ Fresh' /\ CallsSound'
  <2>1. \A i \in 1 .. Len(batch) : batch[i].listener \in alive \cup orphans
    BY <1>2 DEF DispatchIInv, CallsSound, ToCall
  <2>2. at' # "dead"
    BY <1>2 DEF Events
  <2> QED BY <2>1, <2>2 DEF DispatchIInv, DispatchEvent, Once, Fresh, Contains, CallsSound, Registered
<1>5. Kept'
  <2> SUFFICES ASSUME NEW l \in owed' \ dropped' PROVE Contains(rdlist, l)' \/ InBatch(l)'
    BY DEF Kept
  <2>1. l # batch[1].listener /\ l \in owed \ dropped
    BY <1>1 DEF DispatchEvent, Current
  <2>2. CASE Contains(rdlist, l)
    BY <2>2 DEF Contains, DispatchEvent
  <2>3. CASE InBatch(l)
    BY <2>1, <2>3 DEF InBatch, DispatchEvent
  <2> QED BY <2>1, <2>2, <2>3 DEF DispatchIInv, Kept
<1> QED BY <1>3, <1>4, <1>5 DEF DispatchIInv

LEMMA CallbackReturnsKeeps == DispatchIInv /\ CallbackReturns => DispatchIInv'
<1> SUFFICES ASSUME DispatchIInv, CallbackReturns PROVE DispatchIInv'
  OBVIOUS
<1> DEFINE Entry == [listener : Listeners, events : SUBSET Events]
<1>1. batch \in Seq(Entry) /\ batch # <<>>
  BY DEF DispatchIInv, TypeOK, BatchInHand, CallbackReturns
<1>0. CASE at = "read" /\ "write" \in Head(batch).events /\ Current \notin alive
  <2>1. Head(batch) = batch[1]
    BY <1>1
  <2>2. ToCall(1)
    BY <1>0, <2>1 DEF ToCall
  <2> QED BY <1>0, <1>1, <2>2, DiesKeeps DEF CallbackReturns
<1> SUFFICES ASSUME ~(at = "read" /\ "write" \in Head(batch).events /\ Current \notin alive)
             PROVE  DispatchIInv'
  BY <1>0
<1>2. Once(rdlist)' /\ Fresh' /\ OnlyLiveRegistered'
  BY DEF DispatchIInv, CallbackReturns, Once, Fresh, Contains, OnlyLiveRegistered, Registered
<1>3. CASE at = "read" /\ "write" \in Head(batch).events
  <2>0. at' = "write" /\ UNCHANGED <<interest, rdlist, batch, alive, orphans, owed, dropped>>
    BY <1>3 DEF CallbackReturns
  <2>1. TypeOK' /\ BatchInHand'
    BY <1>1, <2>0 DEF DispatchIInv, TypeOK, BatchInHand, InCallback, Events
  <2>3. CallsSound'
    <3>1. \A i \in 1 .. Len(batch) : ToCall(i)' => ToCall(i)
      BY <2>0, <1>3 DEF ToCall, InCallback, Events
    <3> QED BY <2>0, <3>1 DEF DispatchIInv, CallsSound
  <2>2. Kept'
    BY <1>3, <2>0 DEF DispatchIInv, Kept, InBatch, InCallback, Events, Contains
  <2> QED BY <1>2, <2>1, <2>2, <2>3 DEF DispatchIInv
<1>4. CASE ~(at = "read" /\ "write" \in Head(batch).events)
  <2>0. /\ at' = "next" /\ batch' = Tail(batch)
        /\ UNCHANGED <<interest, rdlist, alive, orphans, owed, dropped>>
    BY <1>4 DEF CallbackReturns, Advance
  <2>1. /\ batch' \in Seq(Entry) /\ Len(batch') = Len(batch) - 1
        /\ \A i \in 1 .. Len(batch') : batch'[i] = batch[i + 1]
        /\ Len(batch) \in Nat \ {0}
    BY <1>1, <2>0, HeadTailProperties, EmptySeq
  <2>2. TypeOK' /\ BatchInHand'
    BY <2>0, <2>1 DEF DispatchIInv, TypeOK, BatchInHand, InCallback, Events
  <2>3. CallsSound'
    <3>1. ASSUME NEW i \in 1 .. Len(batch') PROVE batch'[i].listener \in alive \cup orphans
      <4>1. i + 1 \in 1 .. Len(batch) /\ batch'[i] = batch[i + 1] /\ ToCall(i + 1)
        BY <2>1 DEF ToCall
      <4> QED BY <4>1 DEF DispatchIInv, CallsSound
    <3> QED BY <2>0, <3>1 DEF CallsSound
  <2>4. Kept'
    <3> SUFFICES ASSUME NEW l \in owed \ dropped PROVE Contains(rdlist, l)' \/ InBatch(l)'
      BY DEF Kept, CallbackReturns
    <3>1. CASE Contains(rdlist, l)
      BY <3>1 DEF Contains, CallbackReturns
    <3>2. CASE InBatch(l)
      <4>1. PICK i \in 1 .. Len(batch) : batch[i].listener = l /\ i # 1
        BY <3>2 DEF InBatch, CallbackReturns
      <4>2. i - 1 \in 1 .. Len(batch') /\ batch'[i - 1] = batch[i]
        BY <2>1, <4>1
      <4>3. ~InCallback'
        BY <2>0 DEF InCallback, Events
      <4> QED BY <4>1, <4>2, <4>3 DEF InBatch
    <3> QED BY <3>1, <3>2 DEF DispatchIInv, Kept
  <2> QED BY <1>2, <2>2, <2>3, <2>4 DEF DispatchIInv
<1> QED BY <1>3, <1>4

LEMMA CallbackThrowsKeeps == DispatchIInv /\ CallbackThrows => DispatchIInv'
<1> SUFFICES ASSUME DispatchIInv, CallbackThrows PROVE DispatchIInv'
  OBVIOUS
<1>1. /\ batch' = <<>> /\ Len(batch') = 0
      /\ batch' \in Seq([listener : Listeners, events : SUBSET Events])
  BY EmptySeq DEF CallbackThrows
<1>2. \A i \in 1 .. Len(batch) : batch[i].listener \in Listeners
  <2>1. ASSUME NEW i \in 1 .. Len(batch)
        PROVE  batch[i] \in [listener : Listeners, events : SUBSET Events]
    BY ElementOfSeq DEF DispatchIInv, TypeOK
  <2> QED BY <2>1
<1>3. TypeOK' /\ BatchInHand' /\ OnlyLiveRegistered'
  BY <1>1, <1>2 DEF DispatchIInv, TypeOK, CallbackThrows, BatchInHand, InCallback, Events,
                    OnlyLiveRegistered, Registered
<1>4. Once(rdlist)' /\ Fresh' /\ CallsSound'
  BY <1>1 DEF DispatchIInv, CallbackThrows, Once, Fresh, Contains, CallsSound, Registered
<1>5. Kept'
  <2> SUFFICES ASSUME NEW l \in owed' \ dropped' PROVE Contains(rdlist, l)'
    BY DEF Kept
  <2>1. l \in owed \ dropped /\ ~InBatch(l)
    BY DEF CallbackThrows, InBatch
  <2> QED BY <2>1 DEF DispatchIInv, Kept, CallbackThrows, Contains
<1> QED BY <1>3, <1>4, <1>5 DEF DispatchIInv

(* The steps that move run_once without touching a list or a batch. *)
LEMMA ControlKeeps ==
  ASSUME DispatchIInv, batch = <<>>, at' \in {"loop", "wait", "timeout"},
         UNCHANGED <<interest, rdlist, batch, alive, owed, dropped>>, orphans' \subseteq orphans
  PROVE  DispatchIInv'
<1>1. Len(batch) = 0
  BY EmptySeq
<1> QED
  BY <1>1 DEF DispatchIInv, TypeOK, Once, Fresh, Contains, CallsSound, BatchInHand,
              InCallback, Events, OnlyLiveRegistered, Registered, Kept, InBatch

LEMMA NextIInv == DispatchIInv /\ [Next]_vars => DispatchIInv'
<1> SUFFICES ASSUME DispatchIInv, [Next]_vars PROVE DispatchIInv'
  OBVIOUS
<1>1. ASSUME NEW l \in Listeners, NEW event \in {{"read"}, {"write"}, Events}, RegisterIo(l, event)
      PROVE  DispatchIInv'
  <2>1. /\ ~Contains(rdlist, l) /\ l \in alive
        /\ interest'[l] # {} /\ interest' \in [Listeners -> SUBSET Events]
        /\ \A k \in Listeners : k # l => interest'[k] = interest[k]
    BY <1>1 DEF RegisterIo, DispatchIInv, TypeOK, Fresh, Events
  <2>2. CASE Ready(l)
    BY <1>1, <2>1, <2>2, ReadyKeeps DEF RegisterIo
  <2>3. CASE UNCHANGED <<rdlist, owed, dropped>>
    BY <1>1, <2>1, <2>3
       DEF RegisterIo, DispatchIInv, TypeOK, Once, Fresh, Contains, CallsSound, ToCall, Current, BatchInHand,
           InCallback, OnlyLiveRegistered, Registered, Kept, InBatch
  <2> QED BY <1>1, <2>2, <2>3 DEF RegisterIo
<1>2. ASSUME NEW l \in Listeners, UnregisterIo(l) PROVE DispatchIInv'
  BY <1>2, ForgetKeeps DEF UnregisterIo
<1>3. ASSUME NEW l \in Listeners, Create(l) PROVE DispatchIInv'
  BY <1>3 DEF Create, DispatchIInv, TypeOK, Once, Fresh, Contains, CallsSound, ToCall, Current,
              BatchInHand, InCallback, OnlyLiveRegistered, Registered, Kept, InBatch
<1>4. ASSUME NEW l \in Listeners, Destroy(l) PROVE DispatchIInv'
  BY <1>4, ForgetKeeps DEF Destroy
<1>6. ASSUME NEW l \in Listeners, Edge(l) PROVE DispatchIInv'
  <2>1. l \in alive /\ interest'[l] # {} /\ interest' \in [Listeners -> SUBSET Events]
    BY <1>6 DEF Edge, Registered, DispatchIInv, TypeOK, OnlyLiveRegistered
  <2> QED BY <1>6, <2>1, ReadyKeeps DEF Edge
<1>7. CASE OnLoop \/ WaitTimesOut \/ OnTimeout \/ WaitInterrupted \/ BatchDone
  <2>1. batch = <<>>
    BY <1>7 DEF OnLoop, WaitTimesOut, OnTimeout, WaitInterrupted, BatchDone, DispatchIInv,
                BatchInHand, InCallback, Events
  <2> QED
    BY <1>7, <2>1, ControlKeeps DEF OnLoop, WaitTimesOut, OnTimeout, WaitInterrupted, BatchDone
<1>8. CASE WaitEvents
  BY <1>8, WaitEventsKeeps
<1>9. CASE DispatchEvent
  BY <1>9, DispatchEventKeeps
<1>10. CASE CallbackReturns
  BY <1>10, CallbackReturnsKeeps
<1>11. CASE CallbackThrows
  BY <1>11, CallbackThrowsKeeps
<1>12. CASE UNCHANGED vars
  BY <1>12 DEF vars, DispatchIInv, TypeOK, Once, Fresh, Contains, CallsSound, ToCall, Current, BatchInHand,
               InCallback, OnlyLiveRegistered, Registered, Kept, InBatch
<1> QED
  BY <1>1, <1>2, <1>3, <1>4, <1>6, <1>7, <1>8, <1>9, <1>10, <1>11, <1>12
     DEF Next, Client, Dispatch

LEMMA AlwaysIInv == Spec => []DispatchIInv
<1> QED BY InitIInv, NextIInv, PTL DEF Spec

-----------------------------------------------------------------------------
(* For any number of listeners and any size of the events array, epoll's   *)
(* ready list names only listeners that exist and are registered, whatever *)
(* the callbacks of run_once register, unregister, destroy or throw.       *)
THEOREM ReadyListStaysFresh == Spec => []DispatchInv
<1>1. DispatchIInv => DispatchInv
  <2> SUFFICES ASSUME DispatchIInv, NEW i \in 1 .. Len(rdlist)
               PROVE  rdlist[i] \in alive /\ Registered(rdlist[i])
    BY DEF DispatchIInv, DispatchInv, ReadyListIsFresh
  <2>1. rdlist[i] \in Listeners
    BY ElementOfSeq DEF DispatchIInv, TypeOK
  <2>2. Contains(rdlist, rdlist[i])
    BY DEF Contains
  <2> QED BY <2>1, <2>2 DEF DispatchIInv, Fresh
<1> QED BY <1>1, AlwaysIInv, PTL

(* The only way run_once comes to call a listener that no longer exists is *)
(* an IO callback that destroys one in the middle of the batch, when it is *)
(* still to be called: its on_read its own, with on_write to come, or that *)
(* of an earlier event.  Any number of events, exceptions, registrations   *)
(* and destructions elsewhere come to no call through a stale pointer.     *)
THEOREM OnlyMidBatchDestructionIsFatal == Spec => []CallsLiveListeners
<1>1. DispatchIInv => CallsLiveListeners
  BY DEF DispatchIInv, CallsSound, CallsLiveListeners
<1> QED BY <1>1, AlwaysIInv, PTL

(* However many sockets are ready at once, an edge that was not dispatched *)
(* is still in the ready list or in the batch: only an exception loses it. *)
THEOREM RunOnceKeepsEdges == Spec => []EdgesAreKept
<1>1. DispatchIInv => EdgesAreKept
  BY DEF DispatchIInv, Kept, InBatch, EdgesAreKept
<1> QED BY <1>1, AlwaysIInv, PTL
=============================================================================
