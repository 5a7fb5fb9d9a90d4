-------------------------- MODULE EventLoopProofs --------------------------
(***************************************************************************)
(* For every capacity of the rings and of the socket, every descriptor     *)
(* limit and every amount of traffic: the connection and the server under  *)
(* run_once keep to their limits and leave no work behind.                 *)
(***************************************************************************)
EXTENDS EventLoop, FiniteSetTheorems, SequenceTheorems, TLAPS

-----------------------------------------------------------------------------
(* The inductive invariant. *)

Events == {"read", "write"}

(* The connection by itself.  That on_close comes twice at most needs that *)
(* nothing follows on_write in an event, and that a connection without a   *)
(* registration is one that was closed or is not made yet.                 *)
ConnFlags ==
  /\ eof \in BOOLEAN /\ reset \in BOOLEAN /\ nospace \in BOOLEAN
  /\ listed \in BOOLEAN /\ (interest = {} => ~listed)

ConnCounts ==
  /\ rcvq \in 0 .. RecvSpace
  /\ sndq \in 0 .. SendSpace
  /\ rcb \in 0 .. ReadCapacity /\ wcb \in 0 .. WriteCapacity
  /\ interest \in SUBSET Events
  /\ at \in {"idle", "read", "write"}
  /\ events \subseteq {"write"} /\ (at # "read" => events = {})
  /\ closes \in 0 .. 2
  /\ at = "read" => closes = 0
  /\ closes > 1 => at = "idle"
  /\ closes > 0 => interest = {}
  /\ interest = {} /\ closes = 0 => sndq = 0 /\ at = "idle"

ConnSound == ConnFlags /\ ConnCounts

(* A full send buffer announces the room it will have: a send failed for   *)
(* want of it, or one is still to come, or an exception prevented it.      *)
RoomIsAnnounced ==
  "write" \in interest /\ sndq = SendSpace /\ "write" \notin dropped
    => nospace \/ at = "write" \/ "write" \in events

Entry ==
  [who : {"server"}, events : {{"accept"}}] \cup
  [who : {"connection"}, events : (SUBSET Events) \ {{}}]

HasEvent(e) == \E i \in 1 .. Len(batch) : e \in batch[i].events

(* The batch: each listener at most once, and only while run_once works on *)
(* it.                                                                     *)
BatchSound ==
  /\ batch \in Seq(Entry)
  /\ \A i, j \in 1 .. Len(batch) : batch[i].who = batch[j].who => i = j
  /\ batch # <<>> => phase = "next"
  /\ InBatch("connection") => Connection!Open /\ at = "idle"

LoopSound ==
  /\ phase \in {"loop", "wait", "timeout", "next"}
  /\ dropped \subseteq Events \cup {"accept"}
  /\ at # "idle" => phase = "next" /\ srvAt = "idle"
  /\ srvAt \in {"accept", "accepted"} => phase = "next"
  /\ Connection!Open \/ closes > 0 => conns > 0

(* An event that is ready is listed, being handled, or still to be handled.*)
Covered(e) == listed \/ at = e \/ e \in events \/ HasEvent(e)

Due(e) ==
  /\ e \in interest
  /\ (e = "read" /\ Connection!Readable) \/ (e = "write" /\ Connection!Writable)

WorkCovered == \A e \in Events \ dropped : Due(e) => Covered(e)

BacklogCovered ==
  backlog > 0 =>
    srvListed \/ srvAt \in {"accept", "accepted"} \/ HasEvent("accept") \/ "accept" \in dropped

(* A step leaves the connection no new work or room without announcing it. *)
WorkAnnounced == \A e \in Events : Due(e)' => listed' \/ (Due(e) /\ ~listed)

RoomKept ==
  "write" \in interest' /\ sndq' = SendSpace => nospace' \/ UNCHANGED <<interest, sndq, nospace>>

LoopIInv ==
  /\ ConnSound /\ Server!ServerOK
  /\ BatchSound /\ LoopSound
  /\ RoomIsAnnounced /\ WorkCovered /\ BacklogCovered

-----------------------------------------------------------------------------
(* The steps of the connection. *)

LEMMA NetworkSound == ConnSound /\ Connection!Network => ConnSound'
<1> SUFFICES ASSUME ConnSound, Connection!Network PROVE ConnFlags' /\ ConnCounts'
  BY DEF ConnSound
<1> USE DEF Connection!connection
<1>1. CASE Connection!PeerSends
  <2>1. ConnFlags'
    BY <1>1, Zenon DEF Connection!PeerSends, Connection!Open, ConnSound, ConnFlags
  <2>2. ConnCounts'
    BY <1>1, ConstantsAssumption DEF Connection!PeerSends, ConnSound, ConnCounts
  <2> QED BY <2>1, <2>2
<1>2. CASE Connection!PeerCloses
  <2>1. ConnFlags'
    BY <1>2, Zenon DEF Connection!PeerCloses, Connection!Open, ConnSound, ConnFlags
  <2>2. ConnCounts'
    BY <1>2 DEF Connection!PeerCloses, ConnSound, ConnCounts
  <2> QED BY <2>1, <2>2
<1>3. CASE Connection!Reset
  <2>1. ConnFlags'
    BY <1>3, Zenon DEF Connection!Reset, Connection!Open, ConnSound, ConnFlags
  <2>2. ConnCounts'
    BY <1>3, ConstantsAssumption DEF Connection!Reset, ConnSound, ConnCounts
  <2> QED BY <2>1, <2>2
<1>4. CASE Connection!PeerAcknowledges
  <2>1. ConnFlags'
    BY <1>4, Zenon DEF Connection!PeerAcknowledges, Connection!Open, ConnSound, ConnFlags
  <2>2. ConnCounts'
    BY <1>4, ConstantsAssumption DEF Connection!PeerAcknowledges, ConnSound, ConnCounts
  <2> QED BY <2>1, <2>2
<1> QED BY <1>1, <1>2, <1>3, <1>4 DEF Connection!Network

(* on_close comes in a callback, and at most on_write follows it. *)
LEMMA OnCloseSound ==
  ASSUME ConnSound, Connection!OnClose, at # "idle",
         rcb' \in 0 .. ReadCapacity, wcb' \in 0 .. WriteCapacity,
         UNCHANGED Connection!socket
  PROVE  ConnSound'
<1>1. ConnFlags'
  BY Zenon DEF Connection!OnClose, Connection!socket, ConnSound, ConnFlags
<1>2. closes' = closes + 1 /\ closes' \in 1 .. 2 /\ interest' = {}
  BY DEF Connection!OnClose, ConnSound, ConnCounts
<1>3. /\ events' = {} /\ at' \in {"idle", "write"}
      /\ at = "write" => at' = "idle"
      /\ at = "read" => closes' = 1
  BY DEF Connection!OnClose, Connection!Return, ConnSound, ConnCounts
<1>4. ConnCounts'
  BY <1>2, <1>3, ConstantsAssumption DEF ConnSound, ConnCounts, Connection!socket
<1> QED BY <1>1, <1>4 DEF ConnSound

LEMMA ReadingSound == ConnSound /\ Connection!Reading => ConnSound'
<1> SUFFICES ASSUME ConnSound, Connection!Reading PROVE ConnSound'
  OBVIOUS
<1> USE ConstantsAssumption
<1>1. CASE Connection!RecvBytes
  BY <1>1 DEF Connection!RecvBytes, Connection!Portion, Connection!Continue, ConnSound,
              ConnFlags, ConnCounts
<1>2. CASE Connection!RecvEof
  <2>1. rcb' \in 0 .. ReadCapacity /\ wcb' \in 0 .. WriteCapacity
    BY <1>2 DEF Connection!RecvEof, Connection!Consume, ConnSound, ConnFlags, ConnCounts
  <2> QED BY <1>2, <2>1, OnCloseSound DEF Connection!RecvEof
<1>3. CASE Connection!RecvAgain
  BY <1>3 DEF Connection!RecvAgain, Connection!Consume, Connection!Return, ConnSound,
              ConnFlags, ConnCounts, Connection!socket
<1>4. CASE Connection!RecvFails
  <2>1. rcb' \in 0 .. ReadCapacity /\ wcb' \in 0 .. WriteCapacity
    BY <1>4 DEF Connection!RecvFails, ConnSound, ConnFlags, ConnCounts
  <2> QED BY <1>4, <2>1, OnCloseSound DEF Connection!RecvFails
<1>5. CASE Connection!FullThenConsume
  <2>1. PICK taken \in 0 .. rcb :
          /\ rcb' = rcb - taken
          /\ IF taken = 0 THEN Connection!OnClose
             ELSE Connection!Continue /\ UNCHANGED <<listed, interest, closes>>
    BY <1>5 DEF Connection!FullThenConsume, Connection!Consume
  <2>2. rcb' \in 0 .. ReadCapacity /\ wcb' \in 0 .. WriteCapacity
    BY <1>5, <2>1 DEF Connection!FullThenConsume, ConnSound, ConnFlags, ConnCounts
  <2>3. CASE taken = 0
    BY <1>5, <2>1, <2>2, <2>3, OnCloseSound DEF Connection!FullThenConsume
  <2>4. CASE taken # 0
    BY <1>5, <2>1, <2>2, <2>4 DEF Connection!FullThenConsume, Connection!Continue, ConnSound,
                                  ConnFlags, ConnCounts, Connection!socket
  <2> QED BY <2>3, <2>4
<1> QED BY <1>1, <1>2, <1>3, <1>4, <1>5 DEF Connection!Reading

LEMMA WritingSound == ConnSound /\ Connection!Writing => ConnSound'
<1> SUFFICES ASSUME ConnSound, Connection!Writing PROVE ConnSound'
  OBVIOUS
<1> USE ConstantsAssumption
<1>1. CASE Connection!SendBytes
  BY <1>1 DEF Connection!SendBytes, Connection!Portion, Connection!Continue, ConnSound,
              ConnFlags, ConnCounts
<1>2. CASE Connection!SendAgain
  BY <1>2 DEF Connection!SendAgain, Connection!Return, ConnSound, ConnFlags, ConnCounts
<1>3. CASE Connection!SendFails
  <2>1. rcb' \in 0 .. ReadCapacity /\ wcb' \in 0 .. WriteCapacity
    BY <1>3 DEF Connection!SendFails, ConnSound, ConnFlags, ConnCounts
  <2> QED BY <1>3, <2>1, OnCloseSound DEF Connection!SendFails
<1>4. CASE Connection!EmptyThenProduce
  <2>1. PICK size \in 0 .. WriteCapacity :
          /\ wcb' = size
          /\ IF size = 0 THEN Connection!OnClose
             ELSE Connection!Continue /\ UNCHANGED <<listed, interest, closes>>
    BY <1>4 DEF Connection!EmptyThenProduce
  <2>2. rcb' \in 0 .. ReadCapacity /\ wcb' \in 0 .. WriteCapacity
    BY <1>4, <2>1 DEF Connection!EmptyThenProduce, ConnSound, ConnFlags, ConnCounts
  <2>3. CASE size = 0
    BY <1>4, <2>1, <2>2, <2>3, OnCloseSound DEF Connection!EmptyThenProduce
  <2>4. CASE size # 0
    BY <1>4, <2>1, <2>2, <2>4 DEF Connection!EmptyThenProduce, Connection!Continue, ConnSound,
                                  ConnFlags, ConnCounts, Connection!socket
  <2> QED BY <2>3, <2>4
<1> QED BY <1>1, <1>2, <1>3, <1>4 DEF Connection!Writing

LEMMA HandlerThrowsSound ==
  ConnSound /\ (Connection!HandlerThrows \/ Connection!OnCloseThrows) => ConnSound'
BY ConstantsAssumption DEF Connection!HandlerThrows, Connection!OnCloseThrows, ConnSound, ConnFlags,
   ConnCounts, Connection!socket

LEMMA RegisterSound ==
  ASSUME ConnSound, NEW event \in (SUBSET Events) \ {{}}, Connection!Register(event)
  PROVE  ConnSound'
<1>1. ConnFlags'
  BY Zenon DEF Connection!Register, Connection!socket, ConnSound, ConnFlags
<1>2. ConnCounts'
  BY DEF Connection!Register, Connection!Open, Connection!socket, ConnSound, ConnCounts
<1> QED BY <1>1, <1>2 DEF ConnSound

LEMMA DestroyedSound == Connection!Destroyed => ConnSound'
<1> SUFFICES ASSUME Connection!Destroyed PROVE ConnSound'
  OBVIOUS
<1>1. ConnFlags'
  BY Zenon DEF Connection!Destroyed, ConnFlags
<1>2. ConnCounts'
  BY ConstantsAssumption DEF Connection!Destroyed, ConnCounts
<1> QED BY <1>1, <1>2 DEF ConnSound

LEMMA StartSound ==
  ASSUME ConnSound, NEW reported \in (SUBSET Events) \ {{}}, Connection!Start(reported),
         Connection!Open
  PROVE  ConnSound'
<1>1. /\ at' = "read" \/ (at' = "write" /\ events' = {})
      /\ events' \subseteq {"write"}
  BY DEF Connection!Start, Events
<1>2. ConnFlags'
  BY DEF Connection!Start, ConnSound, ConnFlags, Connection!socket
<1>3. closes = 0 /\ interest # {}
  BY DEF Connection!Open, ConnSound, ConnCounts
<1>4. UNCHANGED <<rcvq, sndq, rcb, wcb, interest, closes>>
  BY DEF Connection!Start, Connection!socket
<1>5. ConnCounts'
  BY <1>1, <1>3, <1>4 DEF ConnSound, ConnCounts
<1> QED BY <1>2, <1>5 DEF ConnSound

-----------------------------------------------------------------------------
(* The steps of the server. *)

LEMMA ServerStepSound ==
  ASSUME Server!ServerOK,
         \/ Server!Starting \/ Server!Connect \/ Server!CloseConnection \/ Server!Start
         \/ Server!Accept \/ Server!AcceptAgain \/ Server!AcceptFails
         \/ \E kept \in 0 .. 1 : Server!OnAccept(kept) \/ Server!OnAcceptThrows(kept)
  PROVE  Server!ServerOK'
<1> USE ConstantsAssumption DEF Server!ServerOK, Server!TypeOK, Server!DescriptorsOwned, Server!Free
<1>1. CASE Server!Socket \/ Server!SetNonblocking \/ Server!Unlink \/ Server!Bind \/ Server!PathTaken
  BY <1>1 DEF Server!Socket, Server!SetNonblocking, Server!Unlink, Server!Bind, Server!PathTaken,
              Server!serving
<1>2. CASE Server!Listen
  <2>1. unix' \in BOOLEAN
    BY <1>2, Zenon DEF Server!Listen
  <2>2. sock = 1 /\ server = 0
    BY <1>2 DEF Server!Listen
  <2> QED BY <1>2, <2>1, <2>2 DEF Server!Listen, Server!serving
<1>3. CASE Server!ListenFails
  BY <1>3 DEF Server!ListenFails, Server!LeaveScope, Server!serving
<1>4. CASE Server!Connect
  BY <1>4 DEF Server!Connect, Server!listening
<1>5. CASE Server!CloseConnection
  BY <1>5 DEF Server!CloseConnection, Server!listening
<1>6. CASE Server!Start
  BY <1>6 DEF Server!Start, Server!listening
<1>7. CASE Server!Accept
  BY <1>7 DEF Server!Accept, Server!listening
<1>8. CASE Server!AcceptAgain
  BY <1>8 DEF Server!AcceptAgain, Server!listening
<1>9. CASE Server!AcceptFails
  BY <1>9 DEF Server!AcceptFails, Server!listening
<1>10. ASSUME NEW kept \in 0 .. 1, Server!OnAccept(kept) \/ Server!OnAcceptThrows(kept)
       PROVE  Server!ServerOK'
  BY <1>10 DEF Server!OnAccept, Server!OnAcceptThrows, Server!HandOver, Server!LeaveScope,
               Server!AcceptMore, Server!listening
<1> QED
  BY <1>1, <1>2, <1>3, <1>4, <1>5, <1>6, <1>7, <1>8, <1>9, <1>10 DEF Server!Starting

-----------------------------------------------------------------------------
(* The batch. *)

(* The orders in which epoll_wait may report hold every listener once. *)
LEMMA SetToSeqsProperties ==
  ASSUME NEW S, IsFiniteSet(S), NEW f \in SetToSeqs(S)
  PROVE  /\ f \in Seq(S)
         /\ \A i, j \in 1 .. Len(f) : f[i] = f[j] => i = j
         /\ \A x \in S : \E i \in 1 .. Len(f) : f[i] = x
<1> DEFINE n == Cardinality(S)
<1>1. n \in Nat
  BY FS_CardinalityType
<1>2. f \in [1 .. n -> S] /\ \A i, j \in 1 .. n : i # j => f[i] # f[j]
  BY DEF SetToSeqs
<1> HIDE DEF n
<1>3. f \in Seq(S) /\ Len(f) = n
  <2>1. f \in Seq(S)
    BY <1>1, <1>2, SeqDef
  <2>2. DOMAIN f = 1 .. Len(f) /\ Len(f) \in Nat
    BY <2>1, LenProperties
  <2> QED BY <1>1, <1>2, <2>1, <2>2
<1>4. f \in Injection(1 .. n, S)
  BY <1>2 DEF Injection, IsInjective
<1>5. Cardinality(1 .. n) = n
  BY <1>1, FS_Interval
<1>6. f \in Surjection(1 .. n, S)
  BY <1>4, <1>5, FS_Injection DEF n
<1> QED BY <1>2, <1>3, <1>6 DEF Surjection

LEMMA ReadyIsDue == \A e \in Events : e \in Connection!Ready <=> Due(e)
BY DEF Connection!Ready, Connection!ReadyFor, Due, Events

LEMMA ReportedProperties ==
  ASSUME ConnSound
  PROVE  /\ IsFiniteSet(Reported) /\ Reported \subseteq Entry
         /\ \A x, y \in Reported : x.who = y.who => x = y
         /\ \A x \in Reported : x.who = "connection" => listed
         /\ \A e \in Events : listed /\ Due(e) => \E x \in Reported : e \in x.events
         /\ srvListed /\ backlog > 0 => \E x \in Reported : "accept" \in x.events
<1> DEFINE R == Connection!Ready
           C == [who |-> "connection", events |-> R]
           V == [who |-> "server", events |-> {"accept"}]
           A == IF listed /\ R # {} THEN {C} ELSE {}
           B == IF srvListed /\ backlog > 0 THEN {V} ELSE {}
<1>1. Reported = A \cup B
  BY DEF Reported
<1>2. IsFiniteSet(A) /\ IsFiniteSet(B)
  BY FS_EmptySet, FS_Singleton
<1>3. IsFiniteSet(Reported)
  BY <1>1, <1>2, FS_Union
<1>4. R \subseteq Events
  BY DEF Connection!Ready, Connection!ReadyFor, Events
<1>5. R # {} => C \in Entry
  BY <1>4 DEF Entry
<1>6. V \in Entry
  BY DEF Entry
<1>7. \A e \in Events : Due(e) => e \in R
  BY ReadyIsDue
<1> HIDE DEF R
<1> QED BY <1>1, <1>3, <1>5, <1>6, <1>7

(* The entries of the batch without its first. *)
LEMMA TailProperties ==
  ASSUME BatchSound, batch # <<>>, batch' = Tail(batch)
  PROVE  /\ batch' \in Seq(Entry)
         /\ \A i, j \in 1 .. Len(batch') : batch'[i].who = batch'[j].who => i = j
         /\ Head(batch) \in Entry
         /\ \A i \in 1 .. Len(batch') : \E j \in 1 .. Len(batch) :
              batch'[i] = batch[j] /\ batch'[i].who # Head(batch).who
         /\ \A i \in 1 .. Len(batch) :
              batch[i] = Head(batch) \/ \E j \in 1 .. Len(batch') : batch'[j] = batch[i]
<1>1. /\ batch' \in Seq(Entry) /\ Len(batch') = Len(batch) - 1
      /\ \A i \in 1 .. Len(batch') : batch'[i] = batch[i + 1]
      /\ Len(batch) \in Nat \ {0}
      /\ Head(batch) \in Entry
  BY HeadTailProperties, EmptySeq DEF BatchSound
<1>2. Head(batch) = batch[1]
  BY DEF BatchSound
<1>3. ASSUME NEW i \in 1 .. Len(batch'), NEW j \in 1 .. Len(batch'), batch'[i].who = batch'[j].who
      PROVE  i = j
  <2>1. i + 1 \in 1 .. Len(batch) /\ j + 1 \in 1 .. Len(batch)
    BY <1>1
  <2>2. i + 1 = j + 1
    BY <1>1, <1>3, <2>1 DEF BatchSound
  <2> QED BY <2>2
<1>4. ASSUME NEW i \in 1 .. Len(batch')
      PROVE  i + 1 \in 1 .. Len(batch) /\ batch'[i] = batch[i + 1] /\ batch[i + 1].who # batch[1].who
  <2>1. i + 1 \in 1 .. Len(batch) /\ 1 \in 1 .. Len(batch) /\ i + 1 # 1
    BY <1>1
  <2> QED BY <1>1, <2>1 DEF BatchSound
<1>5. ASSUME NEW i \in 1 .. Len(batch), i # 1
      PROVE  i - 1 \in 1 .. Len(batch') /\ batch'[i - 1] = batch[i]
  <2>1. i - 1 \in 1 .. Len(batch') /\ (i - 1) + 1 = i
    BY <1>1, <1>5
  <2> QED BY <1>1, <2>1
<1>6. ASSUME NEW i \in 1 .. Len(batch)
      PROVE  batch[i] = Head(batch) \/ \E j \in 1 .. Len(batch') : batch'[j] = batch[i]
  BY <1>2, <1>5
<1>7. ASSUME NEW i \in 1 .. Len(batch')
      PROVE  \E j \in 1 .. Len(batch) : batch'[i] = batch[j] /\ batch'[i].who # Head(batch).who
  BY <1>2, <1>4
<1> QED BY <1>1, <1>3, <1>6, <1>7

-----------------------------------------------------------------------------
(* The steps of the loop.  What a step of one part leaves alone: *)

LEMMA OtherConnUntouched ==
  ASSUME UNCHANGED conn
  PROVE  /\ ConnSound => ConnSound'
         /\ Connection!Open' = Connection!Open
         /\ \A e : Due(e)' <=> Due(e)
         /\ UNCHANGED <<listed, at, events, interest, closes, sndq, nospace>>
BY DEF conn, ConnSound, ConnFlags, ConnCounts, Connection!Open, Due, Connection!Readable,
   Connection!Writable

LEMMA SrvUntouched ==
  ASSUME UNCHANGED srv
  PROVE  /\ Server!ServerOK => Server!ServerOK'
         /\ UNCHANGED <<srvAt, conns, backlog, srvListed>>
BY DEF srv, Server!ServerOK, Server!TypeOK, Server!DescriptorsOwned, Server!Free

LEMMA BatchUntouched ==
  ASSUME UNCHANGED batch
  PROVE  /\ \A e : HasEvent(e)' <=> HasEvent(e)
         /\ \A who : InBatch(who)' <=> InBatch(who)
BY DEF HasEvent, InBatch

(* A step of the server during which the connection and the loop rest. *)
LEMMA ServerAlone ==
  ASSUME LoopIInv, UNCHANGED <<conn, loop>>, Server!ServerOK',
         srvAt = srvAt' \/ at = "idle",
         srvAt' \in {"accept", "accepted"} => phase = "next",
         Connection!Open \/ closes > 0 => conns' > 0,
         BacklogCovered'
  PROVE  LoopIInv'
<1>1. /\ UNCHANGED <<phase, batch, dropped>>
      /\ UNCHANGED <<listed, at, events, interest, closes, sndq, nospace>>
  BY OtherConnUntouched DEF loop
<1>2. ConnSound'
  BY OtherConnUntouched DEF LoopIInv
<1>3. BatchSound'
  <2>1. InBatch("connection")' <=> InBatch("connection")
    BY <1>1, BatchUntouched
  <2> QED BY <1>1, <2>1 DEF LoopIInv, BatchSound, Connection!Open
<1>4. LoopSound'
  BY <1>1 DEF LoopIInv, LoopSound, Connection!Open
<1>5. RoomIsAnnounced'
  BY <1>1 DEF LoopIInv, RoomIsAnnounced
<1>6. WorkCovered'
  <2>1. \A e : HasEvent(e)' <=> HasEvent(e)
    BY <1>1, BatchUntouched
  <2>2. \A e : Covered(e)' <=> Covered(e)
    BY <1>1, <2>1 DEF Covered
  <2> QED BY <1>1, <2>2, OtherConnUntouched DEF LoopIInv, WorkCovered
<1> QED BY <1>2, <1>3, <1>4, <1>5, <1>6 DEF LoopIInv

LEMMA ListeningStep == LoopIInv /\ Listening => LoopIInv'
<1> SUFFICES ASSUME LoopIInv, Listening PROVE LoopIInv'
  OBVIOUS
<1>1. Server!ServerOK'
  BY ServerStepSound DEF LoopIInv, Listening
<1>2. /\ UNCHANGED <<conns, backlog, srvListed>>
      /\ srvAt = srvAt' \/ srvAt \in {"down", "nonblocking", "unlink", "bind", "listen"}
      /\ srvAt' \in {"accept", "accepted"} => srvAt' = srvAt
  BY DEF Listening, Server!Starting, Server!Socket, Server!SetNonblocking, Server!Unlink,
         Server!Bind, Server!Listen, Server!ListenFails, Server!PathTaken, Server!serving
<1>3. srvAt = srvAt' \/ at = "idle"
  BY <1>2 DEF LoopIInv, LoopSound
<1>4. BacklogCovered'
  <2>1. HasEvent("accept")' <=> HasEvent("accept")
    BY BatchUntouched DEF Listening, loop
  <2>2. srvAt \in {"accept", "accepted"} => srvAt' = srvAt
    BY <1>2
  <2> QED BY <1>2, <2>1, <2>2 DEF LoopIInv, BacklogCovered, Listening, loop
<1> QED BY <1>1, <1>2, <1>3, <1>4, ServerAlone DEF Listening, LoopIInv, LoopSound

LEMMA ConnectingStep == LoopIInv /\ Connecting => LoopIInv'
<1> SUFFICES ASSUME LoopIInv, Connecting PROVE LoopIInv'
  OBVIOUS
<1>1. Server!ServerOK'
  BY ServerStepSound DEF LoopIInv, Connecting
<1>2. UNCHANGED <<conns, srvAt>> /\ srvListed' = TRUE
  BY DEF Connecting, Server!Connect
<1> QED BY <1>1, <1>2, ServerAlone DEF Connecting, LoopIInv, LoopSound, BacklogCovered

LEMMA AcceptingStep == LoopIInv /\ Accepting => LoopIInv'
<1> SUFFICES ASSUME LoopIInv, Accepting PROVE LoopIInv'
  OBVIOUS
<1>1. Server!ServerOK'
  BY ServerStepSound DEF LoopIInv, Accepting
<1>2. /\ UNCHANGED <<conns>> /\ srvAt = "accept"
      /\ srvAt' \in {"accepted", "idle"}
      /\ srvAt' = "idle" => backlog' = 0
  BY DEF Accepting, Server!Accept, Server!AcceptAgain
<1> QED BY <1>1, <1>2, ServerAlone DEF Accepting, LoopIInv, LoopSound, BacklogCovered

LEMMA DestroyingStep == LoopIInv /\ Destroying => LoopIInv'
<1> SUFFICES ASSUME LoopIInv, Destroying PROVE LoopIInv'
  OBVIOUS
<1>1. Server!ServerOK'
  BY ServerStepSound DEF LoopIInv, Destroying
<1>2. /\ UNCHANGED <<srvAt, backlog, srvListed>> /\ at = "idle" /\ srvAt = "idle"
      /\ conns' = conns - 1
  BY DEF Destroying, Returned, Server!CloseConnection
<1>3. Connection!Open \/ closes > 0 => conns' > 0
  BY <1>2 DEF Destroying, LoopIInv, Server!ServerOK, Server!TypeOK
<1>4. BacklogCovered'
  <2>1. HasEvent("accept")' <=> HasEvent("accept")
    BY BatchUntouched DEF Destroying, loop
  <2> QED BY <1>2, <2>1 DEF LoopIInv, BacklogCovered, Destroying, loop
<1> QED BY <1>1, <1>2, <1>3, <1>4, ServerAlone DEF Destroying

(* A step of the connection during which the server and the loop rest. *)
LEMMA ConnectionAlone ==
  ASSUME LoopIInv, UNCHANGED <<srv, loop>>, ConnSound',
         at # at' => at # "idle",
         at = "idle" => interest = {} \/ interest' = interest,
         Connection!Open' \/ closes' > 0 => Connection!Open \/ closes > 0,
         RoomIsAnnounced',
         \A e \in Events \ dropped : Due(e)' /\ (Due(e) => Covered(e))
                                      => listed' \/ at' = e \/ e \in events' \/ HasEvent(e)
  PROVE  LoopIInv'
<1>1. UNCHANGED <<phase, batch, dropped>> /\ UNCHANGED <<srvAt, conns, backlog, srvListed>>
  BY SrvUntouched DEF loop
<1>2. Server!ServerOK'
  BY SrvUntouched DEF LoopIInv
<1>3. /\ \A e : HasEvent(e)' <=> HasEvent(e)
      /\ InBatch("connection")' <=> InBatch("connection")
  BY <1>1, BatchUntouched
<1>4. BatchSound'
  BY <1>1, <1>3 DEF LoopIInv, BatchSound, Connection!Open
<1>5. LoopSound'
  BY <1>1 DEF LoopIInv, LoopSound
<1>6. WorkCovered'
  BY <1>1, <1>3 DEF LoopIInv, WorkCovered, Covered
<1>7. BacklogCovered'
  BY <1>1, <1>3 DEF LoopIInv, BacklogCovered
<1> QED BY <1>2, <1>4, <1>5, <1>6, <1>7 DEF LoopIInv

LEMMA NetworkingStep == LoopIInv /\ Networking => LoopIInv'
<1> SUFFICES ASSUME LoopIInv, Networking PROVE LoopIInv'
  OBVIOUS
<1>1. ConnSound'
  BY NetworkSound DEF LoopIInv, Networking
<1>2. UNCHANGED <<interest, at, events, closes, dropped>>
  BY DEF Networking, Connection!Network, Connection!PeerSends, Connection!PeerCloses,
         Connection!Reset, Connection!PeerAcknowledges, Connection!connection, loop
<1>3. CASE Connection!PeerSends \/ Connection!PeerCloses \/ Connection!Reset
  <2>1. listed' = Connection!Open
    BY <1>3 DEF Connection!PeerSends, Connection!PeerCloses, Connection!Reset
  <2>2. (sndq' = sndq /\ nospace' = nospace) \/ sndq' = 0
    BY <1>3 DEF Connection!PeerSends, Connection!PeerCloses, Connection!Reset
  <2>3. RoomIsAnnounced'
    BY <1>2, <2>2, ConstantsAssumption DEF LoopIInv, RoomIsAnnounced
  <2>4. \A e \in Events \ dropped : Due(e)' => listed'
    BY <1>2, <2>1 DEF Due, Connection!Open
  <2> QED BY <1>1, <1>2, <2>3, <2>4, ConnectionAlone DEF Networking, Connection!Open
<1>4. CASE Connection!PeerAcknowledges
  <2>1. /\ sndq' < SendSpace /\ UNCHANGED <<rcvq, eof, reset>>
        /\ listed' = (listed \/ (Connection!Open /\ nospace))
        /\ sndq \in 0 .. SendSpace
    BY <1>4, ConstantsAssumption DEF Connection!PeerAcknowledges, LoopIInv, ConnSound, ConnCounts
  <2>2. RoomIsAnnounced'
    BY <2>1, ConstantsAssumption DEF RoomIsAnnounced
  <2>3. ASSUME NEW e \in Events \ dropped, Due(e)', Due(e) => Covered(e)
        PROVE  listed' \/ at' = e \/ e \in events' \/ HasEvent(e)
    <3>1. CASE Due(e)
      BY <1>2, <2>1, <2>3, <3>1 DEF Covered
    <3>2. CASE ~Due(e)
      <4>1. e = "write" /\ "write" \in interest /\ ~(sndq < SendSpace)
        BY <1>2, <2>1, <2>3, <3>2 DEF Due, Connection!Readable, Connection!Writable
      <4>2. sndq = SendSpace
        BY <2>1, <4>1, ConstantsAssumption
      <4>3. nospace \/ at = "write" \/ "write" \in events
        BY <4>1, <4>2 DEF LoopIInv, RoomIsAnnounced
      <4> QED BY <1>2, <2>1, <4>1, <4>3 DEF Connection!Open
    <3> QED BY <3>1, <3>2
  <2> QED BY <1>1, <1>2, <2>2, <2>3, ConnectionAlone DEF Networking, Connection!Open
<1> QED BY <1>3, <1>4 DEF Networking, Connection!Network

(* A callback that closes leaves nothing to be done. *)
LEMMA ClosingStep ==
  ASSUME LoopIInv, UNCHANGED <<srv, loop>>, ConnSound', at # "idle", Connection!OnClose
  PROVE  LoopIInv'
<1>1. interest' = {}
  BY DEF Connection!OnClose
<1>2. Connection!Open \/ closes > 0
  BY DEF LoopIInv, ConnSound, ConnCounts, Connection!Open
<1>3. RoomIsAnnounced' /\ \A e \in Events : ~Due(e)'
  BY <1>1 DEF RoomIsAnnounced, Due
<1> QED BY <1>2, <1>3, ConnectionAlone

LEMMA ReadingStep == LoopIInv /\ Reading => LoopIInv'
<1> SUFFICES ASSUME LoopIInv, Reading PROVE LoopIInv'
  OBVIOUS
<1>1. ConnSound'
  BY ReadingSound DEF LoopIInv, Reading
<1>2. UNCHANGED <<srv, loop>> /\ dropped' = dropped
  BY DEF Reading, loop
<1>3. at = "read" /\ sndq' = sndq /\ nospace' = nospace /\ UNCHANGED reset
  BY DEF Reading, Connection!Reading, Connection!RecvBytes, Connection!RecvEof,
         Connection!RecvAgain, Connection!RecvFails, Connection!FullThenConsume, Connection!socket
<1>4. CASE Connection!OnClose
  BY <1>1, <1>2, <1>3, <1>4, ClosingStep
<1>5. CASE Connection!Continue /\ UNCHANGED <<listed, interest, closes>>
  <2>1. UNCHANGED <<at, events, listed, interest, closes>>
    BY <1>5 DEF Connection!Continue
  <2>2. RoomIsAnnounced'
    BY <1>2, <1>3, <2>1 DEF LoopIInv, RoomIsAnnounced
  <2>3. ASSUME NEW e \in Events \ dropped, Due(e)', Due(e) => Covered(e)
        PROVE  listed' \/ at' = e \/ e \in events' \/ HasEvent(e)
    BY <1>3, <2>1, <2>3 DEF Due, Covered, Connection!Writable
  <2> QED BY <1>1, <1>2, <2>1, <2>2, <2>3, ConnectionAlone DEF Connection!Open
<1>6. CASE Connection!RecvAgain
  <2>1. /\ UNCHANGED <<listed, interest, closes, rcvq, eof>> /\ events' = {}
        /\ at' = IF events = {} THEN "idle" ELSE "write"
        /\ rcvq = 0 /\ ~reset /\ ~eof
    BY <1>6 DEF Connection!RecvAgain, Connection!Return, Connection!socket
  <2>2. events # {} <=> "write" \in events
    BY DEF LoopIInv, ConnSound, ConnCounts
  <2>3. RoomIsAnnounced'
    BY <1>2, <1>3, <2>1, <2>2 DEF LoopIInv, RoomIsAnnounced
  <2>4. ASSUME NEW e \in Events \ dropped, Due(e)', Due(e) => Covered(e)
        PROVE  listed' \/ at' = e \/ e \in events' \/ HasEvent(e)
    <3>1. e = "write"
      BY <1>3, <2>1, <2>4 DEF Due, Connection!Readable
    <3>2. Due(e)
      BY <1>3, <2>1, <2>4 DEF Due, Connection!Readable, Connection!Writable
    <3> QED BY <1>3, <2>1, <2>2, <2>4, <3>1, <3>2 DEF Covered
  <2> QED BY <1>1, <1>2, <1>3, <2>1, <2>3, <2>4, ConnectionAlone DEF Connection!Open
<1> QED
  BY <1>4, <1>5, <1>6 DEF Reading, Connection!Reading, Connection!RecvBytes, Connection!RecvEof,
     Connection!RecvFails, Connection!FullThenConsume

LEMMA WritingStep == LoopIInv /\ Writing => LoopIInv'
<1> SUFFICES ASSUME LoopIInv, Writing PROVE LoopIInv'
  OBVIOUS
<1>1. ConnSound'
  BY WritingSound DEF LoopIInv, Writing
<1>2. UNCHANGED <<srv, loop>> /\ dropped' = dropped
  BY DEF Writing, loop
<1>3. at = "write" /\ UNCHANGED <<rcvq, eof, reset>>
  BY DEF Writing, Connection!Writing, Connection!SendBytes, Connection!SendAgain,
         Connection!SendFails, Connection!EmptyThenProduce, Connection!socket
<1>4. CASE Connection!OnClose
  BY <1>1, <1>2, <1>3, <1>4, ClosingStep
<1>5. CASE Connection!Continue /\ UNCHANGED <<listed, interest, closes>>
  <2>1. UNCHANGED <<at, events, listed, interest, closes>>
    BY <1>5 DEF Connection!Continue
  <2>2. RoomIsAnnounced'
    BY <1>3, <2>1 DEF RoomIsAnnounced
  <2>3. ASSUME NEW e \in Events \ dropped, Due(e)', Due(e) => Covered(e)
        PROVE  listed' \/ at' = e \/ e \in events' \/ HasEvent(e)
    BY <1>3, <2>1, <2>3 DEF Due, Covered, Connection!Readable
  <2> QED BY <1>1, <1>2, <2>1, <2>2, <2>3, ConnectionAlone DEF Connection!Open
<1>6. CASE Connection!SendAgain
  <2>1. /\ UNCHANGED <<listed, interest, closes, sndq>> /\ events' = {} /\ at' = "idle"
        /\ nospace' = TRUE /\ sndq = SendSpace /\ ~reset /\ events = {}
    BY <1>6 DEF Connection!SendAgain, Connection!Return, LoopIInv, ConnSound, ConnCounts
  <2>2. RoomIsAnnounced'
    BY <2>1 DEF RoomIsAnnounced
  <2>3. ASSUME NEW e \in Events \ dropped, Due(e)', Due(e) => Covered(e)
        PROVE  listed' \/ at' = e \/ e \in events' \/ HasEvent(e)
    <3>1. e = "read"
      BY <1>3, <2>1, <2>3, ConstantsAssumption DEF Due, Connection!Writable
    <3>2. Due(e)
      BY <1>3, <2>1, <2>3, <3>1 DEF Due, Connection!Readable
    <3> QED BY <1>3, <2>1, <2>3, <3>1, <3>2 DEF Covered
  <2> QED BY <1>1, <1>2, <1>3, <2>1, <2>2, <2>3, ConnectionAlone DEF Connection!Open
<1> QED
  BY <1>4, <1>5, <1>6 DEF Writing, Connection!Writing, Connection!SendBytes,
     Connection!SendFails, Connection!EmptyThenProduce

(* An exception takes the batch away and remembers its events. *)
LEMMA ThrowsStep ==
  ASSUME LoopIInv, NEW callbacks \in SUBSET (Events \cup {"accept"}), Throws(callbacks),
         ConnSound', Server!ServerOK', at' = "idle", srvAt' = "idle", events' = {},
         srvListed' = srvListed,
         Connection!Open' \/ closes' > 0 => conns' > 0,
         WorkAnnounced, RoomKept,
         {at} \cup events \subseteq callbacks \cup {"idle"},
         backlog' > 0 => backlog > 0,
         srvAt \in {"accept", "accepted"} => "accept" \in callbacks
  PROVE  LoopIInv'
<1>1. batch' = <<>> /\ Len(batch') = 0 /\ batch' \in Seq(Entry) /\ phase' = "loop"
  BY EmptySeq DEF Throws
<1>2. \A i \in 1 .. Len(batch) : batch[i] \in Entry
  BY ElementOfSeq DEF LoopIInv, BatchSound
<1>3. \A i \in 1 .. Len(batch) : batch[i].events \subseteq Events \cup {"accept"}
  BY <1>2 DEF Entry
<1>4. dropped' \subseteq Events \cup {"accept"}
  BY <1>3 DEF Throws, LoopIInv, LoopSound
<1>5. /\ dropped \subseteq dropped' /\ callbacks \subseteq dropped'
      /\ \A e : HasEvent(e) => e \in dropped'
  BY DEF Throws, HasEvent
<1>6. BatchSound'
  BY <1>1 DEF BatchSound, InBatch
<1>7. LoopSound'
  BY <1>1, <1>4 DEF LoopSound, LoopIInv, Connection!Open
<1>8. RoomIsAnnounced'
  BY <1>5 DEF RoomIsAnnounced, RoomKept, LoopIInv
<1>9. WorkCovered'
  <2> SUFFICES ASSUME NEW e \in Events \ dropped', Due(e)' PROVE listed'
    BY DEF WorkCovered, Covered
  <2>1. listed' \/ (Due(e) /\ ~listed)
    BY DEF WorkAnnounced
  <2>2. e \notin dropped /\ e \notin callbacks /\ ~HasEvent(e) /\ e # "idle"
    BY <1>5 DEF Events
  <2> QED BY <2>1, <2>2 DEF LoopIInv, WorkCovered, Covered
<1>10. BacklogCovered'
  BY <1>5 DEF BacklogCovered, LoopIInv
<1> QED BY <1>6, <1>7, <1>8, <1>9, <1>10 DEF LoopIInv

LEMMA AcceptThrowsStep == LoopIInv /\ AcceptThrows => LoopIInv'
<1> SUFFICES ASSUME LoopIInv, AcceptThrows PROVE LoopIInv'
  OBVIOUS
<1>1. ConnSound' /\ Server!ServerOK'
  BY OtherConnUntouched, ServerStepSound DEF LoopIInv, AcceptThrows
<1>2. /\ srvAt = "accept" /\ srvAt' = "idle" /\ UNCHANGED <<conns, srvListed>>
      /\ backlog' = backlog \/ (backlog > 0 /\ backlog' = backlog - 1)
  BY DEF AcceptThrows, Server!AcceptFails
<1>3. backlog' > 0 => backlog > 0
  BY <1>2 DEF LoopIInv, Server!ServerOK, Server!TypeOK
<1>4. at = "idle" /\ events = {}
  BY <1>2 DEF LoopIInv, LoopSound, ConnSound, ConnCounts
<1>5. /\ UNCHANGED <<listed, at, events, interest, closes, sndq, nospace>>
      /\ Connection!Open' = Connection!Open /\ \A e : Due(e)' <=> Due(e)
  BY OtherConnUntouched DEF AcceptThrows
<1>6. WorkAnnounced /\ RoomKept
  BY <1>5 DEF WorkAnnounced, RoomKept
<1>7. Connection!Open' \/ closes' > 0 => conns' > 0
  BY <1>2, <1>5 DEF LoopIInv, LoopSound
<1> QED BY <1>1, <1>2, <1>3, <1>4, <1>5, <1>6, <1>7, ThrowsStep DEF AcceptThrows

LEMMA HandlerThrowsStep == LoopIInv /\ HandlerThrows => LoopIInv'
<1> SUFFICES ASSUME LoopIInv, HandlerThrows PROVE LoopIInv'
  OBVIOUS
<1>1. ConnSound' /\ Server!ServerOK'
  BY HandlerThrowsSound, SrvUntouched DEF LoopIInv, HandlerThrows
<1>2. /\ at \in Events /\ at' = "idle" /\ events' = {}
      /\ UNCHANGED <<rcvq, eof, reset, sndq, nospace, listed, interest>>
      /\ closes' = closes \/ closes > 0
  BY DEF HandlerThrows, Connection!HandlerThrows, Connection!OnCloseThrows, Connection!socket, Events
<1>3. events \subseteq Events /\ srvAt = "idle"
  BY <1>2 DEF LoopIInv, LoopSound, ConnSound, ConnCounts, Events
<1>4. UNCHANGED <<srvAt, conns, backlog, srvListed>>
  BY SrvUntouched DEF HandlerThrows
<1>5. {at} \cup events \in SUBSET (Events \cup {"accept"})
  BY <1>2, <1>3
<1>6. WorkAnnounced /\ RoomKept
  BY <1>2 DEF WorkAnnounced, RoomKept, Due, Connection!Readable, Connection!Writable
<1>7. Connection!Open' \/ closes' > 0 => conns' > 0
  BY <1>2, <1>4 DEF LoopIInv, LoopSound, Connection!Open
<1> QED BY <1>1, <1>2, <1>3, <1>4, <1>5, <1>6, <1>7, ThrowsStep DEF HandlerThrows

(* on_accept has put the accepted socket away, as a connection or not. *)
LEMMA HandOverSound ==
  ASSUME LoopIInv, NEW kept \in 0 .. 1, Server!HandOver(kept),
         (kept = 1 /\ MakeConnection) \/ NoConnection
  PROVE  /\ ConnSound' /\ WorkAnnounced /\ RoomKept
         /\ at = "idle" /\ events = {} /\ at' = "idle" /\ events' = {}
         /\ Connection!Open' \/ closes' > 0 => conns' > 0
         /\ Connection!Open => Connection!Open'
         /\ srvAt = "accepted" /\ UNCHANGED <<backlog, srvListed>>
<1>1. /\ srvAt = "accepted" /\ conns' = conns + kept /\ conns \in Nat
      /\ UNCHANGED <<backlog, srvListed>>
  BY ConstantsAssumption DEF Server!HandOver, LoopIInv, Server!ServerOK, Server!TypeOK
<1>2. at = "idle" /\ events = {}
  BY <1>1 DEF LoopIInv, LoopSound, ConnSound, ConnCounts
<1>3. ASSUME kept = 1, NEW event \in (SUBSET Events) \ {{}}, Connection!Register(event)
      PROVE  /\ ConnSound' /\ WorkAnnounced /\ RoomKept /\ UNCHANGED <<at, events>>
             /\ ~Connection!Open /\ conns' > 0
  <2>1. ConnSound'
    BY <1>3, RegisterSound DEF LoopIInv
  <2>2. /\ interest = {} /\ closes = 0 /\ interest' = event
        /\ listed' = (Connection!ReadyFor(event) # {})
        /\ UNCHANGED <<rcvq, eof, reset, sndq, nospace, at, events, closes>>
    BY <1>3 DEF Connection!Register, Connection!Open, Connection!socket
  <2>3. sndq' # SendSpace
    BY <2>2, ConstantsAssumption DEF LoopIInv, ConnSound, ConnCounts
  <2>4. WorkAnnounced
    <3> SUFFICES ASSUME NEW e \in Events, Due(e)' PROVE listed'
      BY DEF WorkAnnounced
    <3>1. e \in Connection!ReadyFor(event)
      BY <2>2 DEF Due, Connection!ReadyFor, Connection!Readable, Connection!Writable
    <3> QED BY <2>2, <3>1
  <2> QED BY <1>1, <1>3, <2>1, <2>2, <2>3, <2>4 DEF RoomKept, Connection!Open
<1>4. CASE UNCHANGED conn
  <2>1. /\ ConnSound' /\ Connection!Open' = Connection!Open /\ \A e : Due(e)' <=> Due(e)
        /\ UNCHANGED <<listed, at, events, interest, closes, sndq, nospace>>
    BY <1>4, OtherConnUntouched DEF LoopIInv
  <2>2. WorkAnnounced /\ RoomKept
    BY <2>1 DEF WorkAnnounced, RoomKept
  <2>3. Connection!Open \/ closes > 0 => conns' > 0
    BY <1>1 DEF LoopIInv, LoopSound
  <2> QED BY <1>1, <1>2, <2>1, <2>2, <2>3
<1>5. CASE Connection!Destroyed /\ ~Connection!Open
  <2>1. ConnSound'
    BY <1>5, DestroyedSound
  <2>2. interest' = {} /\ closes' = 0 /\ at' = "idle" /\ events' = {}
    BY <1>5 DEF Connection!Destroyed
  <2>3. WorkAnnounced /\ RoomKept /\ ~Connection!Open'
    BY <2>2 DEF WorkAnnounced, RoomKept, Due, Connection!Open
  <2> QED BY <1>1, <1>2, <1>5, <2>1, <2>2, <2>3
<1> QED BY <1>1, <1>2, <1>3, <1>4, <1>5 DEF MakeConnection, NoConnection, Events

LEMMA OnAcceptStep == LoopIInv /\ OnAccept => LoopIInv'
<1> SUFFICES ASSUME LoopIInv, OnAccept PROVE LoopIInv'
  OBVIOUS
<1>1. PICK kept \in 0 .. 1 :
        Server!OnAccept(kept) /\ ((kept = 1 /\ MakeConnection) \/ NoConnection)
  BY DEF OnAccept
<1>2. Server!ServerOK'
  BY <1>1, ServerStepSound DEF LoopIInv
<1>3. srvAt' = "accept" /\ UNCHANGED <<phase, batch, dropped>>
  BY <1>1 DEF Server!OnAccept, Server!AcceptMore, OnAccept, loop
<1>4. /\ ConnSound' /\ WorkAnnounced /\ RoomKept
      /\ at = "idle" /\ events = {} /\ at' = "idle" /\ events' = {}
      /\ Connection!Open' \/ closes' > 0 => conns' > 0
      /\ Connection!Open => Connection!Open'
      /\ srvAt = "accepted" /\ UNCHANGED <<backlog, srvListed>>
  BY <1>1, HandOverSound DEF Server!OnAccept
<1>5. /\ \A e : HasEvent(e)' <=> HasEvent(e)
      /\ InBatch("connection")' <=> InBatch("connection")
  BY <1>3, BatchUntouched
<1>6. BatchSound'
  BY <1>3, <1>4, <1>5 DEF LoopIInv, BatchSound
<1>7. LoopSound'
  BY <1>3, <1>4 DEF LoopIInv, LoopSound
<1>8. RoomIsAnnounced'
  BY <1>3, <1>4 DEF LoopIInv, RoomIsAnnounced, RoomKept
<1>9. WorkCovered'
  BY <1>3, <1>4, <1>5 DEF LoopIInv, WorkCovered, Covered, WorkAnnounced, Events
<1>10. BacklogCovered'
  BY <1>3 DEF BacklogCovered
<1> QED BY <1>2, <1>4, <1>6, <1>7, <1>8, <1>9, <1>10 DEF LoopIInv

LEMMA OnAcceptThrowsStep == LoopIInv /\ OnAcceptThrows => LoopIInv'
<1> SUFFICES ASSUME LoopIInv, OnAcceptThrows PROVE LoopIInv'
  OBVIOUS
<1>1. PICK kept \in 0 .. 1 :
        Server!OnAcceptThrows(kept) /\ ((kept = 1 /\ MakeConnection) \/ NoConnection)
  BY DEF OnAcceptThrows
<1>2. Server!ServerOK'
  BY <1>1, ServerStepSound DEF LoopIInv
<1>3. srvAt' = "idle" /\ Throws({"accept"})
  BY <1>1 DEF Server!OnAcceptThrows, OnAcceptThrows
<1>4. /\ ConnSound' /\ WorkAnnounced /\ RoomKept
      /\ at = "idle" /\ events = {} /\ at' = "idle" /\ events' = {}
      /\ Connection!Open' \/ closes' > 0 => conns' > 0
      /\ UNCHANGED <<backlog, srvListed>>
  BY <1>1, HandOverSound DEF Server!OnAcceptThrows
<1> QED BY <1>2, <1>3, <1>4, ThrowsStep

LEMMA OnLoopStep == LoopIInv /\ OnLoop => LoopIInv'
<1> SUFFICES ASSUME LoopIInv, OnLoop PROVE LoopIInv'
  OBVIOUS
<1>1. /\ phase = "loop" /\ phase' = "wait" /\ at = "idle" /\ srvAt = "idle"
      /\ batch = <<>> /\ batch' = <<>>
  BY DEF OnLoop, Returned, LoopIInv, BatchSound
<1>2. \A e : ~HasEvent(e) /\ ~HasEvent(e)'
  BY <1>1, EmptySeq DEF HasEvent
<1>3. CASE closes > 0
  <2>1. ConnSound'
    BY <1>3, DestroyedSound DEF OnLoop
  <2>2. Server!ServerOK'
    BY <1>3, ServerStepSound DEF OnLoop, LoopIInv
  <2>3. interest' = {} /\ at' = "idle" /\ closes' = 0
    BY <1>3 DEF OnLoop, Connection!Destroyed
  <2>4. UNCHANGED <<srvAt, backlog, srvListed>> /\ dropped' = dropped \cap {"accept"}
    BY <1>3 DEF OnLoop, Server!CloseConnection
  <2>5. BatchSound'
    BY <1>1, EmptySeq DEF BatchSound, InBatch
  <2>6. LoopSound'
    BY <1>1, <2>3, <2>4 DEF LoopSound, Connection!Open
  <2>7. RoomIsAnnounced' /\ WorkCovered'
    BY <2>3 DEF RoomIsAnnounced, WorkCovered, Due
  <2>8. BacklogCovered'
    BY <1>1, <1>2, <2>4 DEF BacklogCovered, LoopIInv
  <2> QED BY <2>1, <2>2, <2>5, <2>6, <2>7, <2>8 DEF LoopIInv
<1>4. CASE ~(closes > 0)
  <2>1. ConnSound' /\ Server!ServerOK'
    BY <1>4, OtherConnUntouched, SrvUntouched DEF OnLoop, LoopIInv
  <2>2. /\ UNCHANGED <<listed, at, events, interest, closes, sndq, nospace>>
        /\ UNCHANGED <<srvAt, conns, backlog, srvListed, dropped>>
        /\ \A e : Due(e)' <=> Due(e)
    BY <1>4, OtherConnUntouched, SrvUntouched DEF OnLoop
  <2>3. BatchSound'
    BY <1>1, EmptySeq DEF BatchSound, InBatch
  <2>4. LoopSound'
    BY <1>1, <2>2 DEF LoopSound, LoopIInv, Connection!Open
  <2>5. RoomIsAnnounced'
    BY <2>2 DEF RoomIsAnnounced, LoopIInv
  <2>6. WorkCovered'
    BY <1>2, <2>2 DEF WorkCovered, Covered, LoopIInv
  <2>7. BacklogCovered'
    BY <1>2, <2>2 DEF BacklogCovered, LoopIInv
  <2> QED BY <2>1, <2>3, <2>4, <2>5, <2>6, <2>7 DEF LoopIInv
<1> QED BY <1>3, <1>4

(* Whatever epoll_wait returns: what is ready and listed is in the batch.  *)
LEMMA EpollWaitStep ==
  ASSUME LoopIInv, EpollWait,
         phase' \in {"loop", "timeout", "next"}, batch' # <<>> => phase' = "next",
         batch' \in Seq(Reported),
         \A i, j \in 1 .. Len(batch') : batch'[i] = batch'[j] => i = j,
         \A x \in Reported : \E i \in 1 .. Len(batch') : batch'[i] = x
  PROVE  LoopIInv'
<1>1. /\ phase = "wait" /\ at = "idle" /\ events = {} /\ srvAt \notin {"accept", "accepted"}
      /\ batch = <<>>
  BY DEF EpollWait, LoopIInv, LoopSound, BatchSound, ConnSound, ConnCounts
<1>2. \A e : ~HasEvent(e)
  <2>1. Len(batch) = 0
    BY <1>1, EmptySeq
  <2> QED BY <2>1 DEF HasEvent
<1>3. /\ IsFiniteSet(Reported) /\ Reported \subseteq Entry
      /\ \A x, y \in Reported : x.who = y.who => x = y
      /\ \A x \in Reported : x.who = "connection" => listed
      /\ \A e \in Events : listed /\ Due(e) => \E x \in Reported : e \in x.events
      /\ srvListed /\ backlog > 0 => \E x \in Reported : "accept" \in x.events
  BY ReportedProperties DEF LoopIInv
<1>5. /\ batch' \in Seq(Entry) /\ Len(batch') \in Nat
      /\ \A i \in 1 .. Len(batch') : batch'[i] \in Reported
  BY <1>3, SeqMonotonic, LenProperties, ElementOfSeq
<1>6. /\ listed' = FALSE /\ srvListed' = FALSE
      /\ UNCHANGED <<rcvq, eof, reset, sndq, nospace, interest, rcb, wcb, at, events, closes>>
      /\ UNCHANGED <<srvAt, unix, path, sock, server, conns, backlog, dropped>>
  BY DEF EpollWait
<1>7. ConnSound'
  <2>1. ConnFlags'
    BY <1>6, Zenon DEF LoopIInv, ConnSound, ConnFlags
  <2>2. ConnCounts'
    BY <1>6 DEF LoopIInv, ConnSound, ConnCounts
  <2> QED BY <2>1, <2>2 DEF ConnSound
<1>8. Server!ServerOK'
  <2>1. srvListed' \in BOOLEAN
    BY <1>6, Zenon
  <2> QED BY <1>6, <2>1 DEF LoopIInv, Server!ServerOK, Server!TypeOK, Server!DescriptorsOwned, Server!Free
<1>9. BatchSound'
  <2>1. \A i, j \in 1 .. Len(batch') : batch'[i].who = batch'[j].who => i = j
    BY <1>3, <1>5
  <2>2. InBatch("connection")' => Connection!Open' /\ at' = "idle"
    <3>1. InBatch("connection")' => listed
      BY <1>3, <1>5 DEF InBatch
    <3>2. listed => interest # {}
      BY DEF LoopIInv, ConnSound, ConnFlags
    <3> QED BY <1>1, <1>6, <3>1, <3>2 DEF Connection!Open
  <2> QED BY <1>5, <2>1, <2>2 DEF BatchSound
<1>10. LoopSound'
  BY <1>1, <1>6 DEF LoopIInv, LoopSound, Connection!Open
<1>11. RoomIsAnnounced'
  BY <1>6 DEF LoopIInv, RoomIsAnnounced
<1>12. WorkCovered'
  <2> SUFFICES ASSUME NEW e \in Events \ dropped, Due(e)' PROVE HasEvent(e)'
    BY <1>6 DEF WorkCovered, Covered
  <2>1. Due(e)
    BY <1>6 DEF Due, Connection!Readable, Connection!Writable
  <2>2. listed
    BY <1>1, <1>2, <2>1 DEF LoopIInv, WorkCovered, Covered, Events
  <2> QED BY <1>3, <2>1, <2>2 DEF HasEvent
<1>13. BacklogCovered'
  BY <1>1, <1>2, <1>3, <1>6 DEF LoopIInv, BacklogCovered, HasEvent
<1> QED BY <1>7, <1>8, <1>9, <1>10, <1>11, <1>12, <1>13 DEF LoopIInv

LEMMA WaitStep == LoopIInv /\ Wait => LoopIInv'
<1> SUFFICES ASSUME LoopIInv, Wait PROVE LoopIInv'
  OBVIOUS
<1>1. IsFiniteSet(Reported) /\ Reported \subseteq Entry
  BY ReportedProperties DEF LoopIInv
<1>2. /\ batch' \in Seq(Reported)
      /\ \A i, j \in 1 .. Len(batch') : batch'[i] = batch'[j] => i = j
      /\ \A x \in Reported : \E i \in 1 .. Len(batch') : batch'[i] = x
  <2>1. batch' \in SetToSeqs(Reported)
    BY DEF Wait
  <2>2. IsFiniteSet(Reported)
    BY <1>1
  <2> QED BY <2>1, <2>2, SetToSeqsProperties, ZenonT(40)
<1>3. phase' \in {"timeout", "next"} /\ (batch' # <<>> => phase' = "next")
  <2>1. phase' = OnWait(Len(batch'))
    BY DEF Wait
  <2> QED BY <1>2, <2>1, EmptySeq DEF OnWait
<1> QED BY <1>2, <1>3, EpollWaitStep DEF Wait

LEMMA WaitInterruptedStep == LoopIInv /\ WaitInterrupted => LoopIInv'
<1> SUFFICES ASSUME LoopIInv, WaitInterrupted PROVE LoopIInv'
  OBVIOUS
<1>1. batch' = <<>> /\ Reported = {} /\ phase' = "loop"
  BY DEF WaitInterrupted, EpollWait, LoopIInv, BatchSound
<1>2. batch' \in Seq(Reported) /\ Len(batch') = 0
  BY <1>1, EmptySeq
<1> QED BY <1>1, <1>2, EpollWaitStep DEF WaitInterrupted

(* The steps that only move run_once. *)
LEMMA ControlStep == LoopIInv /\ (OnTimeout \/ BatchDone) => LoopIInv'
<1> SUFFICES ASSUME LoopIInv, OnTimeout \/ BatchDone PROVE LoopIInv'
  OBVIOUS
<1>1. /\ UNCHANGED <<conn, srv, batch, dropped>> /\ phase' = "loop"
      /\ phase # "next" \/ (at = "idle" /\ srvAt = "idle")
      /\ phase # "next" \/ batch = <<>>
  BY DEF OnTimeout, BatchDone, Returned
<1>2. at = "idle" /\ srvAt \notin {"accept", "accepted"} /\ batch = <<>>
  BY <1>1 DEF LoopIInv, LoopSound, BatchSound
<1>3. ConnSound' /\ Server!ServerOK'
  BY <1>1, OtherConnUntouched, SrvUntouched DEF LoopIInv
<1>4. /\ UNCHANGED <<listed, at, events, interest, closes, sndq, nospace>>
      /\ UNCHANGED <<srvAt, conns, backlog, srvListed, dropped>>
      /\ \A e : Due(e)' <=> Due(e)
      /\ \A e : HasEvent(e)' <=> HasEvent(e)
  BY <1>1, OtherConnUntouched, SrvUntouched, BatchUntouched
<1>5. BatchSound'
  BY <1>1, <1>2, EmptySeq DEF BatchSound, InBatch
<1>6. LoopSound'
  BY <1>1, <1>2, <1>4 DEF LoopSound, LoopIInv, Connection!Open
<1>7. RoomIsAnnounced'
  BY <1>4 DEF RoomIsAnnounced, LoopIInv
<1>8. WorkCovered'
  BY <1>4 DEF WorkCovered, Covered, LoopIInv
<1>9. BacklogCovered'
  BY <1>4 DEF BacklogCovered, LoopIInv
<1> QED BY <1>3, <1>5, <1>6, <1>7, <1>8, <1>9 DEF LoopIInv

LEMMA DispatchEventStep == LoopIInv /\ DispatchEvent => LoopIInv'
<1> SUFFICES ASSUME LoopIInv, DispatchEvent PROVE LoopIInv'
  OBVIOUS
<1> DEFINE h == Head(batch)
<1>1. /\ phase = "next" /\ phase' = "next" /\ at = "idle" /\ srvAt = "idle" /\ events = {}
      /\ batch # <<>> /\ batch' = Tail(batch) /\ dropped' = dropped \ h.events
  BY DEF DispatchEvent, Returned, LoopIInv, ConnSound, ConnCounts
<1>2. /\ batch' \in Seq(Entry)
      /\ \A i, j \in 1 .. Len(batch') : batch'[i].who = batch'[j].who => i = j
      /\ h \in Entry
      /\ \A i \in 1 .. Len(batch') : \E j \in 1 .. Len(batch) :
           batch'[i] = batch[j] /\ batch'[i].who # h.who
      /\ \A i \in 1 .. Len(batch) :
           batch[i] = h \/ \E j \in 1 .. Len(batch') : batch'[j] = batch[i]
  BY <1>1, TailProperties DEF LoopIInv
<1>3. \A e : HasEvent(e) => e \in h.events \/ HasEvent(e)'
  BY <1>2 DEF HasEvent
<1>4. /\ InBatch("connection")' => InBatch("connection") /\ h.who # "connection"
      /\ h.who = "connection" => InBatch("connection")
  <2>1. 1 \in 1 .. Len(batch) /\ h = batch[1]
    BY <1>1, EmptySeq DEF LoopIInv, BatchSound
  <2> QED BY <1>2, <2>1 DEF InBatch
<1> HIDE DEF h
<1>5. CASE h.who = "server" /\ Server!Start /\ UNCHANGED conn
  <2>1. h.events = {"accept"}
    BY <1>2, <1>5 DEF Entry
  <2>2. ConnSound' /\ Server!ServerOK'
    BY <1>5, OtherConnUntouched, ServerStepSound DEF LoopIInv
  <2>3. /\ UNCHANGED <<listed, at, events, interest, closes, sndq, nospace>>
        /\ UNCHANGED <<conns, backlog, srvListed>> /\ srvAt' = "accept"
        /\ \A e : Due(e)' <=> Due(e)
    BY <1>5, OtherConnUntouched DEF Server!Start
  <2>4. BatchSound'
    BY <1>1, <1>2, <1>4, <2>3 DEF BatchSound, LoopIInv, Connection!Open
  <2>5. LoopSound'
    BY <1>1, <2>3 DEF LoopSound, LoopIInv, Connection!Open
  <2>6. RoomIsAnnounced'
    BY <1>1, <2>1, <2>3 DEF RoomIsAnnounced, LoopIInv
  <2>7. WorkCovered'
    <3> SUFFICES ASSUME NEW e \in Events \ dropped', Due(e)' PROVE Covered(e)'
      BY DEF WorkCovered
    <3>1. e # "accept" /\ e \notin dropped /\ Due(e)
      BY <1>1, <2>1, <2>3 DEF Events
    <3>2. Covered(e)
      BY <3>1 DEF LoopIInv, WorkCovered
    <3> QED BY <1>3, <2>1, <2>3, <3>1, <3>2 DEF Covered
  <2>8. BacklogCovered'
    BY <2>3 DEF BacklogCovered
  <2> QED BY <2>2, <2>4, <2>5, <2>6, <2>7, <2>8 DEF LoopIInv
<1>6. CASE h.who = "connection" /\ Connection!Start(h.events) /\ UNCHANGED srv
  <2>1. h.events \in (SUBSET Events) \ {{}} /\ "accept" \notin h.events
    BY <1>2, <1>6 DEF Entry, Events
  <2>2. Connection!Open
    BY <1>4, <1>6 DEF LoopIInv, BatchSound
  <2>3. ConnSound' /\ Server!ServerOK'
    BY <1>6, <2>1, <2>2, StartSound, SrvUntouched DEF LoopIInv
  <2>4. /\ UNCHANGED <<srvAt, conns, backlog, srvListed>>
        /\ UNCHANGED <<rcvq, eof, reset, sndq, nospace, listed, interest, closes>>
        /\ \A e \in h.events : e = at' \/ e \in events'
        /\ \A e : Due(e)' <=> Due(e)
    BY <1>6, SrvUntouched DEF Connection!Start, Connection!socket, Due, Connection!Readable,
       Connection!Writable
  <2>5. BatchSound'
    BY <1>1, <1>2, <1>4, <1>6 DEF BatchSound, LoopIInv
  <2>6. LoopSound'
    BY <1>1, <2>4 DEF LoopSound, LoopIInv, Connection!Open
  <2>7. RoomIsAnnounced'
    BY <1>1, <2>4 DEF RoomIsAnnounced, LoopIInv
  <2>8. WorkCovered'
    <3> SUFFICES ASSUME NEW e \in Events \ dropped', Due(e)' PROVE Covered(e)'
      BY DEF WorkCovered
    <3>1. CASE e \in h.events
      BY <2>4, <3>1 DEF Covered
    <3>2. CASE e \notin h.events
      <4>1. Covered(e) /\ e # "idle"
        BY <1>1, <2>4, <3>2 DEF LoopIInv, WorkCovered, Events
      <4> QED BY <1>1, <1>3, <2>4, <3>2, <4>1 DEF Covered
    <3> QED BY <3>1, <3>2
  <2>9. BacklogCovered'
    BY <1>1, <1>3, <2>1, <2>4 DEF BacklogCovered, LoopIInv
  <2> QED BY <2>3, <2>5, <2>6, <2>7, <2>8, <2>9 DEF LoopIInv
<1> QED BY <1>5, <1>6 DEF DispatchEvent, h

LEMMA InitLoop == Init => LoopIInv
<1> SUFFICES ASSUME Init PROVE LoopIInv
  OBVIOUS
<1>1. ConnFlags
  BY Zenon DEF Init, Connection!Init, ConnFlags
<1>2. ConnCounts
  BY ConstantsAssumption DEF Init, Connection!Init, ConnCounts
<1>3. Server!ServerOK
  <2>1. srvListed \in BOOLEAN /\ unix \in BOOLEAN
    BY Zenon DEF Init, Server!Init
  <2> QED BY <2>1, ConstantsAssumption DEF Init, Server!Init, Server!ServerOK, Server!TypeOK,
             Server!DescriptorsOwned, Server!Free
<1>4. batch \in Seq(Entry) /\ Len(batch) = 0
  BY EmptySeq DEF Init
<1>5. BatchSound
  BY <1>4 DEF Init, BatchSound, InBatch
<1>6. LoopSound
  BY DEF Init, Connection!Init, Server!Init, LoopSound, Connection!Open
<1>7. RoomIsAnnounced /\ WorkCovered
  BY DEF Init, Connection!Init, RoomIsAnnounced, WorkCovered, Due
<1>8. BacklogCovered
  BY DEF Init, Server!Init, BacklogCovered
<1> QED BY <1>1, <1>2, <1>3, <1>5, <1>6, <1>7, <1>8 DEF LoopIInv, ConnSound

LEMMA NextLoop == LoopIInv /\ [Next]_vars => LoopIInv'
<1> SUFFICES ASSUME LoopIInv, [Next]_vars PROVE LoopIInv'
  OBVIOUS
<1>1. CASE UNCHANGED vars
  <2>1. UNCHANGED <<conn, loop>> /\ UNCHANGED srv
    BY <1>1 DEF vars
  <2>2. Server!ServerOK' /\ UNCHANGED <<srvAt, conns, backlog, srvListed>>
    BY <2>1, SrvUntouched DEF LoopIInv
  <2>3. HasEvent("accept")' <=> HasEvent("accept")
    BY <2>1, BatchUntouched DEF loop
  <2>4. BacklogCovered'
    BY <2>1, <2>2, <2>3 DEF LoopIInv, BacklogCovered, loop
  <2> QED BY <2>1, <2>2, <2>4, ServerAlone DEF LoopIInv, LoopSound
<1> QED
  BY <1>1, ListeningStep, ConnectingStep, NetworkingStep, DestroyingStep, OnLoopStep, WaitStep,
     WaitInterruptedStep, ControlStep, DispatchEventStep, ReadingStep, WritingStep, AcceptingStep, OnAcceptStep,
     AcceptThrowsStep, OnAcceptThrowsStep, HandlerThrowsStep
     DEF Next

LEMMA AlwaysLoop == Spec => []LoopIInv
BY InitLoop, NextLoop, PTL DEF Spec

-----------------------------------------------------------------------------
(* For every capacity of rcb_, wcb_ and the socket: on_read and on_write   *)
(* stay within the rings, and closing is final, on_close coming twice at   *)
(* most.                                                                   *)
THEOREM ConnectionKeepsToItsRings == Spec => []ConnectionInv
<1>1. LoopIInv => ConnectionInv
  <2> SUFFICES ASSUME LoopIInv PROVE ConnectionInv
    OBVIOUS
  <2>1. Connection!TypeOK
    BY ConstantsAssumption DEF LoopIInv, ConnSound, ConnFlags, ConnCounts, Connection!TypeOK,
       Connection!Events, Events
  <2>2. Connection!OnlyOnWriteFollowsClose
    BY DEF LoopIInv, ConnSound, ConnFlags, ConnCounts, Connection!OnlyOnWriteFollowsClose
  <2> QED BY <2>1, <2>2 DEF ConnectionInv, Connection!ConnectionOK, LoopIInv, LoopSound
<1> QED BY <1>1, AlwaysLoop, PTL

(* For every descriptor limit and length of the backlog: listen and the    *)
(* accept loop own each descriptor they open, whatever call fails and      *)
(* whatever throws, on_accept with the new socket in its hands included,   *)
(* and a pointer to the connection is in the batch only while it is open.  *)
THEOREM ServerOwnsItsDescriptors == Spec => []ListenerInv
<1>1. LoopIInv => ListenerInv
  BY DEF LoopIInv, LoopSound, BatchSound, InBatch, ListenerInv
<1> QED BY <1>1, AlwaysLoop, PTL

(* Edge-triggered reading and writing lose no work: whatever the peer      *)
(* sends and in whatever order the callbacks run, what is ready is listed  *)
(* or in the batch unless an exception dropped it.                         *)
THEOREM NoWorkIsStranded == Spec => []NoStrandedWork
<1>1. LoopIInv => NoStrandedWork
  <2> SUFFICES ASSUME LoopIInv, at = "idle", NEW e \in Connection!Ready \ dropped
               PROVE  listed \/ InBatch("connection")
    BY DEF NoStrandedWork, Connection!NothingStranded
  <2>1. e \in Events
    BY DEF Connection!Ready, Connection!ReadyFor, Events
  <2>2. Due(e)
    BY <2>1, ReadyIsDue
  <2>3. listed \/ HasEvent(e)
    BY <2>1, <2>2 DEF LoopIInv, WorkCovered, Covered, ConnSound, ConnCounts, Events
  <2>4. ASSUME NEW i \in 1 .. Len(batch), e \in batch[i].events PROVE batch[i].who = "connection"
    <3>1. batch[i] \in Entry
      BY ElementOfSeq DEF LoopIInv, BatchSound
    <3> QED BY <2>1, <2>4, <3>1 DEF Entry, Events
  <2> QED BY <2>3, <2>4 DEF HasEvent, InBatch
<1> QED BY <1>1, AlwaysLoop, PTL

(* The accept loop forgets no waiting connection, for every backlog.       *)
THEOREM NoBacklogIsStranded == Spec => []NoStrandedBacklog
<1>1. LoopIInv => NoStrandedBacklog
  <2> SUFFICES ASSUME LoopIInv, srvAt = "idle", backlog > 0
               PROVE  srvListed \/ InBatch("server") \/ "accept" \in dropped
    BY DEF NoStrandedBacklog, Server!NothingStranded
  <2>1. ASSUME NEW i \in 1 .. Len(batch), "accept" \in batch[i].events PROVE batch[i].who = "server"
    <3>1. batch[i] \in Entry
      BY ElementOfSeq DEF LoopIInv, BatchSound
    <3> QED BY <2>1, <3>1 DEF Entry, Events
  <2> QED BY <2>1 DEF LoopIInv, BacklogCovered, HasEvent, InBatch
<1> QED BY <1>1, AlwaysLoop, PTL
=============================================================================
