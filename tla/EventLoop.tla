----------------------------- MODULE EventLoop -----------------------------
(***************************************************************************)
(* run_loop with a tcp_server and a tcp_connection made of one of the      *)
(* sockets it accepts: the event loop of EventDispatch over the listeners  *)
(* the library has.  Both callbacks run on the loop's thread, and an       *)
(* exception in one takes the batch, with the other's event, away.         *)
(*                                                                         *)
(* max_events is more than the two listeners, so a batch is the whole      *)
(* ready list; EventDispatch has the case of a longer one.                 *)
(***************************************************************************)
EXTENDS Integers, Sequences, SequencesExt

CONSTANTS
  ReadCapacity, WriteCapacity,  \* of rcb_ and wcb_
  SendSpace,                    \* the socket's send buffer
  RecvSpace,                    \* the socket's receive buffer
  MaxDescriptors,               \* RLIMIT_NOFILE
  MaxBacklog                    \* bound on the connections waiting to be accepted

ASSUME ConstantsAssumption ==
  /\ ReadCapacity \in Nat \ {0} /\ WriteCapacity \in Nat \ {0}
  /\ SendSpace \in Nat \ {0} /\ RecvSpace \in Nat \ {0}
  /\ MaxDescriptors \in Nat \ {0} /\ MaxBacklog \in Nat \ {0}

VARIABLES
  rcvq, eof, reset, sndq, nospace, listed, interest, rcb, wcb, at, events, closes,
  srvAt, unix, path, sock, server, conns, backlog, srvListed,
  phase,    \* where run_once is
  batch,    \* what is left of events[0 .. n - 1]
  dropped   \* the events an exception threw away, by the callback they were for

Connection == INSTANCE TcpConnection
Server == INSTANCE TcpServer WITH at <- srvAt, listed <- srvListed

conn == <<rcvq, eof, reset, sndq, nospace, listed, interest, rcb, wcb, at, events, closes>>
srv == <<srvAt, unix, path, sock, server, conns, backlog, srvListed>>
loop == <<phase, batch, dropped>>
vars == <<conn, srv, loop>>

Init ==
  /\ Connection!Init /\ Server!Init
  /\ phase = "loop" /\ batch = <<>> /\ dropped = {}

(* No callback is running and the server is up. *)
Returned == at = "idle" /\ srvAt = "idle"

-----------------------------------------------------------------------------
(* The client listens before it runs the loop. *)
Listening == Server!Starting /\ UNCHANGED <<conn, loop>>

Connecting == Server!Connect /\ UNCHANGED <<conn, loop>>

(* The peer acts on the connection, or on the socket it will be made of    *)
(* before that is registered.                                              *)
Networking ==
  /\ Connection!Open \/ at # "idle" \/ (closes = 0 /\ srvAt = "accepted")
  /\ Connection!Network
  /\ UNCHANGED <<srv, loop>>

(* The client is done with one of its other connections. *)
Destroying ==
  /\ phase = "loop" /\ Returned
  /\ conns > (IF Connection!Open \/ closes > 0 THEN 1 ELSE 0)
  /\ Server!CloseConnection
  /\ UNCHANGED <<conn, loop>>

(* run_once: on_loop, in which the client destroys the connection that was *)
(* closed,                                                                 *)
OnLoop ==
  /\ phase = "loop" /\ Returned
  /\ IF closes > 0
     THEN /\ Server!CloseConnection /\ Connection!Destroyed
          /\ dropped' = dropped \cap {"accept"}
     ELSE UNCHANGED <<conn, srv, dropped>>
  /\ phase' = "wait"
  /\ UNCHANGED batch

(* epoll_wait, which forgets what it reports and drops what is no longer   *)
(* ready,                                                                  *)
Reported ==
  (IF listed /\ Connection!Ready # {}
   THEN {[who |-> "connection", events |-> Connection!Ready]} ELSE {}) \cup
  (IF srvListed /\ backlog > 0 THEN {[who |-> "server", events |-> {"accept"}]} ELSE {})

(* Mutant: no event is a batch like any other, without on_timeout. *)
OnWaitIdly(n) == "next"

OnWait(n) == IF n = 0 THEN "timeout" ELSE "next"

EpollWait ==
  /\ phase = "wait"
  /\ listed' = FALSE /\ srvListed' = FALSE
  /\ UNCHANGED <<rcvq, eof, reset, sndq, nospace, interest, rcb, wcb, at, events, closes>>
  /\ UNCHANGED <<srvAt, unix, path, sock, server, conns, backlog, dropped>>

Wait ==
  /\ EpollWait
  /\ batch' \in SetToSeqs(Reported)
  /\ phase' = OnWait(Len(batch'))

(* or EINTR, when a signal comes before any event and before the timeout:  *)
(* run_once returns without on_timeout,                                    *)
WaitInterrupted ==
  /\ EpollWait
  /\ Reported = {}
  /\ phase' = "loop"
  /\ UNCHANGED batch

(* on_timeout, *)
OnTimeout ==
  /\ phase = "timeout"
  /\ phase' = "loop"
  /\ UNCHANGED <<conn, srv, batch, dropped>>

(* or the loop over the events. *)
DispatchEvent ==
  /\ phase = "next" /\ Returned /\ batch # <<>>
  /\ \/ Head(batch).who = "server" /\ Server!Start /\ UNCHANGED conn
     \/ Head(batch).who = "connection" /\ Connection!Start(Head(batch).events) /\ UNCHANGED srv
  /\ dropped' = dropped \ Head(batch).events
  /\ batch' = Tail(batch)
  /\ UNCHANGED phase

BatchDone ==
  /\ phase = "next" /\ Returned /\ batch = <<>>
  /\ phase' = "loop"
  /\ UNCHANGED <<conn, srv, batch, dropped>>

-----------------------------------------------------------------------------
Reading == Connection!Reading /\ UNCHANGED <<srv, loop>>

Writing == Connection!Writing /\ UNCHANGED <<srv, loop>>

Accepting == (Server!Accept \/ Server!AcceptAgain) /\ UNCHANGED <<conn, loop>>

(* on_accept makes the connection of the socket and registers it,          *)
MakeConnection == \E event \in (SUBSET {"read", "write"}) \ {{}} : Connection!Register(event)

(* or keeps the socket for something else or lets it go.                   *)
NoConnection ==
  IF Connection!Open \/ closes > 0 THEN UNCHANGED conn ELSE Connection!Destroyed

OnAccept ==
  /\ \/ Server!OnAccept(1) /\ MakeConnection
     \/ (\E kept \in 0 .. 1 : Server!OnAccept(kept)) /\ NoConnection
  /\ UNCHANGED loop

(* An exception leaves run_once and run_loop, with the callbacks that were *)
(* still to come; the client calls it again.                               *)
Throws(callbacks) ==
  /\ dropped' = dropped \cup callbacks \cup UNION {batch[i].events : i \in 1 .. Len(batch)}
  /\ batch' = <<>>
  /\ phase' = "loop"

AcceptThrows == Server!AcceptFails /\ UNCHANGED conn /\ Throws({"accept"})

(* on_accept throws; what it had registered or kept by then stays so.      *)
OnAcceptThrows ==
  /\ \/ Server!OnAcceptThrows(1) /\ MakeConnection
     \/ (\E kept \in 0 .. 1 : Server!OnAcceptThrows(kept)) /\ NoConnection
  /\ Throws({"accept"})

HandlerThrows ==
  /\ Connection!HandlerThrows \/ Connection!OnCloseThrows
  /\ UNCHANGED srv /\ Throws({at} \cup events)

Next ==
  \/ Listening \/ Connecting \/ Networking
  \/ Destroying \/ OnLoop \/ Wait \/ WaitInterrupted \/ OnTimeout \/ DispatchEvent \/ BatchDone
  \/ Reading \/ Writing \/ Accepting \/ OnAccept
  \/ AcceptThrows \/ OnAcceptThrows \/ HandlerThrows

Spec == Init /\ [][Next]_vars

(* The thread runs, epoll_wait returns somehow and handlers return or      *)
(* throw.                                                                  *)
Fairness ==
  /\ WF_vars(OnLoop) /\ WF_vars(Wait \/ WaitInterrupted) /\ WF_vars(OnTimeout)
  /\ WF_vars(DispatchEvent) /\ WF_vars(BatchDone)
  /\ WF_vars(Reading) /\ WF_vars(Writing)
  /\ WF_vars(Accepting \/ OnAccept \/ AcceptThrows \/ OnAcceptThrows)

FairSpec == Spec /\ Fairness

-----------------------------------------------------------------------------
(* Inside the loop, whatever the peer, the server and the handlers do,     *)
(* on_read and on_write of the connection keep to the rings' capacities    *)
(* and closing is final: only the on_write of the event in which on_read   *)
(* closed still runs, so on_close is called twice at most.                 *)
ConnectionInv ==
  /\ Connection!ConnectionOK
  /\ at # "idle" => phase = "next" /\ srvAt = "idle"

(* listen and the accept loop own every descriptor they have opened, on    *)
(* every error and exception, that of an on_accept which holds the new     *)
(* socket included, and the accept loop runs only from run_once.           *)
ListenerInv ==
  /\ Server!ServerOK
  /\ srvAt \in {"accept", "accepted"} => phase = "next"
  /\ phase \in {"loop", "wait", "timeout", "next"}
  /\ Connection!Open \/ closes > 0 => conns > 0
  /\ \A i \in 1 .. Len(batch) : batch[i].who = "connection" => Connection!Open

InBatch(who) == \E i \in 1 .. Len(batch) : batch[i].who = who

(* The edge-triggered connection never sleeps on work: input, an end of    *)
(* stream, an error or room to write is on its way, as an event or in the  *)
(* batch, unless an exception left it behind: of the handler itself or of  *)
(* the other listener in the same batch.                                   *)
NoStrandedWork == Connection!NothingStranded(dropped) \/ InBatch("connection")

(* Likewise the connections waiting to be accepted. *)
NoStrandedBacklog == Server!NothingStranded \/ InBatch("server") \/ "accept" \in dropped

(* Three loops end only if the outside lets them: on_read of a server that *)
(* peers keep connecting to, on_read of a connection whose peer keeps      *)
(* sending, and on_write of one with always more to send and room for it.  *)
CallbacksEnd == []<>Returned

(* Whatever the peer sends is taken into rcb_, or the connection is        *)
(* closed, unless a callback of the loop never ends or an exception drops  *)
(* the event.                                                              *)
InputIsTakenIn ==
  CallbacksEnd => (rcvq > 0 /\ "read" \in interest
                     ~> rcvq = 0 \/ ~Connection!Open \/ "read" \in dropped)

(* Signals come to an end. *)
SignalsEnd == <>[][~WaitInterrupted]_vars

(* Timeouts are looked at only when epoll_wait returns for want of events, *)
(* so an expired one waits while sockets stay busy, while signals come     *)
(* more often than epoll_wait's timeout and while a callback does not end. *)
(* Nothing else starves it: without these on_timeout is called again and   *)
(* again, whatever was accepted, closed or thrown.                         *)
TimeoutStarvedOnlyFromOutside ==
  CallbacksEnd /\ SignalsEnd /\ <>[](server = 1 /\ ~listed /\ ~srvListed)
    => []<>(phase = "timeout")
=============================================================================
