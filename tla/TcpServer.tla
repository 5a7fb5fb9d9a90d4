----------------------------- MODULE TcpServer -----------------------------
(***************************************************************************)
(* tcp_server: listen() on a Unix path or an IP address, and the           *)
(* edge-triggered accept loop of on_read.  Descriptors are owned by        *)
(* file_descriptor objects, whose destructors close them on every early    *)
(* return and exception; they are a bounded resource of the process.       *)
(* EventLoop puts the server under run_once.                               *)
(***************************************************************************)
EXTENDS Integers

CONSTANTS MaxDescriptors,  \* RLIMIT_NOFILE
          MaxBacklog       \* bound on the connections waiting to be accepted

VARIABLES
  at,       \* where listen() or on_read() is, "idle" when the server waits
  unix,     \* listen() was called with a path
  path,     \* what is at that path: nothing, a socket of this server, or another file
  sock,     \* 1 while the local file_descriptor of listen() or on_read() owns one
  server,   \* 1 while the server owns its listening socket
  conns,    \* accepted connections the client keeps
  backlog,  \* connections waiting to be accepted
  listed    \* the listening socket is on epoll's ready list

vars == <<at, unix, path, sock, server, conns, backlog, listed>>

Free == MaxDescriptors - sock - server - conns

TypeOK ==
  /\ at \in {"down", "nonblocking", "unlink", "bind", "listen", "idle", "accept", "accepted"}
  /\ unix \in BOOLEAN
  /\ path \in {"absent", "ours", "other"}
  /\ sock \in 0 .. 1 /\ server \in 0 .. 1
  /\ conns \in 0 .. MaxDescriptors
  /\ backlog \in 0 .. MaxBacklog
  /\ listed \in BOOLEAN

Init ==
  /\ at = "down" /\ unix \in BOOLEAN
  /\ path \in IF unix THEN {"absent", "other"} ELSE {"absent"}
  /\ sock = 0 /\ server = 0 /\ conns = 0
  /\ backlog = 0 /\ listed = FALSE

-----------------------------------------------------------------------------
serving == <<conns, backlog, listed>>

(* Mutant: the destructor does not close. *)
LeaveScopeLeaks == UNCHANGED sock

(* ~file_descriptor of the local. *)
LeaveScope == sock' = 0

(* listen(): each of its calls may fail.                                   *)

Socket ==
  /\ at = "down" /\ Free > 0
  /\ sock' = 1
  /\ at' = "nonblocking"
  /\ UNCHANGED <<unix, path, server, serving>>

SetNonblocking ==
  /\ at = "nonblocking"
  /\ at' = IF unix THEN "unlink" ELSE "bind"
  /\ UNCHANGED <<unix, path, sock, server, serving>>

(* ENOENT is no failure. *)
Unlink ==
  /\ at = "unlink"
  /\ path' = "absent"
  /\ at' = "bind"
  /\ UNCHANGED <<unix, sock, server, serving>>

Bind ==
  /\ at = "bind" /\ (unix => path = "absent")
  /\ path' = IF unix THEN "ours" ELSE path
  /\ at' = "listen"
  /\ UNCHANGED <<unix, sock, server, serving>>

(* sock.release() hands the socket to the tcp_server that is made of it    *)
(* and registered; how it was bound matters no more.                       *)
Listen ==
  /\ at = "listen"
  /\ server' = sock /\ sock' = 0
  /\ unix' = FALSE /\ path' = "absent"
  /\ at' = "idle"
  /\ UNCHANGED serving

(* Whichever call fails, listen returns -1 and its file_descriptor closes  *)
(* the socket; so does the tcp_server when its registration throws.        *)
ListenFails ==
  /\ at \in {"nonblocking", "unlink", "bind", "listen"}
  /\ LeaveScope
  /\ at' = "down"
  /\ UNCHANGED <<unix, path, server, serving>>

(* Somebody else binds the path between our unlink and our bind. *)
PathTaken ==
  /\ unix /\ path = "absent"
  /\ path' = "other"
  /\ UNCHANGED <<at, unix, sock, server, serving>>

-----------------------------------------------------------------------------
listening == <<unix, path, server>>

Connect ==
  /\ server = 1 /\ backlog < MaxBacklog
  /\ backlog' = backlog + 1
  /\ listed' = TRUE
  /\ UNCHANGED <<at, sock, conns, listening>>

(* The client closes a connection it was given. *)
CloseConnection ==
  /\ conns > 0
  /\ conns' = conns - 1
  /\ UNCHANGED <<at, sock, backlog, listed, listening>>

(* run_once calls on_read. *)
Start ==
  /\ at = "idle"
  /\ at' = "accept"
  /\ UNCHANGED <<sock, conns, backlog, listed, listening>>

(* accept4 returns a connection, *)
Accept ==
  /\ at = "accept" /\ backlog > 0 /\ Free > 0
  /\ backlog' = backlog - 1
  /\ sock' = 1
  /\ at' = "accepted"
  /\ UNCHANGED <<conns, listed, listening>>

(* Mutant: the loop ends after one connection. *)
AcceptOnce == at' = "idle"

AcceptMore == at' = "accept"

(* which on_accept, client code, keeps or lets go. *)
HandOver(kept) ==
  /\ at = "accepted"
  /\ conns' = conns + kept
  /\ LeaveScope
  /\ UNCHANGED <<backlog, listed, listening>>

(* It returns, and the loop goes on, *)
OnAccept(kept) == HandOver(kept) /\ AcceptMore

(* or throws: create_cb or register_io_listener failed, or what the client *)
(* does besides, before or after it has put the descriptor away.           *)
OnAcceptThrows(kept) == HandOver(kept) /\ at' = "idle"

(* EAGAIN ends the loop, *)
AcceptAgain ==
  /\ at = "accept" /\ backlog = 0 /\ Free > 0
  /\ at' = "idle"
  /\ UNCHANGED <<sock, conns, backlog, listed, listening>>

(* and any other error throws: ECONNABORTED takes a connection off the     *)
(* queue; EMFILE leaves the queue alone and comes even when it is empty,   *)
(* for the system looks for a descriptor first.                            *)
AcceptFails ==
  /\ at = "accept"
  /\ \/ Free = 0 /\ UNCHANGED backlog
     \/ Free > 0 /\ backlog > 0 /\ backlog' = backlog - 1
  /\ at' = "idle"
  /\ UNCHANGED <<sock, conns, listed, listening>>

Starting == Socket \/ SetNonblocking \/ Unlink \/ Bind \/ Listen \/ ListenFails \/ PathTaken

-----------------------------------------------------------------------------
(* No connection is forgotten in the backlog: outside on_read, a waiting   *)
(* connection has an event on its way.                                     *)
NothingStranded == at = "idle" /\ backlog > 0 => listed

(* Whatever call fails or throws, on_accept with the accepted socket in    *)
(* its hands included, no descriptor outlives its owner: listen keeps a    *)
(* socket only if it succeeded, on_read none, and the server is up exactly *)
(* when it owns the listening socket.                                      *)
DescriptorsOwned ==
  /\ sock = 1 <=> at \in {"nonblocking", "unlink", "bind", "listen", "accepted"}
  /\ server = 1 <=> at \in {"idle", "accept", "accepted"}
  /\ Free >= 0

ServerOK == TypeOK /\ DescriptorsOwned
=============================================================================
