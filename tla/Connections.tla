---------------------------- MODULE Connections -----------------------------
(***************************************************************************)
(* connect_file and accept_file at the two ends of one listening socket.   *)
(*                                                                         *)
(* async_connect calls connect() at once; it waits for POLLOUT only when   *)
(* the attempt goes on, and asks the socket then how it went.              *)
(* async_accept waits for POLLIN, calls accept4(), and starts again when   *)
(* another accept, or another process that listens on the socket, has been *)
(* faster.                                                                 *)
(*                                                                         *)
(* The kernel's part is what connect(2), accept(2), poll(2) and socket(7)  *)
(* say of stream sockets, over a network or local.                         *)
(***************************************************************************)
EXTENDS Integers, Sequences, FiniteSets

CONSTANTS
  Clients,  \* connect operations, each on a socket of its own
  Accepts,  \* accept operations on the listening socket
  Backlog,  \* connections that the listening socket holds
  Null      \* no connection

ASSUME BacklogAssumption == Backlog \in Nat \ {0}
ASSUME NullAssumption == Null \notin Clients

VARIABLES
  socket,   \* socket[c]: state of the client's socket
  sentTo,   \* sentTo[c]: how far the connect operation is
  sentErr,  \* sentErr[c]: its error_code
  asked,    \* asked[c]: connect_error was consulted
  queue,    \* connections made and not accepted
  phase,    \* phase[a]: how far the accept operation is
  err,      \* err[a]: its error_code
  conn,     \* conn[a]: the connection that its handler got
  stolen    \* connections that another process accepted

client == <<socket, sentTo, sentErr, asked>>
server == <<phase, err, conn>>
vars == <<client, queue, server, stolen>>

(* polling: with the kernel; ready, failed: the cqe says so; trying: the   *)
(* invoker runs; posted: to be called with the error at hand.              *)
Phases == {"idle", "polling", "ready", "failed", "posted", "trying", "called", "dropped"}

TypeOK ==
  /\ socket \in [Clients -> {"fresh", "connecting", "established", "refused"}]
  /\ sentTo \in [Clients -> Phases]
  /\ sentErr \in [Clients -> BOOLEAN]
  /\ asked \in [Clients -> BOOLEAN]
  /\ queue \in Seq(Clients) /\ Len(queue) <= Backlog
  /\ phase \in [Accepts -> Phases]
  /\ err \in [Accepts -> BOOLEAN]
  /\ conn \in [Accepts -> Clients \cup {Null}]
  /\ stolen \in SUBSET Clients

Init ==
  /\ socket = [c \in Clients |-> "fresh"]
  /\ sentTo = [c \in Clients |-> "idle"]
  /\ sentErr = [c \in Clients |-> FALSE]
  /\ asked = [c \in Clients |-> FALSE]
  /\ queue = <<>>
  /\ phase = [a \in Accepts |-> "idle"]
  /\ err = [a \in Accepts |-> FALSE]
  /\ conn = [a \in Accepts |-> Null]
  /\ stolen = {}

-----------------------------------------------------------------------------
(***************************************************************************)
(* connect_file.                                                           *)
(***************************************************************************)

Establish(c) ==
  /\ Len(queue) < Backlog
  /\ socket' = [socket EXCEPT ![c] = "established"]
  /\ queue' = Append(queue, c)

(* What connect(2) may return, and how it leaves the socket: a network     *)
(* attempt goes on by itself, a local one that finds no room does not.     *)
KernelConnects(c, r) ==
  \/ r = "0" /\ Establish(c)
  \/ /\ r = "EINPROGRESS"
     /\ socket' = [socket EXCEPT ![c] = "connecting"] /\ UNCHANGED queue
  \/ /\ r = "EAGAIN" /\ Len(queue) = Backlog
     /\ UNCHANGED <<socket, queue>>
  \/ /\ r = "ECONNREFUSED"
     /\ socket' = [socket EXCEPT ![c] = "refused"] /\ UNCHANGED queue

(* asio_uring::connect: whether the connection was made, and the error.    *)
Connected(r) == r = "0"
ConnectErrc(r) == r \notin {"0", "EAGAIN", "EINPROGRESS"}

(* async_connect: posts what is known at once, waits for POLLOUT otherwise.*)
AsyncConnect(c) ==
  /\ sentTo[c] = "idle"
  /\ \E r \in {"0", "EINPROGRESS", "EAGAIN", "ECONNREFUSED"} :
       /\ KernelConnects(c, r)
       /\ sentErr' = [sentErr EXCEPT ![c] = ConnectErrc(r)]
       /\ sentTo' = [sentTo EXCEPT ![c] =
                       IF Connected(r) \/ ConnectErrc(r) THEN "posted" ELSE "polling"]
  /\ UNCHANGED <<asked, server, stolen>>

(* The service throws: the handler dies, the socket goes on by itself.     *)
AsyncConnectThrows(c) ==
  /\ sentTo[c] = "idle"
  /\ \E r \in {"EINPROGRESS", "EAGAIN"} : KernelConnects(c, r)
  /\ sentTo' = [sentTo EXCEPT ![c] = "dropped"]
  /\ UNCHANGED <<sentErr, asked, server, stolen>>

HandshakeDone(c) ==
  /\ socket[c] = "connecting"
  /\ Establish(c)
  /\ UNCHANGED <<sentTo, sentErr, asked, server, stolen>>

HandshakeFails(c) ==
  /\ socket[c] = "connecting"
  /\ socket' = [socket EXCEPT ![c] = "refused"]
  /\ UNCHANGED <<sentTo, sentErr, asked, queue, server, stolen>>

(* A socket that does not connect is writable, or hung up.                 *)
PollOut(c) == socket[c] # "connecting"

ConnectPolled(c) ==
  /\ sentTo[c] = "polling"
  /\ \/ PollOut(c) /\ sentTo' = [sentTo EXCEPT ![c] = "ready"]
     \/ sentTo' = [sentTo EXCEPT ![c] = "failed"]
  /\ UNCHANGED <<socket, sentErr, asked, queue, server, stolen>>

(* connect_error: SO_ERROR of the socket.                                  *)
ConnectError(c) == socket[c] = "refused"

(* Faulty: a socket that is writable is connected. *)
ConnectCompletesUnasked(c) ==
  /\ \/ /\ sentTo[c] = "ready" /\ sentErr' = [sentErr EXCEPT ![c] = FALSE]
        /\ asked' = [asked EXCEPT ![c] = TRUE]
     \/ /\ sentTo[c] = "failed" /\ sentErr' = [sentErr EXCEPT ![c] = TRUE]
        /\ UNCHANGED asked
     \/ sentTo[c] = "posted" /\ UNCHANGED <<sentErr, asked>>
  /\ sentTo' = [sentTo EXCEPT ![c] = "called"]
  /\ UNCHANGED <<socket, queue, server, stolen>>

(* The invoker of async_connect, or the handler as it was posted.          *)
ConnectCompletes(c) ==
  /\ \/ /\ sentTo[c] = "ready" /\ sentErr' = [sentErr EXCEPT ![c] = ConnectError(c)]
        /\ asked' = [asked EXCEPT ![c] = TRUE]
     \/ /\ sentTo[c] = "failed" /\ sentErr' = [sentErr EXCEPT ![c] = TRUE]
        /\ UNCHANGED asked
     \/ sentTo[c] = "posted" /\ UNCHANGED <<sentErr, asked>>
  /\ sentTo' = [sentTo EXCEPT ![c] = "called"]
  /\ UNCHANGED <<socket, queue, server, stolen>>

-----------------------------------------------------------------------------
(***************************************************************************)
(* accept_file.                                                            *)
(***************************************************************************)

AsyncAccept(a) ==
  /\ phase[a] = "idle"
  /\ phase' = [phase EXCEPT ![a] = "polling"]
  /\ UNCHANGED <<client, queue, err, conn, stolen>>

AsyncAcceptThrows(a) ==
  /\ phase[a] = "idle"
  /\ phase' = [phase EXCEPT ![a] = "dropped"]
  /\ UNCHANGED <<client, queue, err, conn, stolen>>

(* Faulty: waits for POLLOUT, as async_connect does. *)
AcceptReadyOut(a) == phase[a] = "polling" /\ FALSE

(* The poll of async_poll_then<true> finds a connection.                   *)
AcceptReady(a) == phase[a] = "polling" /\ queue # <<>>

AcceptPolled(a) ==
  /\ AcceptReady(a)
  /\ phase' = [phase EXCEPT ![a] = "ready"]
  /\ UNCHANGED <<client, queue, err, conn, stolen>>

AcceptPollFails(a) ==
  /\ phase[a] = "polling"
  /\ phase' = [phase EXCEPT ![a] = "failed"]
  /\ UNCHANGED <<client, queue, err, conn, stolen>>

Deliver(a, e, c) ==
  /\ phase' = [phase EXCEPT ![a] = "called"]
  /\ err' = [err EXCEPT ![a] = e]
  /\ conn' = [conn EXCEPT ![a] = c]
  /\ UNCHANGED <<client, stolen>>

(* The invoker runs, on the executor of the handler.                       *)
AcceptCompletes(a) ==
  \/ phase[a] = "failed" /\ Deliver(a, TRUE, Null) /\ UNCHANGED queue
  \/ /\ phase[a] = "ready"
     /\ phase' = [phase EXCEPT ![a] = "trying"]
     /\ UNCHANGED <<client, queue, err, conn, stolen>>

(* Faulty: starts again when it has delivered a connection, too. *)
AcceptTakesAgain(a) ==
  /\ phase[a] = "trying" /\ queue # <<>>
  /\ phase' = [phase EXCEPT ![a] = "polling"]
  /\ conn' = [conn EXCEPT ![a] = Head(queue)]
  /\ queue' = Tail(queue)
  /\ UNCHANGED <<client, err, stolen>>

(* Faulty: takes a connection although there is none. *)
AcceptTakesUnchecked(a) ==
  /\ phase[a] = "trying"
  /\ Deliver(a, FALSE, IF queue = <<>> THEN -1 ELSE Head(queue))
  /\ queue' = IF queue = <<>> THEN queue ELSE Tail(queue)

AcceptTakes(a) ==
  /\ phase[a] = "trying" /\ queue # <<>>
  /\ Deliver(a, FALSE, Head(queue))
  /\ queue' = Tail(queue)

(* No descriptor to be had (EMFILE), or the like.                          *)
AcceptFails(a) ==
  /\ phase[a] = "trying"
  /\ Deliver(a, TRUE, Null)
  /\ UNCHANGED queue

(* EAGAIN: the operation starts again ...                                  *)
AcceptAgain(a) ==
  /\ phase[a] = "trying" /\ queue = <<>>
  /\ phase' = [phase EXCEPT ![a] = "polling"]
  /\ UNCHANGED <<client, queue, err, conn, stolen>>

(* ... unless that throws.                                                 *)
AcceptAgainThrows(a) ==
  /\ phase[a] = "trying" /\ queue = <<>>
  /\ phase' = [phase EXCEPT ![a] = "dropped"]
  /\ UNCHANGED <<client, queue, err, conn, stolen>>

(* Another process that has the listening socket.                          *)
OtherAccepts ==
  /\ queue # <<>>
  /\ stolen' = stolen \cup {Head(queue)}
  /\ queue' = Tail(queue)
  /\ UNCHANGED <<client, server>>

AcceptRuns(a) ==
  \/ AcceptPolled(a) \/ AcceptCompletes(a)
  \/ AcceptTakes(a) \/ AcceptFails(a) \/ AcceptAgain(a) \/ AcceptAgainThrows(a)
ConnectRuns(c) == ConnectPolled(c) \/ ConnectCompletes(c)

Next ==
  \/ \E c \in Clients :
       \/ AsyncConnect(c) \/ AsyncConnectThrows(c)
       \/ HandshakeDone(c) \/ HandshakeFails(c) \/ ConnectRuns(c)
  \/ \E a \in Accepts :
       \/ AsyncAccept(a) \/ AsyncAcceptThrows(a) \/ AcceptPollFails(a)
       \/ AcceptRuns(a)
  \/ OtherAccepts

(* The kernel completes a poll of a ready socket, and the threads that run *)
(* the handlers go on.  Nobody has to connect, to accept or to answer.     *)
Fairness ==
  /\ \A a \in Accepts : WF_vars(AcceptRuns(a))
  /\ \A c \in Clients : WF_vars(ConnectRuns(c))

Spec == Init /\ [][Next]_vars /\ Fairness

-----------------------------------------------------------------------------
(***************************************************************************)
(* Properties.                                                             *)
(***************************************************************************)

Places(c) ==
  {i \in DOMAIN queue : queue[i] = c} \cup {a \in Accepts : conn[a] = c}
    \cup (IF c \in stolen THEN {Null} ELSE {})

(* No connection is lost between the kernel and the handlers, nor given to *)
(* two of them, however accepts overtake each other; and a handler is told *)
(* of an error exactly when it gets none.                                  *)
EachDeliveredOnce ==
  /\ \A c \in Clients :
       Cardinality(Places(c)) = IF socket[c] = "established" THEN 1 ELSE 0
  /\ \A a \in Accepts : phase[a] = "called" => (err[a] <=> conn[a] = Null)

(* The socket of an attempt that connect() began or refused.  One that it  *)
(* turned away with EAGAIN stays as it was.                                *)
Attempted(c) == socket[c] # "fresh"

(* What async_connect reports of an attempt is how that ended, although it *)
(* ends while nobody waits for it, or while its cqe or handler is under    *)
(* way: success is not claimed of a socket that was refused or still       *)
(* connects, and an error that was asked of the socket, after POLLOUT, is  *)
(* that of a refusal.  (Without an attempt: ConnectTruthful.)              *)
AttemptTruthful ==
  \A c \in Clients : sentTo[c] = "called" /\ Attempted(c) =>
    /\ ~sentErr[c] => socket[c] = "established"
    /\ sentErr[c] /\ asked[c] => socket[c] = "refused"

(* While there is a connection to accept, an accept that waits does not    *)
(* wait for ever, and nor does a connect once its attempt has ended.       *)
OperationsComplete ==
  /\ \A a \in Accepts :
       phase[a] = "polling" /\ queue # <<>>
         ~> queue = <<>> \/ phase[a] \in {"called", "dropped"}
  /\ \A c \in Clients :
       sentTo[c] = "polling" /\ socket[c] # "connecting" ~> sentTo[c] = "called"

-----------------------------------------------------------------------------
(* connect_file.hpp:36-37: the sole argument of the handler "gives the     *)
(* result of the operation", and connect.hpp:102-105: connect_error gives  *)
(* "the result ... of the asynchronous connect".  No error means that the  *)
(* socket is connected.                                                    *)
ConnectTruthful ==
  \A c \in Clients : sentTo[c] = "called" /\ ~sentErr[c] => socket[c] = "established"
=============================================================================
