------------------------- MODULE Connections_proofs -------------------------
(***************************************************************************)
(* Proofs about Connections, for any number of clients and accepts.  A     *)
(* connection is in one place (PlaceInv), and a client's error_code goes   *)
(* with what became of its attempt to connect, if there was one            *)
(* (ClientInv).                                                            *)
(***************************************************************************)
EXTENDS Connections, FiniteSetTheorems, TLAPS

(* Where a connection may be.                                              *)
Queued(c) == \E i \in 1..Len(queue) : queue[i] = c
Accepted(c) == \E a \in Accepts : conn[a] = c

PlaceInv ==
  /\ \A i, j \in 1..Len(queue) : queue[i] = queue[j] => i = j
  /\ \A a, b \in Accepts : conn[a] = conn[b] /\ conn[a] # Null => a = b
  /\ \A c \in Clients :
       /\ socket[c] = "established" <=> Queued(c) \/ Accepted(c) \/ c \in stolen
       /\ ~(Queued(c) /\ Accepted(c))
       /\ c \in stolen => ~Queued(c) /\ ~Accepted(c)

(* An accept has a result when its handler was called, and not before.     *)
ResultInv ==
  \A a \in Accepts :
    /\ phase[a] # "called" => conn[a] = Null
    /\ phase[a] = "called" => (err[a] <=> conn[a] = Null)

(* What became of a socket stays so.  Nobody asks it before it has polled  *)
(* as writable.                                                            *)
ClientInv ==
  \A c \in Clients :
    /\ sentTo[c] = "idle" => socket[c] = "fresh"
    /\ sentTo[c] # "called" => ~asked[c]
    /\ sentTo[c] = "ready" => socket[c] # "connecting"
    /\ sentTo[c] = "posted" /\ ~sentErr[c] => socket[c] = "established"
    /\ sentTo[c] = "called" =>
         /\ ~sentErr[c] => socket[c] \in {"established", "fresh"}
         /\ sentErr[c] /\ asked[c] => socket[c] = "refused"

LEMMA TypeStep == TypeOK /\ [Next]_vars => TypeOK'
<1> SUFFICES ASSUME TypeOK, [Next]_vars PROVE TypeOK'
    OBVIOUS
<1> USE BacklogAssumption, NullAssumption DEF TypeOK, Phases
<1>1. ASSUME NEW c \in Clients, AsyncConnect(c) PROVE TypeOK'
  <2>1. PICK r \in {"0", "EINPROGRESS", "EAGAIN", "ECONNREFUSED"} :
          /\ KernelConnects(c, r)
          /\ sentErr' = [sentErr EXCEPT ![c] = ConnectErrc(r)]
          /\ sentTo' = [sentTo EXCEPT ![c] = IF Connected(r) \/ ConnectErrc(r)
                                               THEN "posted" ELSE "polling"]
    BY <1>1 DEF AsyncConnect
  <2>2. sentTo[c] = "idle" /\ UNCHANGED <<asked, server, stolen>>
    BY <1>1 DEF AsyncConnect
  <2>3. /\ sentErr' \in [Clients -> BOOLEAN]
        /\ sentTo' \in [Clients -> Phases]
    BY <2>1 DEF ConnectErrc
  <2>4. CASE Establish(c)
    BY <2>2, <2>3, <2>4 DEF Establish, server
  <2>5. CASE ~Establish(c)
    BY <2>1, <2>2, <2>3, <2>5 DEF KernelConnects, server
  <2>6. QED BY <2>4, <2>5
<1>2. ASSUME NEW c \in Clients, AsyncConnectThrows(c) PROVE TypeOK'
  BY <1>2 DEF AsyncConnectThrows, KernelConnects, Establish, client, server
<1>3. ASSUME NEW c \in Clients, HandshakeDone(c) PROVE TypeOK'
  BY <1>3 DEF HandshakeDone, Establish, client, server
<1>4. ASSUME NEW c \in Clients, HandshakeFails(c) PROVE TypeOK'
  BY <1>4 DEF HandshakeFails, client, server
<1>5. ASSUME NEW c \in Clients, ConnectPolled(c) PROVE TypeOK'
  BY <1>5 DEF ConnectPolled, PollOut, client, server
<1>6. ASSUME NEW c \in Clients, ConnectCompletes(c) PROVE TypeOK'
  BY <1>6 DEF ConnectCompletes, ConnectError, client, server
<1>7. ASSUME NEW a \in Accepts, AsyncAccept(a) PROVE TypeOK'
  BY <1>7 DEF AsyncAccept, client, server
<1>8. ASSUME NEW a \in Accepts, AsyncAcceptThrows(a) PROVE TypeOK'
  BY <1>8 DEF AsyncAcceptThrows, client, server
<1>9. ASSUME NEW a \in Accepts, AcceptPollFails(a) PROVE TypeOK'
  BY <1>9 DEF AcceptPollFails, client, server
<1>10. ASSUME NEW a \in Accepts, AcceptPolled(a) PROVE TypeOK'
  BY <1>10 DEF AcceptPolled, AcceptReady, client, server
<1>11. ASSUME NEW a \in Accepts, AcceptCompletes(a) PROVE TypeOK'
  BY <1>11 DEF AcceptCompletes, Deliver, client, server
<1>12. ASSUME NEW a \in Accepts, AcceptTakes(a) PROVE TypeOK'
  BY <1>12 DEF AcceptTakes, Deliver, client, server
<1>13. ASSUME NEW a \in Accepts, AcceptFails(a) PROVE TypeOK'
  BY <1>13 DEF AcceptFails, Deliver, client, server
<1>14. ASSUME NEW a \in Accepts, AcceptAgain(a) PROVE TypeOK'
  BY <1>14 DEF AcceptAgain, client, server
<1>15. ASSUME NEW a \in Accepts, AcceptAgainThrows(a) PROVE TypeOK'
  BY <1>15 DEF AcceptAgainThrows, client, server
<1>16. CASE OtherAccepts
  BY <1>16 DEF OtherAccepts, client, server
<1>17. CASE UNCHANGED vars
  BY <1>17 DEF vars, client, server
<1> HIDE DEF TypeOK, Phases
<1>18. QED
  BY <1>1, <1>2, <1>3, <1>4, <1>5, <1>6, <1>7, <1>8, <1>9, <1>10, <1>11, <1>12,
     <1>13, <1>14, <1>15, <1>16, <1>17
  DEF Next, AcceptRuns, ConnectRuns

LEMMA ClientStep == TypeOK /\ ClientInv /\ [Next]_vars => ClientInv'
<1> SUFFICES ASSUME TypeOK, ClientInv, [Next]_vars PROVE ClientInv'
    OBVIOUS
<1> USE DEF TypeOK, ClientInv, Phases
<1>1. ASSUME NEW c \in Clients, AsyncConnect(c) PROVE ClientInv'
  <2>1. PICK r \in {"0", "EINPROGRESS", "EAGAIN", "ECONNREFUSED"} :
          /\ KernelConnects(c, r)
          /\ sentErr' = [sentErr EXCEPT ![c] = ConnectErrc(r)]
          /\ sentTo' = [sentTo EXCEPT ![c] = IF Connected(r) \/ ConnectErrc(r)
                                               THEN "posted" ELSE "polling"]
    BY <1>1 DEF AsyncConnect
  <2>2. sentTo[c] = "idle" /\ UNCHANGED <<asked, server, stolen>>
    BY <1>1 DEF AsyncConnect
  <2>3. \A x \in Clients \ {c} :
          /\ socket'[x] = socket[x] /\ sentTo'[x] = sentTo[x]
          /\ sentErr'[x] = sentErr[x] /\ asked'[x] = asked[x]
    BY <2>1, <2>2 DEF KernelConnects, Establish
  <2>4. /\ sentTo'[c] \in {"posted", "polling"} /\ ~asked'[c]
        /\ sentTo'[c] = "posted" /\ ~sentErr'[c] => r = "0"
    BY <2>1, <2>2 DEF Connected, ConnectErrc
  <2>5. r = "0" => socket'[c] = "established"
    BY <2>1 DEF KernelConnects, Establish
  <2>6. QED BY <2>3, <2>4, <2>5
<1>2. ASSUME NEW c \in Clients, AsyncConnectThrows(c) PROVE ClientInv'
  BY <1>2 DEF AsyncConnectThrows, KernelConnects, Establish, client, server
<1>3. ASSUME NEW c \in Clients, HandshakeDone(c) PROVE ClientInv'
  BY <1>3 DEF HandshakeDone, Establish, client, server
<1>4. ASSUME NEW c \in Clients, HandshakeFails(c) PROVE ClientInv'
  BY <1>4 DEF HandshakeFails, client, server
<1>5. ASSUME NEW c \in Clients, ConnectPolled(c) PROVE ClientInv'
  BY <1>5 DEF ConnectPolled, PollOut, client, server
<1>6. ASSUME NEW c \in Clients, ConnectCompletes(c) PROVE ClientInv'
  BY <1>6 DEF ConnectCompletes, ConnectError, client, server
<1>7. ASSUME NEW a \in Accepts, AsyncAccept(a) PROVE ClientInv'
  BY <1>7 DEF AsyncAccept, client, server
<1>8. ASSUME NEW a \in Accepts, AsyncAcceptThrows(a) PROVE ClientInv'
  BY <1>8 DEF AsyncAcceptThrows, client, server
<1>9. ASSUME NEW a \in Accepts, AcceptPollFails(a) PROVE ClientInv'
  BY <1>9 DEF AcceptPollFails, client, server
<1>10. ASSUME NEW a \in Accepts, AcceptPolled(a) PROVE ClientInv'
  BY <1>10 DEF AcceptPolled, AcceptReady, client, server
<1>11. ASSUME NEW a \in Accepts, AcceptCompletes(a) PROVE ClientInv'
  BY <1>11 DEF AcceptCompletes, Deliver, client, server
<1>12. ASSUME NEW a \in Accepts, AcceptTakes(a) PROVE ClientInv'
  BY <1>12 DEF AcceptTakes, Deliver, client, server
<1>13. ASSUME NEW a \in Accepts, AcceptFails(a) PROVE ClientInv'
  BY <1>13 DEF AcceptFails, Deliver, client, server
<1>14. ASSUME NEW a \in Accepts, AcceptAgain(a) PROVE ClientInv'
  BY <1>14 DEF AcceptAgain, client, server
<1>15. ASSUME NEW a \in Accepts, AcceptAgainThrows(a) PROVE ClientInv'
  BY <1>15 DEF AcceptAgainThrows, client, server
<1>16. CASE OtherAccepts
  BY <1>16 DEF OtherAccepts, client, server
<1>17. CASE UNCHANGED vars
  BY <1>17 DEF vars, client, server
<1> HIDE DEF TypeOK, ClientInv, Phases
<1>18. QED
  BY <1>1, <1>2, <1>3, <1>4, <1>5, <1>6, <1>7, <1>8, <1>9, <1>10, <1>11, <1>12,
     <1>13, <1>14, <1>15, <1>16, <1>17
  DEF Next, AcceptRuns, ConnectRuns

LEMMA ResultStep == TypeOK /\ ResultInv /\ [Next]_vars => ResultInv'
<1> SUFFICES ASSUME TypeOK, ResultInv, [Next]_vars PROVE ResultInv'
    OBVIOUS
<1> USE NullAssumption DEF TypeOK, ResultInv, Phases
<1>1. ASSUME NEW c \in Clients, AsyncConnect(c) PROVE ResultInv'
  BY <1>1 DEF AsyncConnect, KernelConnects, Establish, Connected, ConnectErrc,
     client, server
<1>2. ASSUME NEW c \in Clients, AsyncConnectThrows(c) PROVE ResultInv'
  BY <1>2 DEF AsyncConnectThrows, KernelConnects, Establish, client, server
<1>3. ASSUME NEW c \in Clients, HandshakeDone(c) PROVE ResultInv'
  BY <1>3 DEF HandshakeDone, Establish, client, server
<1>4. ASSUME NEW c \in Clients, HandshakeFails(c) PROVE ResultInv'
  BY <1>4 DEF HandshakeFails, client, server
<1>5. ASSUME NEW c \in Clients, ConnectPolled(c) PROVE ResultInv'
  BY <1>5 DEF ConnectPolled, PollOut, client, server
<1>6. ASSUME NEW c \in Clients, ConnectCompletes(c) PROVE ResultInv'
  BY <1>6 DEF ConnectCompletes, ConnectError, client, server
<1>7. ASSUME NEW a \in Accepts, AsyncAccept(a) PROVE ResultInv'
  BY <1>7 DEF AsyncAccept, client, server
<1>8. ASSUME NEW a \in Accepts, AsyncAcceptThrows(a) PROVE ResultInv'
  BY <1>8 DEF AsyncAcceptThrows, client, server
<1>9. ASSUME NEW a \in Accepts, AcceptPollFails(a) PROVE ResultInv'
  BY <1>9 DEF AcceptPollFails, client, server
<1>10. ASSUME NEW a \in Accepts, AcceptPolled(a) PROVE ResultInv'
  BY <1>10 DEF AcceptPolled, AcceptReady, client, server
<1>11. ASSUME NEW a \in Accepts, AcceptCompletes(a) PROVE ResultInv'
  BY <1>11 DEF AcceptCompletes, Deliver, client, server
<1>12. ASSUME NEW a \in Accepts, AcceptTakes(a) PROVE ResultInv'
  BY <1>12 DEF AcceptTakes, Deliver, client, server
<1>13. ASSUME NEW a \in Accepts, AcceptFails(a) PROVE ResultInv'
  BY <1>13 DEF AcceptFails, Deliver, client, server
<1>14. ASSUME NEW a \in Accepts, AcceptAgain(a) PROVE ResultInv'
  BY <1>14 DEF AcceptAgain, client, server
<1>15. ASSUME NEW a \in Accepts, AcceptAgainThrows(a) PROVE ResultInv'
  BY <1>15 DEF AcceptAgainThrows, client, server
<1>16. CASE OtherAccepts
  BY <1>16 DEF OtherAccepts, client, server
<1>17. CASE UNCHANGED vars
  BY <1>17 DEF vars, client, server
<1> HIDE DEF TypeOK, ResultInv, Phases
<1>18. QED
  BY <1>1, <1>2, <1>3, <1>4, <1>5, <1>6, <1>7, <1>8, <1>9, <1>10, <1>11, <1>12,
     <1>13, <1>14, <1>15, <1>16, <1>17
  DEF Next, AcceptRuns, ConnectRuns

-----------------------------------------------------------------------------
(* The steps that move a connection.                                       *)
LEMMA ConnectionMade ==
  ASSUME TypeOK, PlaceInv, NEW c \in Clients, socket[c] # "established",
         Establish(c), UNCHANGED <<conn, stolen>>
  PROVE  PlaceInv'
<1>1. Len(queue') = Len(queue) + 1 /\ Len(queue) \in Nat
  BY DEF Establish, TypeOK
<1>2. \A i \in 1..Len(queue') :
        queue'[i] = IF i = Len(queue) + 1 THEN c ELSE queue[i]
  BY <1>1 DEF Establish, TypeOK
<1>3. \A x \in Clients : Queued(x)' <=> Queued(x) \/ x = c
  BY <1>1, <1>2 DEF Queued
<1>4. \A x \in Clients : Accepted(x)' <=> Accepted(x)
  BY DEF Accepted
<1>5. ~Queued(c) /\ ~Accepted(c) /\ c \notin stolen
  BY DEF PlaceInv
<1>6. \A x \in Clients : socket'[x] = IF x = c THEN "established" ELSE socket[x]
  BY DEF Establish, TypeOK
<1>7. \A i, j \in 1..Len(queue') : queue'[i] = queue'[j] => i = j
  <2>1. \A i \in 1..Len(queue) : queue[i] # c
    BY <1>5 DEF Queued
  <2>2. \A i \in 1..Len(queue') : i # Len(queue) + 1 => i \in 1..Len(queue)
    BY <1>1
  <2>3. QED BY <1>2, <2>1, <2>2 DEF PlaceInv
<1>8. QED BY <1>3, <1>4, <1>5, <1>6, <1>7 DEF PlaceInv

(* The head of the queue leaves it.                                        *)
LEMMA HeadLeaves ==
  ASSUME TypeOK, PlaceInv, queue # <<>>, queue' = Tail(queue)
  PROVE  /\ Head(queue) \in Clients
         /\ \A x \in Clients : Queued(x)' <=> Queued(x) /\ x # Head(queue)
         /\ Queued(Head(queue))
         /\ \A i, j \in 1..Len(queue') : queue'[i] = queue'[j] => i = j
<1>1. /\ Len(queue) \in Nat \ {0} /\ Len(queue') = Len(queue) - 1
      /\ \A i \in 1..Len(queue') : queue'[i] = queue[i + 1]
      /\ Head(queue) = queue[1] /\ Head(queue) \in Clients
  BY DEF TypeOK
<1>2. \A i \in 1..Len(queue') : i + 1 \in 1..Len(queue) /\ i \in Int
  BY <1>1
<1>3. \A i \in 1..Len(queue) : i # 1 => i - 1 \in 1..Len(queue') /\ (i - 1) + 1 = i
  BY <1>1
<1>4. 1 \in 1..Len(queue)
  BY <1>1
<1>5. Queued(Head(queue))
  BY <1>1, <1>4 DEF Queued
<1>6. \A i, j \in 1..Len(queue') : queue'[i] = queue'[j] => i = j
  <2> SUFFICES ASSUME NEW i \in 1..Len(queue'), NEW j \in 1..Len(queue'),
                      queue'[i] = queue'[j]
               PROVE  i = j
      OBVIOUS
  <2>1. queue[i + 1] = queue[j + 1]
    BY <1>1
  <2>2. i + 1 = j + 1
    BY <1>2, <2>1 DEF PlaceInv
  <2>3. QED BY <1>2, <2>2
<1>7. ASSUME NEW x \in Clients PROVE Queued(x)' <=> Queued(x) /\ x # Head(queue)
  <2>1. ASSUME Queued(x)' PROVE Queued(x) /\ x # Head(queue)
    <3>1. PICK i \in 1..Len(queue') : queue'[i] = x
      BY <2>1 DEF Queued
    <3>2. i + 1 \in 1..Len(queue) /\ queue[i + 1] = x /\ i + 1 # 1
      BY <1>1, <1>2, <3>1
    <3>3. QED BY <1>1, <1>4, <3>2 DEF Queued, PlaceInv
  <2>2. ASSUME Queued(x), x # Head(queue) PROVE Queued(x)'
    <3>1. PICK i \in 1..Len(queue) : queue[i] = x
      BY <2>2 DEF Queued
    <3>2. i # 1
      BY <1>1, <2>2, <3>1
    <3>3. i - 1 \in 1..Len(queue') /\ queue'[i - 1] = x
      BY <1>1, <1>3, <3>1, <3>2
    <3>4. QED BY <3>3 DEF Queued
  <2>3. QED BY <2>1, <2>2
<1>8. QED BY <1>1, <1>5, <1>6, <1>7

(* No connection is made or moved.                                         *)
LEMMA PlacesKept ==
  ASSUME TypeOK, PlaceInv, UNCHANGED <<queue, conn, stolen>>,
         \A c \in Clients : socket'[c] = "established" <=> socket[c] = "established"
  PROVE  PlaceInv'
BY DEF PlaceInv, Queued, Accepted

LEMMA PlaceStep ==
  TypeOK /\ ClientInv /\ ResultInv /\ PlaceInv /\ [Next]_vars => PlaceInv'
<1> SUFFICES ASSUME TypeOK, ClientInv, ResultInv, PlaceInv, [Next]_vars PROVE PlaceInv'
    OBVIOUS
<1>1. ASSUME NEW c \in Clients, AsyncConnect(c) PROVE PlaceInv'
  <2>1. socket[c] # "established"
    BY <1>1 DEF AsyncConnect, ClientInv
  <2>2. CASE Establish(c)
    BY <1>1, <2>1, <2>2, ConnectionMade DEF AsyncConnect, server
  <2>3. CASE ~Establish(c)
    BY <1>1, <2>1, <2>3, PlacesKept DEF AsyncConnect, KernelConnects, server, TypeOK
  <2>4. QED BY <2>2, <2>3
<1>2. ASSUME NEW c \in Clients, AsyncConnectThrows(c) PROVE PlaceInv'
  <2>1. socket[c] # "established"
    BY <1>2 DEF AsyncConnectThrows, ClientInv
  <2>2. CASE Establish(c)
    BY <1>2, <2>1, <2>2, ConnectionMade DEF AsyncConnectThrows, server
  <2>3. CASE ~Establish(c)
    BY <1>2, <2>1, <2>3, PlacesKept DEF AsyncConnectThrows, KernelConnects, server, TypeOK
  <2>4. QED BY <2>2, <2>3
<1>3. ASSUME NEW c \in Clients, HandshakeDone(c) PROVE PlaceInv'
  <2>1. socket[c] # "established"
    BY <1>3 DEF HandshakeDone, ClientInv
  <2>2. CASE Establish(c)
    BY <1>3, <2>1, <2>2, ConnectionMade DEF HandshakeDone, server
  <2>3. CASE ~Establish(c)
    BY <1>3, <2>1, <2>3, PlacesKept DEF HandshakeDone, KernelConnects, server, TypeOK
  <2>4. QED BY <2>2, <2>3
<1>4. ASSUME NEW c \in Clients, HandshakeFails(c) PROVE PlaceInv'
  BY <1>4, PlacesKept DEF HandshakeFails, client, server, TypeOK
<1>5. ASSUME NEW c \in Clients, ConnectPolled(c) PROVE PlaceInv'
  BY <1>5, PlacesKept DEF ConnectPolled, PollOut, client, server, TypeOK
<1>6. ASSUME NEW c \in Clients, ConnectCompletes(c) PROVE PlaceInv'
  BY <1>6, PlacesKept DEF ConnectCompletes, ConnectError, client, server, TypeOK
<1>7. ASSUME NEW a \in Accepts, AsyncAccept(a) PROVE PlaceInv'
  BY <1>7, PlacesKept DEF AsyncAccept, client, server, TypeOK
<1>8. ASSUME NEW a \in Accepts, AsyncAcceptThrows(a) PROVE PlaceInv'
  BY <1>8, PlacesKept DEF AsyncAcceptThrows, client, server, TypeOK
<1>9. ASSUME NEW a \in Accepts, AcceptPollFails(a) PROVE PlaceInv'
  BY <1>9, PlacesKept DEF AcceptPollFails, client, server, TypeOK
<1>10. ASSUME NEW a \in Accepts, AcceptPolled(a) PROVE PlaceInv'
  BY <1>10, PlacesKept DEF AcceptPolled, AcceptReady, client, server, TypeOK
<1>11. ASSUME NEW a \in Accepts, AcceptCompletes(a) PROVE PlaceInv'
  <2>1. \A b \in Accepts : conn'[b] = conn[b]
    BY <1>11 DEF AcceptCompletes, Deliver, client, server, TypeOK, ResultInv
  <2>2. UNCHANGED <<queue, stolen, socket>>
    BY <1>11 DEF AcceptCompletes, Deliver, client, server
  <2>3. QED BY <2>1, <2>2 DEF PlaceInv, Queued, Accepted
<1>12. ASSUME NEW a \in Accepts, AcceptTakes(a) PROVE PlaceInv'
  <2>1. /\ queue # <<>> /\ queue' = Tail(queue) /\ UNCHANGED <<socket, stolen>>
        /\ conn' = [conn EXCEPT ![a] = Head(queue)] /\ conn[a] = Null
    BY <1>12 DEF AcceptTakes, Deliver, client, ResultInv
  <2>2. PICK h \in Clients : h = Head(queue)
    BY <2>1, HeadLeaves
  <2>3. /\ \A x \in Clients : Queued(x)' <=> Queued(x) /\ x # h
        /\ Queued(h)
        /\ \A i, j \in 1..Len(queue') : queue'[i] = queue'[j] => i = j
    BY <2>1, <2>2, HeadLeaves
  <2>4. \A b \in Accepts : conn'[b] = IF b = a THEN h ELSE conn[b]
    BY <2>1, <2>2 DEF TypeOK
  <2>5. \A x \in Clients : Accepted(x)' <=> Accepted(x) \/ x = h
    BY <2>1, <2>4, NullAssumption DEF Accepted
  <2>6. \A b, d \in Accepts : conn'[b] = conn'[d] /\ conn'[b] # Null => b = d
    BY <2>3, <2>4 DEF PlaceInv, Accepted
  <2>7. QED BY <2>1, <2>3, <2>5, <2>6 DEF PlaceInv
<1>13. ASSUME NEW a \in Accepts, AcceptFails(a) PROVE PlaceInv'
  <2>1. \A b \in Accepts : conn'[b] = conn[b]
    BY <1>13 DEF AcceptFails, Deliver, client, server, TypeOK, ResultInv
  <2>2. UNCHANGED <<queue, stolen, socket>>
    BY <1>13 DEF AcceptFails, Deliver, client, server
  <2>3. QED BY <2>1, <2>2 DEF PlaceInv, Queued, Accepted
<1>14. ASSUME NEW a \in Accepts, AcceptAgain(a) PROVE PlaceInv'
  BY <1>14, PlacesKept DEF AcceptAgain, client, server, TypeOK
<1>15. ASSUME NEW a \in Accepts, AcceptAgainThrows(a) PROVE PlaceInv'
  BY <1>15, PlacesKept DEF AcceptAgainThrows, client, server, TypeOK
<1>16. CASE OtherAccepts
  <2>1. /\ queue # <<>> /\ queue' = Tail(queue) /\ UNCHANGED <<socket, conn>>
        /\ stolen' = stolen \cup {Head(queue)}
    BY <1>16 DEF OtherAccepts, client, server
  <2>2. PICK h \in Clients : h = Head(queue)
    BY <2>1, HeadLeaves
  <2>3. /\ \A x \in Clients : Queued(x)' <=> Queued(x) /\ x # h
        /\ Queued(h)
        /\ \A i, j \in 1..Len(queue') : queue'[i] = queue'[j] => i = j
    BY <2>1, <2>2, HeadLeaves
  <2>4. \A x \in Clients : Accepted(x)' <=> Accepted(x)
    BY <2>1 DEF Accepted
  <2>5. QED BY <2>1, <2>2, <2>3, <2>4 DEF PlaceInv
<1>17. CASE UNCHANGED vars
  BY <1>17, PlacesKept DEF vars, client, server
<1>18. QED
  BY <1>1, <1>2, <1>3, <1>4, <1>5, <1>6, <1>7, <1>8, <1>9, <1>10, <1>11, <1>12,
     <1>13, <1>14, <1>15, <1>16, <1>17
  DEF Next, AcceptRuns, ConnectRuns

-----------------------------------------------------------------------------
IInv == TypeOK /\ ClientInv /\ ResultInv /\ PlaceInv

LEMMA IInvInit == Init => IInv
<1> SUFFICES ASSUME Init PROVE IInv
    OBVIOUS
<1>1. queue = <<>> /\ Len(queue) = 0
  BY DEF Init
<1>2. TypeOK
  BY <1>1, BacklogAssumption DEF Init, TypeOK, Phases
<1>3. ClientInv /\ ResultInv
  BY DEF Init, ClientInv, ResultInv
<1>4. PlaceInv
  BY <1>1, NullAssumption DEF Init, PlaceInv, Queued, Accepted
<1>5. QED BY <1>2, <1>3, <1>4 DEF IInv

LEMMA IInvInvariant == Spec => []IInv
<1>1. IInv /\ [Next]_vars => IInv'
  BY TypeStep, ClientStep, ResultStep, PlaceStep DEF IInv
<1>2. QED BY <1>1, IInvInit, PTL DEF Spec

(* Sockets, the queue and the operations keep their types, and the queue   *)
(* its length.                                                             *)
THEOREM TypeCorrect == Spec => []TypeOK
<1>1. IInv => TypeOK
  BY DEF IInv
<1>2. QED BY <1>1, IInvInvariant, PTL

(* A connection that was made is in the queue, with one handler or with    *)
(* another process, however accepts overtake each other.                   *)
THEOREM ConnectionsDelivered == Spec => []EachDeliveredOnce
<1>1. IInv => EachDeliveredOnce
  <2> SUFFICES ASSUME IInv PROVE EachDeliveredOnce
      OBVIOUS
  <2>1. ASSUME NEW c \in Clients
        PROVE  Cardinality(Places(c)) = IF socket[c] = "established" THEN 1 ELSE 0
    <3> DEFINE Q == {i \in DOMAIN queue : queue[i] = c}
               A == {a \in Accepts : conn[a] = c}
               S == IF c \in stolen THEN {Null} ELSE {}
    <3>1. Places(c) = Q \cup A \cup S
      BY DEF Places
    <3>2. DOMAIN queue = 1..Len(queue)
      BY DEF IInv, TypeOK
    <3>3. /\ Q = {} <=> ~Queued(c)
          /\ A = {} <=> ~Accepted(c)
          /\ S = {} <=> c \notin stolen
      BY <3>2 DEF Queued, Accepted
    <3>4. CASE Queued(c)
      <4>1. PICK i \in 1..Len(queue) : queue[i] = c
        BY <3>4 DEF Queued
      <4>2. Q = {i}
        BY <3>2, <4>1 DEF IInv, PlaceInv
      <4>3. A = {} /\ S = {} /\ socket[c] = "established"
        BY <3>3, <3>4 DEF IInv, PlaceInv
      <4>4. QED BY <3>1, <4>2, <4>3, FS_Singleton
    <3>5. CASE Accepted(c)
      <4>1. PICK a \in Accepts : conn[a] = c
        BY <3>5 DEF Accepted
      <4>2. A = {a}
        BY <4>1, NullAssumption DEF IInv, PlaceInv
      <4>3. Q = {} /\ S = {} /\ socket[c] = "established"
        BY <3>3, <3>5 DEF IInv, PlaceInv
      <4>4. QED BY <3>1, <4>2, <4>3, FS_Singleton
    <3>6. CASE c \in stolen
      <4>1. Q = {} /\ A = {} /\ S = {Null} /\ socket[c] = "established"
        BY <3>3, <3>6 DEF IInv, PlaceInv
      <4>2. QED BY <3>1, <4>1, FS_Singleton
    <3>7. CASE ~Queued(c) /\ ~Accepted(c) /\ c \notin stolen
      <4>1. Q = {} /\ A = {} /\ S = {} /\ socket[c] # "established"
        BY <3>3, <3>7 DEF IInv, PlaceInv
      <4>2. QED BY <3>1, <4>1, FS_EmptySet
    <3>8. QED BY <3>4, <3>5, <3>6, <3>7
  <2>2. QED BY <2>1 DEF IInv, ResultInv, EachDeliveredOnce
<1>2. QED BY <1>1, IInvInvariant, PTL

(* Once an attempt was made, that is unless connect() gave EAGAIN, success *)
(* is reported of an established socket only, and an error asked of the    *)
(* socket is that of a refused one.                                        *)
THEOREM AttemptIsTruthful == Spec => []AttemptTruthful
<1>1. IInv => AttemptTruthful
  BY DEF IInv, ClientInv, AttemptTruthful, Attempted
<1>2. QED BY <1>1, IInvInvariant, PTL
=============================================================================
