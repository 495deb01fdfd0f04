------------------------------- MODULE Server -------------------------------
(***************************************************************************)
(* pine::server (server/include/server.h, server/src/server.cpp): one      *)
(* thread, Acceptor, runs start() and in it accept_clients(); Stopper      *)
(* calls stop(); the Disconnectors call disconnect_client().  They share   *)
(* the map clients, which mutate_clients_mutex guards everywhere but in    *)
(* stop(), the listening socket, address_info and the flag is_listening.   *)
(*                                                                         *)
(* The asynchronous operations are those of AsyncOperation before the pool *)
(* begins any of their tasks: they run on their caller's thread, and one   *)
(* that awaits another always ends in operation_canceled, its co_await     *)
(* having thrown (AwaitNeverDelivers).  So start() of a connection is left *)
(* by that exception as soon as its first receive returns, with the flag   *)
(* is_connected as it was.                                                 *)
(*                                                                         *)
(* `undefined` names the first operation C++ gives no meaning to: the use  *)
(* of a deleted object, an unsynchronised access to the map, a vector that *)
(* grows under an iteration, a second lock by the owner of a mutex.  The   *)
(* model stops there.                                                      *)
(***************************************************************************)
EXTENDS Naturals, FiniteSets

CONSTANTS Conns,         \* the connections peers make
          Ids,           \* what the snowflake of a connection may be
          Acceptor, Stopper, Disconnectors,
          MaxCallbacks,  \* bound on the callbacks registered of each kind
          MaxStops,      \* bound on the calls of stop
          NoConn, NoId, NoThread

Threads == Disconnectors \cup {Acceptor, Stopper}
Kinds == {"ready", "failed", "attempt", "connection"}

ASSUME ServerAssumption ==
  /\ NoConn \notin Conns /\ NoId \notin Ids /\ NoThread \notin Threads
  /\ Acceptor # Stopper /\ {Acceptor, Stopper} \cap Disconnectors = {}
  /\ MaxCallbacks \in Nat /\ MaxStops \in Nat

VARIABLES
  pc,                    \* where each thread is
  is_listening,
  server_socket,         \* invalid, open, listening or closed
  address_info,          \* null, live or freed
  mutate_clients_mutex,  \* the thread that holds it, or NoThread
  clients,               \* the map, NoConn where it has no entry
  callbacks,             \* how many callbacks of each kind are registered
  cursor,                \* how many the acceptor's loop over them has left
  client,                \* the acceptor's local variable of the same name
  id,                    \* the snowflake of each connection object
  peer,                  \* away, knocking, silent, spoke or refused
  socket,                \* of each connection: none, open or closed
  wanted,                \* the argument of each disconnect_client call
  meant,                 \* history: the client it named when it was called
  answer,                \* what it returned: none, not_found or success
  stops,                 \* how many calls of stop began
  undefined              \* the first undefined operation, or "none"

shared == <<is_listening, server_socket, address_info>>
network == <<id, peer, socket>>
calls == <<wanted, meant, answer, stops>>
vars == <<pc, shared, mutate_clients_mutex, clients, callbacks, cursor, client,
          network, calls, undefined>>

NoClients == [i \in Ids |-> NoConn]

Init ==
  /\ pc = [t \in Threads |-> IF t = Acceptor THEN "initialize" ELSE "idle"]
  /\ is_listening = FALSE
  /\ server_socket = "invalid"
  /\ address_info = "null"
  /\ mutate_clients_mutex = NoThread
  /\ clients = NoClients
  /\ callbacks = [k \in Kinds |-> 0]
  /\ cursor = 0
  /\ client = NoConn
  /\ id = [c \in Conns |-> NoId]
  /\ peer = [c \in Conns |-> "away"]
  /\ socket = [c \in Conns |-> "none"]
  /\ wanted = [d \in Disconnectors |-> NoId]
  /\ meant = [d \in Disconnectors |-> NoConn]
  /\ answer = [d \in Disconnectors |-> "none"]
  /\ stops = 0
  /\ undefined = "none"

Step(t, from, to) == pc[t] = from /\ pc' = [pc EXCEPT ![t] = to]

Lock(t) == mutate_clients_mutex = NoThread /\ mutate_clients_mutex' = t
Unlock == mutate_clients_mutex' = NoThread

Undefined(what) ==
  /\ undefined' = what
  /\ UNCHANGED <<pc, shared, mutate_clients_mutex, clients, callbacks, cursor,
                 client, network, calls>>

-----------------------------------------------------------------------------
(* start(): a phase that fails returns its error and leaves what the       *)
(* phases before it made.                                                  *)

StartFails ==
  /\ \E phase \in {"initialize", "address", "socket", "bind", "listen"} :
       Step(Acceptor, phase, "returned")
  /\ UNCHANGED <<shared, mutate_clients_mutex, clients, callbacks, cursor, client,
                 network, calls, undefined>>

Initialize ==
  /\ Step(Acceptor, "initialize", "address")
  /\ UNCHANGED <<shared, mutate_clients_mutex, clients, callbacks, cursor, client,
                 network, calls, undefined>>

GetAddress ==
  /\ Step(Acceptor, "address", "socket")
  /\ address_info' = "live"
  /\ UNCHANGED <<is_listening, server_socket, mutate_clients_mutex, clients,
                 callbacks, cursor, client, network, calls, undefined>>

CreateSocket ==
  /\ Step(Acceptor, "socket", "bind")
  /\ server_socket' = "open"
  /\ UNCHANGED <<is_listening, address_info, mutate_clients_mutex, clients,
                 callbacks, cursor, client, network, calls, undefined>>

Bind ==
  /\ Step(Acceptor, "bind", "listen")
  /\ UNCHANGED <<shared, mutate_clients_mutex, clients, callbacks, cursor, client,
                 network, calls, undefined>>

\* The loop over the callbacks of a kind takes the end of the vector once.
Visit(k) == cursor' = callbacks[k]

Listen ==
  /\ Step(Acceptor, "listen", "ready")
  /\ server_socket' = "listening"
  /\ is_listening' = TRUE
  /\ Visit("ready")
  /\ UNCHANGED <<address_info, mutate_clients_mutex, clients, callbacks, client,
                 network, calls, undefined>>

-----------------------------------------------------------------------------
(* Callbacks: the acceptor runs those of one kind in turn.                 *)

AtCallbacks(k) == pc[Acceptor] = k /\ k \in Kinds

Callback(k) ==
  /\ AtCallbacks(k) /\ cursor > 0
  /\ cursor' = cursor - 1
  /\ UNCHANGED <<pc, shared, mutate_clients_mutex, clients, callbacks, client,
                 network, calls, undefined>>

\* A callback that is told of a connection disconnects it: the acceptor, its
\* caller, already holds the mutex.
CallbackDisconnects ==
  /\ AtCallbacks("connection") /\ cursor > 0
  /\ Undefined("mutex locked by its owner")

CallbacksDone(k) ==
  /\ AtCallbacks(k) /\ cursor = 0
  /\ pc' = [pc EXCEPT ![Acceptor] = CASE k \in {"ready", "failed"} -> "loop"
                                      [] k = "attempt" -> "lock"
                                      [] k = "connection" -> "serve"]
  /\ UNCHANGED <<shared, mutate_clients_mutex, clients, callbacks, cursor, client,
                 network, calls, undefined>>

\* on_ready, on_connection and the others push their callback back, whatever
\* the acceptor is doing: a vector that grows under the loop over it may move.
Register(k) ==
  /\ callbacks[k] < MaxCallbacks
  /\ \/ /\ callbacks' = [callbacks EXCEPT ![k] = @ + 1]
        /\ UNCHANGED <<pc, shared, mutate_clients_mutex, clients, cursor, client,
                       network, calls, undefined>>
     \/ /\ AtCallbacks(k) /\ cursor > 0
        /\ Undefined("callbacks moved under the loop over them")

-----------------------------------------------------------------------------
(* accept_clients().                                                       *)

TestListening ==
  /\ pc[Acceptor] = "loop"
  /\ pc' = [pc EXCEPT ![Acceptor] = IF is_listening THEN "accept" ELSE "returned"]
  /\ UNCHANGED <<shared, mutate_clients_mutex, clients, callbacks, cursor, client,
                 network, calls, undefined>>

\* accept_socket reads address_info->ai_addr, then calls accept.
CallAccept ==
  /\ pc[Acceptor] = "accept"
  /\ IF address_info = "freed"
     THEN Undefined("address_info used after delete")
     ELSE /\ pc' = [pc EXCEPT ![Acceptor] = "accepting"]
          /\ UNCHANGED <<shared, mutate_clients_mutex, clients, callbacks, cursor,
                         client, network, calls, undefined>>

\* A connection object is made for the socket, with a snowflake of its own.
AcceptReturns(c, i) ==
  /\ server_socket = "listening"
  /\ peer[c] = "knocking"
  /\ Step(Acceptor, "accepting", "attempt")
  /\ client' = c
  /\ id' = [id EXCEPT ![c] = i]
  /\ peer' = [peer EXCEPT ![c] = "silent"]
  /\ socket' = [socket EXCEPT ![c] = "open"]
  /\ Visit("attempt")
  /\ UNCHANGED <<shared, mutate_clients_mutex, clients, callbacks, calls, undefined>>

\* accept fails on a closed socket, or because a peer that was waiting is gone.
AcceptFails ==
  /\ \/ server_socket = "closed" /\ UNCHANGED peer
     \/ \E c \in Conns : /\ server_socket = "listening" /\ peer[c] = "knocking"
                         /\ peer' = [peer EXCEPT ![c] = "refused"]
  /\ Step(Acceptor, "accepting", "failed")
  /\ Visit("failed")
  /\ UNCHANGED <<shared, mutate_clients_mutex, clients, callbacks, client, id,
                 socket, calls, undefined>>

LockClients ==
  /\ Step(Acceptor, "lock", "insert")
  /\ Lock(Acceptor)
  /\ UNCHANGED <<shared, clients, callbacks, cursor, client, network, calls, undefined>>

Insert ==
  /\ Step(Acceptor, "insert", "connection")
  /\ clients' = [clients EXCEPT ![id[client]] = client]
  /\ Visit("connection")
  /\ UNCHANGED <<shared, mutate_clients_mutex, callbacks, client, network, calls,
                 undefined>>

\* client->start() runs up to the end of its first receive, which blocks until
\* the peer has sent something or is gone, or the socket is closed here.  Its
\* result is always an error.
Serve ==
  /\ Step(Acceptor, "serve", "erase")
  /\ peer[client] = "spoke" \/ socket[client] = "closed"
  /\ UNCHANGED <<shared, mutate_clients_mutex, clients, callbacks, cursor, client,
                 network, calls, undefined>>

\* Mutant: the acceptor goes on with the client it has just dropped.
Erase_Stale ==
  /\ Step(Acceptor, "erase", "loop")
  /\ clients' = [clients EXCEPT ![id[client]] = NoConn]
  /\ Unlock
  /\ UNCHANGED <<shared, callbacks, cursor, client, network, calls, undefined>>

\* Mutant: the lock is not released before the next accept.
Erase_Locked ==
  /\ Step(Acceptor, "erase", "loop")
  /\ clients' = [clients EXCEPT ![id[client]] = NoConn]
  /\ client' = NoConn
  /\ UNCHANGED <<shared, mutate_clients_mutex, callbacks, cursor, network, calls,
                 undefined>>

\* Mutant: the client of a start() that failed stays in the map.
Erase_Kept ==
  /\ Step(Acceptor, "erase", "loop")
  /\ UNCHANGED clients
  /\ Unlock
  /\ client' = NoConn
  /\ UNCHANGED <<shared, callbacks, cursor, network, calls, undefined>>

\* The entry goes, the lock is released and the acceptor drops its reference.
\* No one closes the socket.
Erase ==
  /\ Step(Acceptor, "erase", "loop")
  /\ clients' = [clients EXCEPT ![id[client]] = NoConn]
  /\ Unlock
  /\ client' = NoConn
  /\ UNCHANGED <<shared, callbacks, cursor, network, calls, undefined>>

-----------------------------------------------------------------------------
(* stop(), which takes no lock, and is called on a server that is ready.   *)

Ready == pc[Acceptor] \notin {"initialize", "address", "socket", "bind", "listen"}

ClearFlag ==
  /\ Ready /\ stops < MaxStops
  /\ Step(Stopper, "idle", "close")
  /\ stops' = stops + 1
  /\ is_listening' = FALSE
  /\ UNCHANGED <<server_socket, address_info, mutate_clients_mutex, clients,
                 callbacks, cursor, client, network, wanted, meant, answer, undefined>>

\* Mutant: the listening socket stays open.
CloseListener_None ==
  /\ Step(Stopper, "close", "delete")
  /\ UNCHANGED <<shared, mutate_clients_mutex, clients, callbacks, cursor, client,
                 network, calls, undefined>>

CloseListener ==
  /\ Step(Stopper, "close", "delete")
  /\ server_socket' = "closed"
  /\ peer' = [c \in Conns |-> IF peer[c] = "knocking" THEN "refused" ELSE peer[c]]
  /\ UNCHANGED <<is_listening, address_info, mutate_clients_mutex, clients,
                 callbacks, cursor, client, id, socket, calls, undefined>>

\* delete of what getaddrinfo allocated: the program may break there, or the
\* allocator takes it and the address is gone.  A null pointer is let be.
DeleteAddress ==
  /\ pc[Stopper] = "delete"
  /\ \/ /\ address_info = "freed"
        /\ Undefined("address_info deleted twice")
     \/ /\ address_info = "live"
        /\ Undefined("address_info not allocated by new")
     \/ /\ address_info # "freed"
        /\ address_info' = IF address_info = "live" THEN "freed" ELSE "null"
        /\ pc' = [pc EXCEPT ![Stopper] = "iterate"]
        /\ UNCHANGED <<is_listening, server_socket, mutate_clients_mutex, clients,
                       callbacks, cursor, client, network, calls, undefined>>

CloseClients ==
  /\ Step(Stopper, "iterate", "clear")
  /\ socket' = [c \in Conns |-> IF \E i \in Ids : clients[i] = c THEN "closed"
                                ELSE socket[c]]
  /\ UNCHANGED <<shared, mutate_clients_mutex, clients, callbacks, cursor, client,
                 id, peer, calls, undefined>>

ClearClients ==
  /\ Step(Stopper, "clear", "idle")
  /\ clients' = NoClients
  /\ UNCHANGED <<shared, mutate_clients_mutex, callbacks, cursor, client, network,
                 calls, undefined>>

-----------------------------------------------------------------------------
(* disconnect_client().                                                    *)

Disconnect(d, i) ==
  /\ Step(d, "idle", "want_lock")
  /\ answer[d] = "none"
  /\ wanted' = [wanted EXCEPT ![d] = i]
  /\ meant' = [meant EXCEPT ![d] = clients[i]]
  /\ UNCHANGED <<shared, mutate_clients_mutex, clients, callbacks, cursor, client,
                 network, answer, stops, undefined>>

\* Mutant: the lookup does not take the lock.
DisconnectLock_None(d) ==
  /\ Step(d, "want_lock", "find")
  /\ UNCHANGED <<shared, mutate_clients_mutex, clients, callbacks, cursor, client,
                 network, calls, undefined>>

DisconnectLock(d) ==
  /\ Step(d, "want_lock", "find")
  /\ Lock(d)
  /\ UNCHANGED <<shared, clients, callbacks, cursor, client, network, calls, undefined>>

\* The lookup and, if it finds a client, close and erase; then the unlock.
Find(d) ==
  /\ Step(d, "find", "idle")
  /\ LET found == clients[wanted[d]] IN
       /\ socket' = [c \in Conns |-> IF c = found THEN "closed" ELSE socket[c]]
       /\ clients' = [clients EXCEPT ![wanted[d]] = NoConn]
       /\ answer' = [answer EXCEPT ![d] = IF found = NoConn THEN "not_found"
                                          ELSE "success"]
  /\ Unlock
  /\ UNCHANGED <<shared, callbacks, cursor, client, id, peer, wanted, meant, stops,
                 undefined>>

-----------------------------------------------------------------------------
(* The peers, and what no thread synchronises.                             *)

\* A peer connects while the server listens, and at some time sends or closes.
Knock(c) ==
  /\ peer[c] = "away" /\ server_socket = "listening"
  /\ peer' = [peer EXCEPT ![c] = "knocking"]
  /\ UNCHANGED <<pc, shared, mutate_clients_mutex, clients, callbacks, cursor,
                 client, id, socket, calls, undefined>>

Speak(c) ==
  /\ peer[c] = "silent"
  /\ peer' = [peer EXCEPT ![c] = "spoke"]
  /\ UNCHANGED <<pc, shared, mutate_clients_mutex, clients, callbacks, cursor,
                 client, id, socket, calls, undefined>>

Writes(t) == pc[t] \in {"insert", "erase", "find", "clear"}
Accesses(t) == Writes(t) \/ pc[t] = "iterate"

\* Two threads are about to access the map and one of them writes.
Race ==
  /\ \E s, t \in Threads : s # t /\ Writes(s) /\ Accesses(t)
  /\ Undefined("unsynchronised access to clients")

-----------------------------------------------------------------------------

StartStep == StartFails \/ Initialize \/ GetAddress \/ CreateSocket \/ Bind \/ Listen

AcceptStep ==
  \/ \E k \in Kinds : Callback(k) \/ CallbacksDone(k)
  \/ CallbackDisconnects
  \/ TestListening \/ CallAccept \/ AcceptFails
  \/ \E c \in Conns, i \in Ids : AcceptReturns(c, i)
  \/ LockClients \/ Insert \/ Serve \/ Erase

StopStep ==
  \/ ClearFlag \/ CloseListener \/ DeleteAddress \/ CloseClients \/ ClearClients

DisconnectStep(d) ==
  \/ \E i \in Ids : Disconnect(d, i)
  \/ DisconnectLock(d) \/ Find(d)

Next ==
  /\ undefined = "none"
  /\ \/ StartStep \/ AcceptStep \/ StopStep \/ Race
     \/ \E d \in Disconnectors : DisconnectStep(d)
     \/ \E k \in Kinds : Register(k)
     \/ \E c \in Conns : Knock(c) \/ Speak(c)

Spec == Init /\ [][Next]_vars

(***************************************************************************)
(* Fairness: a thread goes on when it can, and gets a mutex that is free   *)
(* again and again; a call of stop that has begun goes on to its end.      *)
(* Peers owe nothing: they may never connect and never speak.              *)
(***************************************************************************)
Fairness ==
  /\ WF_vars(undefined = "none" /\ (StartStep \/ AcceptStep))
  /\ SF_vars(undefined = "none" /\ LockClients)
  /\ WF_vars(undefined = "none" /\ (CloseListener \/ DeleteAddress \/ CloseClients
                                     \/ ClearClients))
  /\ \A d \in Disconnectors : /\ SF_vars(undefined = "none" /\ DisconnectLock(d))
                               /\ WF_vars(undefined = "none" /\ Find(d))

FairSpec == Spec /\ Fairness

-----------------------------------------------------------------------------

AcceptorLabels == Kinds \cup {"initialize", "address", "socket", "bind", "listen",
  "loop", "accept", "accepting", "lock", "insert", "serve", "erase", "returned"}
StopperLabels == {"idle", "close", "delete", "iterate", "clear"}
DisconnectLabels == {"idle", "want_lock", "find"}

\* The shape of the state; the acceptor has a client exactly from the accept
\* to the erase, and the connections it has accepted have an id and a socket.
TypeOK ==
  /\ pc \in [Threads -> AcceptorLabels \cup StopperLabels \cup DisconnectLabels]
  /\ pc[Acceptor] \in AcceptorLabels /\ pc[Stopper] \in StopperLabels
  /\ \A d \in Disconnectors : pc[d] \in DisconnectLabels
  /\ is_listening \in BOOLEAN
  /\ server_socket \in {"invalid", "open", "listening", "closed"}
  /\ address_info \in {"null", "live", "freed"}
  /\ mutate_clients_mutex \in Threads \cup {NoThread}
  /\ clients \in [Ids -> Conns \cup {NoConn}]
  /\ callbacks \in [Kinds -> 0..MaxCallbacks]
  /\ cursor \in 0..MaxCallbacks
  /\ client \in Conns \cup {NoConn}
  /\ client # NoConn <=> pc[Acceptor] \in {"attempt", "lock", "insert", "connection",
                                           "serve", "erase"}
  /\ id \in [Conns -> Ids \cup {NoId}]
  /\ client # NoConn => id[client] # NoId /\ socket[client] # "none"
  /\ peer \in [Conns -> {"away", "knocking", "silent", "spoke", "refused"}]
  /\ socket \in [Conns -> {"none", "open", "closed"}]
  /\ wanted \in [Disconnectors -> Ids \cup {NoId}]
  /\ \A d \in Disconnectors : pc[d] # "idle" => wanted[d] \in Ids
  /\ meant \in [Disconnectors -> Conns \cup {NoConn}]
  /\ answer \in [Disconnectors -> {"none", "not_found", "success"}]
  /\ stops \in 0..MaxStops

\* A client is in the map only while the acceptor serves it with the mutex
\* held: no other thread that takes the mutex ever sees a client, however
\* accepts, ends, disconnects and stops interleave.
ClientsOnlyWhileServed ==
  \A i \in Ids : clients[i] # NoConn =>
    /\ mutate_clients_mutex = Acceptor
    /\ pc[Acceptor] \in {"connection", "serve", "erase"}
    /\ clients[i] = client /\ id[client] = i

\* What the mutex, the progress of stop and the map say of each other: the
\* inductive invariant of ServerProofs, with the properties around it.
ServerInv ==
  /\ mutate_clients_mutex = Acceptor
       <=> pc[Acceptor] \in {"insert", "connection", "serve", "erase"}
  /\ \A d \in Disconnectors : mutate_clients_mutex = d <=> pc[d] = "find"
  /\ pc[Stopper] # "idle" => stops > 0
  /\ address_info = "freed" => stops > 0

\* The parts that keep to the mutex never use a freed address or race for the
\* map: that takes a call of stop, which keeps to nothing.
UndefinedNeedsStop ==
  undefined \in {"address_info used after delete", "address_info deleted twice",
                 "address_info not allocated by new",
                 "unsynchronised access to clients"} => stops > 0

\* Only stop ever closes the socket of a client: disconnect_client finds none
\* to close, and neither the end of a connection nor the erase closes it, though
\* server_connection.h says of start "completed when the connection has been closed."
OnlyStopCloses == \A c \in Conns : socket[c] = "closed" => stops > 0

Blocked == pc[Acceptor] = "serve" /\ peer[client] = "silent" /\ socket[client] = "open"
Halted == undefined # "none"

\* A call of disconnect_client returns, unless the acceptor blocks for ever,
\* with the mutex, in the receive of a peer that stays silent.
DisconnectReturns ==
  \A d \in Disconnectors :
    (pc[d] = "want_lock" ~> answer[d] # "none" \/ Halted) \/ <>[]Blocked

\* After stop the accept loop ends, unless it blocks for ever in the receive of
\* a client that stop, having cleared the map too early, did not close.
AcceptorReturns ==
  (stops > 0 ~> pc[Acceptor] = "returned" \/ Halted) \/ <>[]Blocked

(***************************************************************************)
(* What the comments of the headers say, which the code does not keep.     *)
(***************************************************************************)

\* server.h, disconnect_client: "completed when the client has been
\* disconnected."
DisconnectDisconnects ==
  \A d \in Disconnectors :
    answer[d] # "none" /\ meant[d] # NoConn => socket[meant[d]] = "closed"

\* server.h, stop and accept_clients: "completed when the server has stopped
\* listening."
StopEndsAccepting == stops > 0 ~> pc[Acceptor] = "returned" \/ Halted
=============================================================================
