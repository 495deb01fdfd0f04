---------------------------- MODULE ServerProofs ----------------------------
(***************************************************************************)
(* Proofs about Server, for any number of connections, identifiers and     *)
(* threads that disconnect, and any bounds on callbacks and stops.         *)
(***************************************************************************)
EXTENDS Server, TLAPS

\* The inductive invariant, with the type invariant: the mutex, the progress of
\* stop and the three properties it makes inductive.
ServerSafe ==
  ServerInv /\ ClientsOnlyWhileServed /\ UndefinedNeedsStop /\ OnlyStopCloses

\* The initial state.
LEMMA TypeInit == Init => TypeOK
<1> SUFFICES ASSUME Init
             PROVE  TypeOK
  OBVIOUS
<1> USE ServerAssumption DEF Init, Threads, AcceptorLabels, StopperLabels,
        DisconnectLabels
<1>1. /\ pc \in [Threads -> AcceptorLabels \cup StopperLabels \cup DisconnectLabels]
      /\ pc[Acceptor] = "initialize" /\ pc[Stopper] = "idle"
      /\ \A d \in Disconnectors : pc[d] = "idle"
  OBVIOUS
<1>2. /\ clients \in [Ids -> Conns \cup {NoConn}]
      /\ callbacks \in [Kinds -> 0..MaxCallbacks]
      /\ cursor \in 0..MaxCallbacks /\ stops \in 0..MaxStops
  BY DEF NoClients
<1>3. QED
  BY <1>1, <1>2 DEF TypeOK

\* The map is empty and the mutex free at first.
LEMMA SafeInit == Init => ServerSafe
  BY ServerAssumption DEF Init, ServerSafe, ServerInv, ClientsOnlyWhileServed,
     UndefinedNeedsStop, OnlyStopCloses, Threads, NoClients

\* The counters stay within their bounds.
LEMMA RegisterBound ==
  ASSUME TypeOK, NEW k \in Kinds, Register(k)
  PROVE  callbacks[k] + 1 \in 0..MaxCallbacks
<1>1. callbacks[k] \in 0..MaxCallbacks /\ callbacks[k] < MaxCallbacks
  BY DEF TypeOK, Register
<1>2. QED
  BY <1>1, ServerAssumption

\* A call of stop is counted within the bound.
LEMMA StopsBound ==
  ASSUME TypeOK, ClearFlag
  PROVE  stops' \in 0..MaxStops /\ stops' > 0
<1>1. stops \in 0..MaxStops /\ stops < MaxStops /\ stops' = stops + 1
  BY DEF TypeOK, ClearFlag
<1>2. QED
  BY <1>1, ServerAssumption

\* A race changes nothing the model goes on with, and a registration one list.
LEMMA RaceFrame == Race => Undefined("unsynchronised access to clients")
                            /\ stops' = stops
  BY DEF Race, Undefined, calls

\* A registration changes only its list of callbacks.
LEMMA RegisterFrame ==
  ASSUME NEW k \in Kinds, Register(k)
  PROVE  /\ \/ callbacks' = [callbacks EXCEPT ![k] = callbacks[k] + 1]
            \/ callbacks' = callbacks
         /\ UNCHANGED <<pc, shared, mutate_clients_mutex, clients, cursor, client,
                        network, calls>>
  BY DEF Register, Undefined

\* Two threads that hold the mutex cannot race: one of the two is in stop.
LEMMA RaceNeedsStop ==
  ASSUME TypeOK, ServerInv, Race
  PROVE  stops > 0
<1>1. PICK s \in Threads, t \in Threads : s # t /\ Writes(s) /\ Accesses(t)
  BY DEF Race
<1>2. ASSUME NEW u \in Threads \ {Stopper}, Accesses(u)
      PROVE  mutate_clients_mutex = u
  BY <1>2 DEF Accesses, Writes, ServerInv, TypeOK, Threads, AcceptorLabels,
     DisconnectLabels, Kinds
<1>3. Accesses(s) /\ (s = Stopper \/ t = Stopper)
  BY <1>1, <1>2 DEF Accesses
<1>4. pc[Stopper] # "idle"
  BY <1>1, <1>3 DEF Accesses, Writes
<1>5. QED
  BY <1>4 DEF ServerInv

\* The type invariant is inductive by itself.
LEMMA TypeStep ==
  TypeOK /\ [Next]_vars
    => TypeOK'
<1> SUFFICES ASSUME TypeOK, [Next]_vars
             PROVE  TypeOK'
  OBVIOUS
<1> USE ServerAssumption DEF TypeOK, Threads, Kinds, AcceptorLabels, StopperLabels,
        DisconnectLabels, Step, Lock, Unlock, Visit, AtCallbacks, Ready, NoClients,
        Undefined, shared, network, calls
<1>a. ASSUME NEW what, Undefined(what)
      PROVE  TypeOK'
  BY <1>a
<1>1. CASE StartFails
  BY <1>1 DEF StartFails
<1>2. CASE Initialize
  BY <1>2 DEF Initialize
<1>3. CASE GetAddress
  BY <1>3 DEF GetAddress
<1>4. CASE CreateSocket
  BY <1>4 DEF CreateSocket
<1>5. CASE Bind
  BY <1>5 DEF Bind
<1>6. CASE Listen
  BY <1>6 DEF Listen
<1>7. ASSUME NEW k \in Kinds, Callback(k) PROVE TypeOK'
  BY <1>7 DEF Callback
<1>8. CASE CallbackDisconnects
  BY <1>8, <1>a, ZenonT(60) DEF CallbackDisconnects
<1>9. ASSUME NEW k \in Kinds, CallbacksDone(k) PROVE TypeOK'
  BY <1>9 DEF CallbacksDone
<1>10. ASSUME NEW k \in Kinds, Register(k) PROVE TypeOK'
  <2>1. /\ \/ callbacks' = [callbacks EXCEPT ![k] = callbacks[k] + 1]
           \/ callbacks' = callbacks
        /\ UNCHANGED <<pc, shared, mutate_clients_mutex, clients, cursor, client,
                       network, calls>>
    BY <1>10, RegisterFrame
  <2>2. callbacks[k] + 1 \in 0..MaxCallbacks
    BY <1>10, RegisterBound
  <2>3. callbacks' \in [Kinds -> 0..MaxCallbacks]
    BY <2>1, <2>2
  <2>4. QED
    BY <2>1, <2>3
<1>11. CASE TestListening
  BY <1>11 DEF TestListening
<1>12. CASE CallAccept
  <2>1. CASE address_info = "freed"
    BY <1>12, <2>1, <1>a DEF CallAccept
  <2>2. CASE address_info # "freed"
    <3>1. /\ pc[Acceptor] = "accept" /\ pc' = [pc EXCEPT ![Acceptor] = "accepting"]
          /\ UNCHANGED <<shared, mutate_clients_mutex, clients, callbacks, cursor,
                         client, network, calls>>
      BY <1>12, <2>2 DEF CallAccept
    <3>2. QED
      BY <3>1
  <2>3. QED
    BY <2>1, <2>2
<1>13. ASSUME NEW c \in Conns, NEW i \in Ids, AcceptReturns(c, i) PROVE TypeOK'
  BY <1>13 DEF AcceptReturns
<1>14. CASE AcceptFails
  BY <1>14 DEF AcceptFails
<1>15. CASE LockClients
  BY <1>15 DEF LockClients
<1>16. CASE Insert
  BY <1>16 DEF Insert
<1>17. CASE Serve
  BY <1>17 DEF Serve
<1>18. CASE Erase
  BY <1>18 DEF Erase
<1>19. CASE ClearFlag
  <2>1. stops' \in 0..MaxStops
    BY <1>19, StopsBound
  <2>2. QED
    BY <1>19, <2>1 DEF ClearFlag
<1>20. CASE CloseListener
  BY <1>20 DEF CloseListener
<1>21. CASE DeleteAddress
  <2> DEFINE Goes ==
        /\ address_info # "freed"
        /\ address_info' = IF address_info = "live" THEN "freed" ELSE "null"
        /\ pc' = [pc EXCEPT ![Stopper] = "iterate"]
        /\ UNCHANGED <<is_listening, server_socket, mutate_clients_mutex, clients,
                       callbacks, cursor, client, network, calls, undefined>>
  <2>1. CASE \/ Undefined("address_info deleted twice")
             \/ Undefined("address_info not allocated by new")
    BY <1>21, <2>1, <1>a DEF DeleteAddress
  <2>2. CASE Goes
    <3>1. /\ pc[Stopper] = "delete" /\ pc' = [pc EXCEPT ![Stopper] = "iterate"]
          /\ address_info' \in {"null", "freed"}
          /\ UNCHANGED <<is_listening, server_socket, mutate_clients_mutex, clients,
                         callbacks, cursor, client, network, calls>>
      BY <1>21, <2>2 DEF DeleteAddress
    <3>2. QED
      BY <3>1
  <2>3. QED
    BY <1>21, <2>1, <2>2 DEF DeleteAddress
<1>22. CASE CloseClients
  BY <1>22 DEF CloseClients
<1>23. CASE ClearClients
  BY <1>23 DEF ClearClients
<1>24. ASSUME NEW d \in Disconnectors, NEW i \in Ids, Disconnect(d, i)
       PROVE TypeOK'
  BY <1>24 DEF Disconnect
<1>25. ASSUME NEW d \in Disconnectors, DisconnectLock(d) PROVE TypeOK'
  BY <1>25 DEF DisconnectLock
<1>26. ASSUME NEW d \in Disconnectors, Find(d) PROVE TypeOK'
  BY <1>26 DEF Find
<1>27. ASSUME NEW c \in Conns, Knock(c) PROVE TypeOK'
  BY <1>27 DEF Knock
<1>28. ASSUME NEW c \in Conns, Speak(c) PROVE TypeOK'
  BY <1>28 DEF Speak
<1>29. CASE Race
  BY <1>29, RaceFrame, <1>a
<1>30. CASE UNCHANGED vars
  BY <1>30 DEF vars
<1>31. QED
  BY <1>1, <1>2, <1>3, <1>4, <1>5, <1>6, <1>7, <1>8, <1>9, <1>10, <1>11,
     <1>12, <1>13, <1>14, <1>15, <1>16, <1>17, <1>18, <1>19, <1>20, <1>21, <1>22,
     <1>23, <1>24, <1>25, <1>26, <1>27, <1>28, <1>29, <1>30
  DEF Next, StartStep, AcceptStep, StopStep, DisconnectStep

\* The mutex has the owner its critical sections say.
LEMMA MutexStep ==
  TypeOK /\ ServerInv /\ [Next]_vars
    => ServerInv'
<1> SUFFICES ASSUME TypeOK, ServerInv, [Next]_vars
             PROVE  ServerInv'
  OBVIOUS
<1> USE ServerAssumption DEF TypeOK, Threads, Kinds, AcceptorLabels, StopperLabels,
        DisconnectLabels, Step, Lock, Unlock, Visit, AtCallbacks, Ready, NoClients,
        Undefined, shared, network, calls, ServerInv
<1>1. CASE StartFails
  BY <1>1 DEF StartFails
<1>2. CASE Initialize
  BY <1>2 DEF Initialize
<1>3. CASE GetAddress
  BY <1>3 DEF GetAddress
<1>4. CASE CreateSocket
  BY <1>4 DEF CreateSocket
<1>5. CASE Bind
  BY <1>5 DEF Bind
<1>6. CASE Listen
  BY <1>6 DEF Listen
<1>7. ASSUME NEW k \in Kinds, Callback(k) PROVE ServerInv'
  BY <1>7 DEF Callback
<1>8. CASE CallbackDisconnects
  BY <1>8 DEF CallbackDisconnects
<1>9. ASSUME NEW k \in Kinds, CallbacksDone(k) PROVE ServerInv'
  BY <1>9 DEF CallbacksDone
<1>10. ASSUME NEW k \in Kinds, Register(k) PROVE ServerInv'
  BY <1>10, ZenonT(60) DEF Register
<1>11. CASE TestListening
  BY <1>11 DEF TestListening
<1>12. CASE CallAccept
  <2>1. CASE address_info = "freed"
    BY <1>12, <2>1, ZenonT(60) DEF CallAccept
  <2>2. CASE address_info # "freed"
    BY <1>12, <2>2 DEF CallAccept
  <2>3. QED
    BY <2>1, <2>2
<1>13. ASSUME NEW c \in Conns, NEW i \in Ids, AcceptReturns(c, i)
       PROVE ServerInv'
  BY <1>13 DEF AcceptReturns
<1>14. CASE AcceptFails
  BY <1>14 DEF AcceptFails
<1>15. CASE LockClients
  BY <1>15 DEF LockClients
<1>16. CASE Insert
  BY <1>16 DEF Insert
<1>17. CASE Serve
  BY <1>17 DEF Serve
<1>18. CASE Erase
  BY <1>18 DEF Erase
<1>19. CASE ClearFlag
  BY <1>19 DEF ClearFlag
<1>20. CASE CloseListener
  BY <1>20 DEF CloseListener
<1>21. CASE DeleteAddress
  <2> DEFINE Goes ==
        /\ address_info # "freed"
        /\ address_info' = IF address_info = "live" THEN "freed" ELSE "null"
        /\ pc' = [pc EXCEPT ![Stopper] = "iterate"]
        /\ UNCHANGED <<is_listening, server_socket, mutate_clients_mutex, clients,
                       callbacks, cursor, client, network, calls, undefined>>
  <2>1. CASE \/ Undefined("address_info deleted twice")
             \/ Undefined("address_info not allocated by new")
    BY <1>21, <2>1, ZenonT(60) DEF DeleteAddress
  <2>2. CASE Goes
    <3>1. /\ pc[Stopper] = "delete" /\ pc' = [pc EXCEPT ![Stopper] = "iterate"]
          /\ stops' = stops /\ mutate_clients_mutex' = mutate_clients_mutex
      BY <1>21, <2>2 DEF DeleteAddress
    <3>2. QED
      BY <3>1
  <2>3. QED
    BY <1>21, <2>1, <2>2 DEF DeleteAddress
<1>22. CASE CloseClients
  BY <1>22 DEF CloseClients
<1>23. CASE ClearClients
  BY <1>23 DEF ClearClients
<1>24. ASSUME NEW d \in Disconnectors, NEW i \in Ids, Disconnect(d, i)
       PROVE ServerInv'
  BY <1>24 DEF Disconnect
<1>25. ASSUME NEW d \in Disconnectors, DisconnectLock(d) PROVE ServerInv'
  BY <1>25 DEF DisconnectLock
<1>26. ASSUME NEW d \in Disconnectors, Find(d) PROVE ServerInv'
  BY <1>26 DEF Find
<1>27. ASSUME NEW c \in Conns, Knock(c) PROVE ServerInv'
  BY <1>27 DEF Knock
<1>28. ASSUME NEW c \in Conns, Speak(c) PROVE ServerInv'
  BY <1>28 DEF Speak
<1>29. CASE Race
  BY <1>29 DEF Race
<1>30. CASE UNCHANGED vars
  BY <1>30 DEF vars
<1>31. QED
  BY <1>1, <1>2, <1>3, <1>4, <1>5, <1>6, <1>7, <1>8, <1>9, <1>10, <1>11,
     <1>12, <1>13, <1>14, <1>15, <1>16, <1>17, <1>18, <1>19, <1>20, <1>21, <1>22,
     <1>23, <1>24, <1>25, <1>26, <1>27, <1>28, <1>29, <1>30
  DEF Next, StartStep, AcceptStep, StopStep, DisconnectStep

\* The map has an entry only in the acceptor's critical section.
LEMMA ClientsStep ==
  TypeOK /\ ServerInv /\ ClientsOnlyWhileServed /\ [Next]_vars
    => ClientsOnlyWhileServed'
<1> SUFFICES ASSUME TypeOK, ServerInv, ClientsOnlyWhileServed, [Next]_vars
             PROVE  ClientsOnlyWhileServed'
  OBVIOUS
<1> USE ServerAssumption DEF TypeOK, Threads, Kinds, AcceptorLabels, StopperLabels,
        DisconnectLabels, Step, Lock, Unlock, Visit, AtCallbacks, Ready, NoClients,
        Undefined, shared, network, calls,
        ServerInv, ClientsOnlyWhileServed
<1>1. CASE StartFails
  BY <1>1 DEF StartFails
<1>2. CASE Initialize
  BY <1>2 DEF Initialize
<1>3. CASE GetAddress
  BY <1>3 DEF GetAddress
<1>4. CASE CreateSocket
  BY <1>4 DEF CreateSocket
<1>5. CASE Bind
  BY <1>5 DEF Bind
<1>6. CASE Listen
  BY <1>6 DEF Listen
<1>7. ASSUME NEW k \in Kinds, Callback(k) PROVE ClientsOnlyWhileServed'
  BY <1>7 DEF Callback
<1>8. CASE CallbackDisconnects
  BY <1>8 DEF CallbackDisconnects
<1>9. ASSUME NEW k \in Kinds, CallbacksDone(k) PROVE ClientsOnlyWhileServed'
  BY <1>9 DEF CallbacksDone
<1>10. ASSUME NEW k \in Kinds, Register(k) PROVE ClientsOnlyWhileServed'
  BY <1>10, ZenonT(60) DEF Register
<1>11. CASE TestListening
  BY <1>11 DEF TestListening
<1>12. CASE CallAccept
  BY <1>12 DEF CallAccept
<1>13. ASSUME NEW c \in Conns, NEW i \in Ids, AcceptReturns(c, i)
       PROVE ClientsOnlyWhileServed'
  BY <1>13 DEF AcceptReturns
<1>14. CASE AcceptFails
  BY <1>14 DEF AcceptFails
<1>15. CASE LockClients
  BY <1>15 DEF LockClients
<1>16. CASE Insert
  BY <1>16 DEF Insert
<1>17. CASE Serve
  BY <1>17 DEF Serve
<1>18. CASE Erase
  BY <1>18 DEF Erase
<1>19. CASE ClearFlag
  BY <1>19 DEF ClearFlag
<1>20. CASE CloseListener
  BY <1>20 DEF CloseListener
<1>21. CASE DeleteAddress
  <2> DEFINE Goes ==
        /\ address_info # "freed"
        /\ address_info' = IF address_info = "live" THEN "freed" ELSE "null"
        /\ pc' = [pc EXCEPT ![Stopper] = "iterate"]
        /\ UNCHANGED <<is_listening, server_socket, mutate_clients_mutex, clients,
                       callbacks, cursor, client, network, calls, undefined>>
  <2>1. CASE \/ Undefined("address_info deleted twice")
             \/ Undefined("address_info not allocated by new")
    BY <1>21, <2>1 DEF DeleteAddress
  <2>2. CASE Goes
    <3>1. /\ pc[Stopper] = "delete" /\ pc' = [pc EXCEPT ![Stopper] = "iterate"]
          /\ UNCHANGED <<mutate_clients_mutex, clients, client, id>>
      BY <1>21, <2>2 DEF DeleteAddress
    <3>2. QED
      BY <3>1
  <2>3. QED
    BY <1>21, <2>1, <2>2 DEF DeleteAddress
<1>22. CASE CloseClients
  BY <1>22 DEF CloseClients
<1>23. CASE ClearClients
  BY <1>23 DEF ClearClients
<1>24. ASSUME NEW d \in Disconnectors, NEW i \in Ids, Disconnect(d, i)
       PROVE ClientsOnlyWhileServed'
  BY <1>24 DEF Disconnect
<1>25. ASSUME NEW d \in Disconnectors, DisconnectLock(d)
       PROVE ClientsOnlyWhileServed'
  BY <1>25 DEF DisconnectLock
<1>26. ASSUME NEW d \in Disconnectors, Find(d) PROVE ClientsOnlyWhileServed'
  BY <1>26 DEF Find
<1>27. ASSUME NEW c \in Conns, Knock(c) PROVE ClientsOnlyWhileServed'
  BY <1>27 DEF Knock
<1>28. ASSUME NEW c \in Conns, Speak(c) PROVE ClientsOnlyWhileServed'
  BY <1>28 DEF Speak
<1>29. CASE Race
  BY <1>29 DEF Race
<1>30. CASE UNCHANGED vars
  BY <1>30 DEF vars
<1>31. QED
  BY <1>1, <1>2, <1>3, <1>4, <1>5, <1>6, <1>7, <1>8, <1>9, <1>10, <1>11,
     <1>12, <1>13, <1>14, <1>15, <1>16, <1>17, <1>18, <1>19, <1>20, <1>21, <1>22,
     <1>23, <1>24, <1>25, <1>26, <1>27, <1>28, <1>29, <1>30
  DEF Next, StartStep, AcceptStep, StopStep, DisconnectStep

\* A thread that holds the mutex races with stop alone.
LEMMA UndefinedStep ==
  TypeOK /\ ServerInv /\ UndefinedNeedsStop /\ [Next]_vars
    => UndefinedNeedsStop'
<1> SUFFICES ASSUME TypeOK, ServerInv, UndefinedNeedsStop, [Next]_vars
             PROVE  UndefinedNeedsStop'
  OBVIOUS
<1> USE ServerAssumption DEF TypeOK, Threads, Kinds, AcceptorLabels, StopperLabels,
        DisconnectLabels, Step, Lock, Unlock, Visit, AtCallbacks, Ready, NoClients,
        Undefined, shared, network, calls,
        ServerInv, UndefinedNeedsStop
<1>1. CASE StartFails
  BY <1>1 DEF StartFails
<1>2. CASE Initialize
  BY <1>2 DEF Initialize
<1>3. CASE GetAddress
  BY <1>3 DEF GetAddress
<1>4. CASE CreateSocket
  BY <1>4 DEF CreateSocket
<1>5. CASE Bind
  BY <1>5 DEF Bind
<1>6. CASE Listen
  BY <1>6 DEF Listen
<1>7. ASSUME NEW k \in Kinds, Callback(k) PROVE UndefinedNeedsStop'
  BY <1>7 DEF Callback
<1>8. CASE CallbackDisconnects
  BY <1>8 DEF CallbackDisconnects
<1>9. ASSUME NEW k \in Kinds, CallbacksDone(k) PROVE UndefinedNeedsStop'
  BY <1>9 DEF CallbacksDone
<1>10. ASSUME NEW k \in Kinds, Register(k) PROVE UndefinedNeedsStop'
  BY <1>10 DEF Register
<1>11. CASE TestListening
  BY <1>11 DEF TestListening
<1>12. CASE CallAccept
  BY <1>12 DEF CallAccept
<1>13. ASSUME NEW c \in Conns, NEW i \in Ids, AcceptReturns(c, i)
       PROVE UndefinedNeedsStop'
  BY <1>13 DEF AcceptReturns
<1>14. CASE AcceptFails
  BY <1>14 DEF AcceptFails
<1>15. CASE LockClients
  BY <1>15 DEF LockClients
<1>16. CASE Insert
  BY <1>16 DEF Insert
<1>17. CASE Serve
  BY <1>17 DEF Serve
<1>18. CASE Erase
  BY <1>18 DEF Erase
<1>19. CASE ClearFlag
  <2>1. stops' > 0
    BY <1>19, StopsBound
  <2>2. QED
    BY <2>1
<1>20. CASE CloseListener
  BY <1>20 DEF CloseListener
<1>21. CASE DeleteAddress
  BY <1>21 DEF DeleteAddress
<1>22. CASE CloseClients
  BY <1>22 DEF CloseClients
<1>23. CASE ClearClients
  BY <1>23 DEF ClearClients
<1>24. ASSUME NEW d \in Disconnectors, NEW i \in Ids, Disconnect(d, i)
       PROVE UndefinedNeedsStop'
  BY <1>24 DEF Disconnect
<1>25. ASSUME NEW d \in Disconnectors, DisconnectLock(d)
       PROVE UndefinedNeedsStop'
  BY <1>25 DEF DisconnectLock
<1>26. ASSUME NEW d \in Disconnectors, Find(d) PROVE UndefinedNeedsStop'
  BY <1>26 DEF Find
<1>27. ASSUME NEW c \in Conns, Knock(c) PROVE UndefinedNeedsStop'
  BY <1>27 DEF Knock
<1>28. ASSUME NEW c \in Conns, Speak(c) PROVE UndefinedNeedsStop'
  BY <1>28 DEF Speak
<1>29. CASE Race
  <2>1. stops > 0
    BY <1>29, RaceNeedsStop
  <2>2. stops' = stops
    BY <1>29, RaceFrame
  <2>3. QED
    BY <2>1, <2>2
<1>30. CASE UNCHANGED vars
  BY <1>30 DEF vars
<1>31. QED
  BY <1>1, <1>2, <1>3, <1>4, <1>5, <1>6, <1>7, <1>8, <1>9, <1>10, <1>11,
     <1>12, <1>13, <1>14, <1>15, <1>16, <1>17, <1>18, <1>19, <1>20, <1>21, <1>22,
     <1>23, <1>24, <1>25, <1>26, <1>27, <1>28, <1>29, <1>30
  DEF Next, StartStep, AcceptStep, StopStep, DisconnectStep

\* A lookup finds the map empty, so it closes nothing.
LEMMA CloseStep ==
  TypeOK /\ ServerInv /\ ClientsOnlyWhileServed /\ OnlyStopCloses /\ [Next]_vars
    => OnlyStopCloses'
<1> SUFFICES ASSUME TypeOK, ServerInv, ClientsOnlyWhileServed, OnlyStopCloses,
                    [Next]_vars
             PROVE  OnlyStopCloses'
  OBVIOUS
<1> USE ServerAssumption DEF TypeOK, Threads, Kinds, AcceptorLabels, StopperLabels,
        DisconnectLabels, Step, Lock, Unlock, Visit, AtCallbacks, Ready, NoClients,
        Undefined, shared, network, calls,
        ServerInv, ClientsOnlyWhileServed, OnlyStopCloses
<1>1. CASE StartFails
  BY <1>1 DEF StartFails
<1>2. CASE Initialize
  BY <1>2 DEF Initialize
<1>3. CASE GetAddress
  BY <1>3 DEF GetAddress
<1>4. CASE CreateSocket
  BY <1>4 DEF CreateSocket
<1>5. CASE Bind
  BY <1>5 DEF Bind
<1>6. CASE Listen
  BY <1>6 DEF Listen
<1>7. ASSUME NEW k \in Kinds, Callback(k) PROVE OnlyStopCloses'
  BY <1>7 DEF Callback
<1>8. CASE CallbackDisconnects
  BY <1>8 DEF CallbackDisconnects
<1>9. ASSUME NEW k \in Kinds, CallbacksDone(k) PROVE OnlyStopCloses'
  BY <1>9 DEF CallbacksDone
<1>10. ASSUME NEW k \in Kinds, Register(k) PROVE OnlyStopCloses'
  BY <1>10 DEF Register
<1>11. CASE TestListening
  BY <1>11 DEF TestListening
<1>12. CASE CallAccept
  BY <1>12 DEF CallAccept
<1>13. ASSUME NEW c \in Conns, NEW i \in Ids, AcceptReturns(c, i)
       PROVE OnlyStopCloses'
  BY <1>13 DEF AcceptReturns
<1>14. CASE AcceptFails
  BY <1>14 DEF AcceptFails
<1>15. CASE LockClients
  BY <1>15 DEF LockClients
<1>16. CASE Insert
  BY <1>16 DEF Insert
<1>17. CASE Serve
  BY <1>17 DEF Serve
<1>18. CASE Erase
  BY <1>18 DEF Erase
<1>19. CASE ClearFlag
  BY <1>19 DEF ClearFlag
<1>20. CASE CloseListener
  BY <1>20 DEF CloseListener
<1>21. CASE DeleteAddress
  <2> DEFINE Goes ==
        /\ address_info # "freed"
        /\ address_info' = IF address_info = "live" THEN "freed" ELSE "null"
        /\ pc' = [pc EXCEPT ![Stopper] = "iterate"]
        /\ UNCHANGED <<is_listening, server_socket, mutate_clients_mutex, clients,
                       callbacks, cursor, client, network, calls, undefined>>
  <2>1. CASE \/ Undefined("address_info deleted twice")
             \/ Undefined("address_info not allocated by new")
    BY <1>21, <2>1, ZenonT(60) DEF DeleteAddress
  <2>2. CASE Goes
    <3>1. /\ pc[Stopper] = "delete" /\ pc' = [pc EXCEPT ![Stopper] = "iterate"]
          /\ UNCHANGED <<mutate_clients_mutex, clients, client, id, socket, stops>>
      BY <1>21, <2>2 DEF DeleteAddress
    <3>2. QED
      BY <3>1
  <2>3. QED
    BY <1>21, <2>1, <2>2 DEF DeleteAddress
<1>22. CASE CloseClients
  BY <1>22 DEF CloseClients
<1>23. CASE ClearClients
  BY <1>23 DEF ClearClients
<1>24. ASSUME NEW d \in Disconnectors, NEW i \in Ids, Disconnect(d, i)
       PROVE OnlyStopCloses'
  BY <1>24 DEF Disconnect
<1>25. ASSUME NEW d \in Disconnectors, DisconnectLock(d) PROVE OnlyStopCloses'
  BY <1>25 DEF DisconnectLock
<1>26. ASSUME NEW d \in Disconnectors, Find(d) PROVE OnlyStopCloses'
  BY <1>26 DEF Find
<1>27. ASSUME NEW c \in Conns, Knock(c) PROVE OnlyStopCloses'
  BY <1>27 DEF Knock
<1>28. ASSUME NEW c \in Conns, Speak(c) PROVE OnlyStopCloses'
  BY <1>28 DEF Speak
<1>29. CASE Race
  BY <1>29 DEF Race
<1>30. CASE UNCHANGED vars
  BY <1>30 DEF vars
<1>31. QED
  BY <1>1, <1>2, <1>3, <1>4, <1>5, <1>6, <1>7, <1>8, <1>9, <1>10, <1>11,
     <1>12, <1>13, <1>14, <1>15, <1>16, <1>17, <1>18, <1>19, <1>20, <1>21, <1>22,
     <1>23, <1>24, <1>25, <1>26, <1>27, <1>28, <1>29, <1>30
  DEF Next, StartStep, AcceptStep, StopStep, DisconnectStep

\* Every state of the server has the shape TypeOK gives it.
THEOREM ServerTypeCorrect == Spec => []TypeOK
  BY TypeInit, TypeStep, PTL DEF Spec

\* The inductive invariant holds in every state the server reaches.
THEOREM ServerInvariant == Spec => []ServerSafe
<1>1. TypeOK /\ ServerSafe /\ [Next]_vars => ServerSafe'
  BY MutexStep, ClientsStep, UndefinedStep, CloseStep DEF ServerSafe
<1>2. QED
  BY <1>1, SafeInit, ServerTypeCorrect, PTL DEF Spec

\* A thread that has the mutex never finds a client, except the acceptor the
\* one it serves.
THEOREM ServerClients == Spec => []ClientsOnlyWhileServed
<1>1. ServerSafe => ClientsOnlyWhileServed
  BY DEF ServerSafe
<1>2. QED
  BY <1>1, ServerInvariant, PTL

\* Nothing but stop frees the address in use or races for the map.
THEOREM ServerUndefined == Spec => []UndefinedNeedsStop
<1>1. ServerSafe => UndefinedNeedsStop
  BY DEF ServerSafe
<1>2. QED
  BY <1>1, ServerInvariant, PTL

\* No client's socket is closed but by stop.
THEOREM ServerCloses == Spec => []OnlyStopCloses
<1>1. ServerSafe => OnlyStopCloses
  BY DEF ServerSafe
<1>2. QED
  BY <1>1, ServerInvariant, PTL
=============================================================================
