------------------------- MODULE TcpConnectionProofs -------------------------
(***************************************************************************)
(* Theorems of TcpConnection, for any number of threads, chunks, attempts  *)
(* and calls of close(): one read at a time, the order of the data and    *)
(* the calls of disconnected_callback_ for every pool, and for a pool of   *)
(* one thread the status.                                                  *)
(***************************************************************************)
EXTENDS TcpConnection, FiniteSetTheorems, TLAPS

\* The types as far as the arguments below need them.
Types ==
  /\ role \in Roles /\ pool \in Pools /\ status_ \in Statuses /\ up \in BOOLEAN
  /\ connecting \subseteq Nat /\ reads \subseteq Nat /\ events \subseteq Event
  /\ chunk \in [Threads -> Nat] /\ pc \in [Threads -> Locations]
  /\ received \in Seq([by : Threads, read : Nat, found : Nat]) /\ buffer \in Nat
  /\ sent \in Nat /\ armed \in Nat /\ attempts \in Nat /\ disconnects \in Nat

Reading == {"read", "rearm"}

\* An accepted connection never connects.
AcceptedStays ==
  role = "accepted" =>
    /\ connecting = {} /\ \A e \in events : e.of = "read"
    /\ \A t \in Threads : pc[t] \notin {"setConnected", "setConnecting"}

\* The right to read is in one place: a read, the end of a read, a thread.
ReaderIsOne ==
  role = "accepted" =>
    /\ \A m, n \in reads : m = n
    /\ \A d, e \in events : d = e
    /\ \A s, t \in Threads : pc[s] \in Reading /\ pc[t] \in Reading => s = t
    /\ reads # {} => events = {}
    /\ \A t \in Threads : pc[t] \in Reading => reads = {} /\ events = {}

ReaderInv == Types /\ AcceptedStays /\ ReaderIsOne

-----------------------------------------------------------------------------
(* What close(), the callbacks and the attempts rely on.                   *)

\* The threads in a close() that passed the test of the status.
Passed == {t \in pool : pc[t] \in {"shutdown", "setClosed"}}

\* Only an open accepted connection lets close() pass, and every thread that
\* passed calls back once.
ClosersPassed ==
  role = "accepted" =>
    IF status_ = "kClosed" THEN disconnects + Cardinality(Passed) <= Cardinality(pool)
                           ELSE disconnects = 0

\* A chunk that a thread has in hand is ahead of what that thread handed over,
\* and one that nobody has in hand is ahead of everything.
ChunksAhead ==
  role = "accepted" =>
    /\ \A i, j \in 1..Len(received) :
         i < j /\ received[i].by = received[j].by => received[i].read < received[j].read
    /\ \A i \in 1..Len(received) : received[i].read <= sent
    /\ \A e \in events : e.ok =>
         /\ e.chunk <= sent
         /\ \A i \in 1..Len(received) : received[i].read < e.chunk
    /\ \A t \in Threads : pc[t] \in {"rearm", "deliver"} =>
         /\ chunk[t] <= sent
         /\ \A i \in 1..Len(received) : received[i].by = t => received[i].read < chunk[t]
         /\ \A e \in events : e.ok => chunk[t] < e.chunk

\* An attempt is in hand from its start until its handler.
AttemptPends ==
  status_ = "kConnecting" \/ (\E t \in pool : pc[t] = "setConnecting") =>
    connecting # {} \/ \E e \in events : e.of = "connect"

HandInv == ReaderInv /\ ClosersPassed /\ ChunksAhead /\ (Serial => AttemptPends)

-----------------------------------------------------------------------------
(* Any pool.                                                               *)

\* A failed operation is an event.
LEMMA FailureIsEvent ==
  ASSUME NEW kind \in {"connect", "read"}, NEW n \in Nat
  PROVE  Failure(kind, n) \in Event /\ Failure(kind, n).of = kind /\ ~Failure(kind, n).ok
BY DEF Failure, Event

\* Every step keeps the types.
LEMMA NextTypes == Types /\ [Next]_vars => Types'
<1> SUFFICES ASSUME Types, [Next]_vars PROVE Types'
  OBVIOUS
<1> USE DEF setup, counts, Step
<1>1. pool \subseteq Threads
  BY ConnectionAssumption DEF Types
<1>2. /\ \A e \in events : e \in Event /\ e.ok \in BOOLEAN /\ e.chunk \in Nat
      /\ \A t \in Threads : chunk[t] \in Nat
  BY DEF Types, Event
<1>3. ASSUME NEW t \in pool, HandleConnect(t) \/ HandleReceiveError(t) \/ HandleReceive(t)
      PROVE  Types'
  <2>1. pc' \in [Threads -> Locations] /\ status_' \in Statuses
    BY <1>1, <1>3
       DEF HandleConnect, HandleReceiveError, HandleReceive, Types, Locations, Statuses
  <2>2. events' \subseteq Event /\ chunk' \in [Threads -> Nat]
    BY <1>1, <1>2, <1>3 DEF HandleConnect, HandleReceiveError, HandleReceive, Types
  <2> QED
    BY <1>3, <2>1, <2>2 DEF HandleConnect, HandleReceiveError, HandleReceive, Types
<1>4. ASSUME NEW t \in pool, FirstRead(t) \/ Rearm(t)
      PROVE  Types'
  <2>1. pc' \in [Threads -> Locations] /\ armed' \in Nat
    BY <1>1, <1>4, SMTT(30) DEF FirstRead, Rearm, StartReceive, Types, Locations
  <2>2. Failure("read", armed + 1) \in Event /\ armed + 1 \in Nat
    BY FailureIsEvent DEF Types
  <2>3. reads' \subseteq Nat /\ events' \subseteq Event
    BY <1>4, <2>2 DEF FirstRead, Rearm, StartReceive, Types
  <2> QED
    BY <1>4, <2>1, <2>3 DEF FirstRead, Rearm, Types
<1>5. ASSUME NEW t \in pool, Deliver(t)
      PROVE  Types'
  <2>1. pc' \in [Threads -> Locations]
    BY <1>1, <1>5 DEF Deliver, Types, Locations
  <2>2. [by |-> t, read |-> chunk[t], found |-> buffer] \in [by : Threads, read : Nat, found : Nat]
    BY <1>1, <1>2 DEF Types
  <2>3. received' \in Seq([by : Threads, read : Nat, found : Nat])
    BY <1>5, <2>2 DEF Deliver, Types
  <2> QED
    BY <1>5, <2>1, <2>3 DEF Deliver, Types
<1>6. ASSUME NEW t \in pool, SetConnected(t) \/ SetConnecting(t) \/ CloseCheck(t) \/ SetClosed(t)
      PROVE  Types'
  <2>1. pc' \in [Threads -> Locations]
    BY <1>1, <1>6 DEF SetConnected, SetConnecting, CloseCheck, SetClosed, Types, Locations
  <2>2. status_' \in Statuses /\ disconnects' \in Nat
    BY <1>6 DEF SetConnected, SetConnecting, CloseCheck, SetClosed, Types, Statuses
  <2> QED
    BY <1>6, <2>1, <2>2 DEF SetConnected, SetConnecting, CloseCheck, SetClosed, Types
<1>7. ASSUME NEW t \in pool, CloseSocket(t)
      PROVE  Types'
  <2>1. pc' \in [Threads -> Locations]
    BY <1>1, <1>7 DEF CloseSocket, Types, Locations
  <2>2. events' \subseteq Event
    BY <1>7, FailureIsEvent DEF CloseSocket, Types
  <2> QED
    BY <1>7, <2>1, <2>2 DEF CloseSocket, Types
<1>8. ASSUME NEW t \in pool, Connect(t) \/ AsyncConnect(t) \/ CallClose(t)
      PROVE  Types'
  <2>1. pc' \in [Threads -> Locations]
    BY <1>1, <1>8 DEF Connect, AsyncConnect, CallClose, Types, Locations
  <2>2. attempts' \in Nat /\ connecting' \subseteq Nat
    <3>1. attempts \in Nat /\ connecting \subseteq Nat /\ attempts + 1 \in Nat
      BY DEF Types
    <3>2. /\ attempts' \in {attempts, attempts + 1}
          /\ connecting' \subseteq connecting \cup {attempts + 1}
      BY <1>8 DEF Connect, AsyncConnect, CallClose
    <3> QED
      BY <3>1, <3>2
  <2>3. up' \in BOOLEAN
    BY <1>8, Zenon DEF Connect, AsyncConnect, CallClose, Types
  <2> QED
    BY <1>8, <2>1, <2>2, <2>3 DEF Connect, AsyncConnect, CallClose, Types
<1>9. CASE ConnectEnds
  <2>1. PICK n \in connecting, ok \in BOOLEAN :
          /\ connecting' = connecting \ {n}
          /\ events' = events \cup {[of |-> "connect", op |-> n, ok |-> ok, chunk |-> 0]}
          /\ up' = (up \/ ok)
          /\ UNCHANGED <<setup, status_, reads, buffer, pc, chunk, received, counts, disconnects>>
    BY <1>9 DEF ConnectEnds
  <2>2. [of |-> "connect", op |-> n, ok |-> ok, chunk |-> 0] \in Event
    BY DEF Event, Types
  <2>3. events' \subseteq Event /\ connecting' \subseteq Nat
    BY <2>1, <2>2 DEF Types
  <2>4. up' \in BOOLEAN
    BY <2>1
  <2> QED
    BY <2>1, <2>3, <2>4 DEF Types
<1>10. CASE DataArrives
  <2>1. PICK n \in reads :
          /\ sent' = sent + 1 /\ buffer' = sent + 1 /\ reads' = reads \ {n}
          /\ events' = events \cup {[of |-> "read", op |-> n, ok |-> TRUE, chunk |-> sent + 1]}
          /\ UNCHANGED <<setup, status_, up, connecting, pc, chunk, received, attempts, closes,
                         armed, disconnects>>
    BY <1>10 DEF DataArrives
  <2>2. [of |-> "read", op |-> n, ok |-> TRUE, chunk |-> sent + 1] \in Event
    BY DEF Event, Types
  <2>3. /\ events \subseteq Event /\ reads \subseteq Nat /\ sent \in Nat
    BY DEF Types
  <2>4. events' \subseteq Event
    BY <2>1, <2>2, <2>3
  <2>5. reads' \subseteq Nat /\ sent' \in Nat /\ buffer' \in Nat
    BY <2>1, <2>3
  <2> QED
    BY <2>1, <2>4, <2>5 DEF Types
<1>11. CASE PeerCloses
  BY <1>11, FailureIsEvent DEF PeerCloses, Types
<1>12. CASE UNCHANGED vars
  BY <1>12 DEF vars, Types
<1> QED
  BY <1>3, <1>4, <1>5, <1>6, <1>7, <1>8, <1>9, <1>10, <1>11, <1>12 DEF Next, ThreadRuns

\* The initial states.
LEMMA InitInv == Init => HandInv
<1> SUFFICES ASSUME Init PROVE HandInv
  OBVIOUS
<1>1. PICK acceptor \in pool :
        pc = [t \in Threads |-> IF role = "accepted" /\ t = acceptor THEN "read" ELSE "idle"]
  BY DEF Init
<1>2. Types
  <2>1. pc \in [Threads -> Locations] /\ chunk \in [Threads -> Nat]
    BY <1>1 DEF Init, Locations
  <2>2. received \in Seq([by : Threads, read : Nat, found : Nat])
    BY DEF Init
  <2> QED
    BY <2>1, <2>2 DEF Init, Types, Statuses
<1>3. AcceptedStays /\ ReaderIsOne
  BY <1>1 DEF Init, AcceptedStays, ReaderIsOne, Reading
<1>4. ClosersPassed /\ ChunksAhead /\ AttemptPends
  <2>1. pool \subseteq Threads
    BY ConnectionAssumption DEF Init
  <2>2. \A t \in Threads : pc[t] \in {"read", "idle"}
    BY <1>1
  <2> QED
    BY <2>1, <2>2 DEF Init, ClosersPassed, ChunksAhead, AttemptPends
<1> QED
  BY <1>2, <1>3, <1>4 DEF ReaderInv, HandInv

\* Every step passes the right to read on, and no step doubles it.
LEMMA NextReader == ReaderInv /\ [Next]_vars => ReaderInv'
<1> SUFFICES ASSUME ReaderInv, [Next]_vars PROVE ReaderInv'
  OBVIOUS
<1> USE DEF setup, counts, Step
<1>1. Types /\ Types' /\ pool \subseteq Threads
  BY NextTypes, ConnectionAssumption DEF ReaderInv, Types
<1>2. CASE role # "accepted"
  <2>1. role' = role
    BY DEF Next, ThreadRuns, vars, Connect, SetConnected, AsyncConnect, SetConnecting,
       HandleConnect, FirstRead, HandleReceiveError, HandleReceive, Rearm, Deliver, CallClose,
       CloseCheck, CloseSocket, SetClosed, ConnectEnds, DataArrives, PeerCloses
  <2> QED
    BY <1>1, <1>2, <2>1 DEF ReaderInv, AcceptedStays, ReaderIsOne
<1>3. CASE role = "accepted"
  <2>1. /\ connecting = {} /\ \A e \in events : e.of = "read"
        /\ \A t \in Threads : pc[t] \notin {"setConnected", "setConnecting"}
    BY <1>3 DEF ReaderInv, AcceptedStays
  <2>2. /\ \A m, n \in reads : m = n
        /\ \A d, e \in events : d = e
        /\ \A s, t \in Threads : pc[s] \in Reading /\ pc[t] \in Reading => s = t
        /\ reads # {} => events = {}
        /\ \A t \in Threads : pc[t] \in Reading => reads = {} /\ events = {}
    BY <1>3 DEF ReaderInv, ReaderIsOne
  <2>3. /\ pc \in [Threads -> Locations] /\ reads \subseteq Nat /\ armed \in Nat
    BY <1>1 DEF Types
  <2> SUFFICES AcceptedStays' /\ ReaderIsOne'
    BY <1>1 DEF ReaderInv
  \* A step that starts, ends and handles no read.
  <2>4. ASSUME NEW t \in pool, NEW there \in Locations \ {"read", "rearm", "setConnected",
                                                         "setConnecting"},
               pc' = [pc EXCEPT ![t] = there], UNCHANGED <<connecting, reads, events>>
        PROVE  AcceptedStays' /\ ReaderIsOne'
    BY <1>1, <2>1, <2>2, <2>3, <2>4 DEF AcceptedStays, ReaderIsOne, Reading
  <2>5. ASSUME NEW t \in pool, Deliver(t) \/ CloseCheck(t) \/ SetClosed(t) \/ CallClose(t)
        PROVE  AcceptedStays' /\ ReaderIsOne'
    BY <2>4, <2>5 DEF Deliver, CloseCheck, SetClosed, CallClose, Locations
  <2>6. ASSUME NEW t \in pool, FirstRead(t) \/ Rearm(t)
        PROVE  AcceptedStays' /\ ReaderIsOne'
    <3>1. /\ pc[t] \in Reading /\ reads = {} /\ events = {}
          /\ \A s \in Threads : s # t => pc[s] \notin Reading
      BY <1>1, <2>2, <2>6 DEF FirstRead, Rearm, Reading
    <3>2. /\ pc'[t] \in {"idle", "deliver"} /\ \A s \in Threads : s # t => pc'[s] = pc[s]
          /\ connecting' = {}
          /\ \/ reads' = {armed + 1} /\ events' = {}
             \/ reads' = {} /\ events' = {Failure("read", armed + 1)}
      BY <1>1, <2>1, <2>3, <2>6, <3>1 DEF FirstRead, Rearm, StartReceive
    <3>3. Failure("read", armed + 1).of = "read"
      BY DEF Failure
    <3>4. \A s \in Threads : pc'[s] \notin Reading /\ pc'[s] \notin {"setConnected", "setConnecting"}
      BY <1>1, <2>1, <3>1, <3>2 DEF Reading
    <3> QED
      BY <3>2, <3>3, <3>4 DEF AcceptedStays, ReaderIsOne
  <2>7. ASSUME NEW t \in pool, HandleReceive(t) \/ HandleReceiveError(t)
        PROVE  AcceptedStays' /\ ReaderIsOne'
    <3>1. /\ events # {} /\ events' = {} /\ reads = {} /\ reads' = {} /\ connecting' = {}
          /\ pc'[t] \in {"rearm", "close"} /\ \A s \in Threads : s # t => pc'[s] = pc[s]
      BY <1>1, <2>1, <2>2, <2>3, <2>7 DEF HandleReceive, HandleReceiveError
    <3>2. \A s \in Threads : pc[s] \notin Reading
      BY <2>2, <3>1
    <3> QED
      BY <1>1, <2>1, <3>1, <3>2 DEF AcceptedStays, ReaderIsOne, Reading
  <2>8. ASSUME NEW t \in pool, CloseSocket(t)
        PROVE  AcceptedStays' /\ ReaderIsOne'
    <3>1. /\ pc'[t] = "setClosed" /\ \A s \in Threads : s # t => pc'[s] = pc[s]
          /\ connecting' = {} /\ reads' = {}
          /\ events' = events \cup {Failure("read", n) : n \in reads}
      BY <1>1, <2>1, <2>3, <2>8 DEF CloseSocket
    <3>2. \A n \in reads : Failure("read", n).of = "read"
      BY DEF Failure
    <3>3. (\A d, e \in events' : d = e) /\ (\A e \in events' : e.of = "read")
          /\ (reads = {} => events' = events)
      BY <2>1, <2>2, <3>1, <3>2
    <3>4. \A s \in Threads : pc'[s] \in Reading => pc[s] \in Reading /\ events' = {}
      BY <2>2, <3>1, <3>3 DEF Reading
    <3> QED
      BY <2>1, <2>2, <3>1, <3>3, <3>4 DEF AcceptedStays, ReaderIsOne
  <2>9. CASE DataArrives \/ PeerCloses
    <3>1. PICK n \in reads, e \in events' :
            /\ reads' = reads \ {n} /\ events' = events \cup {e} /\ UNCHANGED <<pc, connecting>>
            /\ e.of = "read"
      <4>1. CASE DataArrives
        <5>1. PICK n \in reads :
                /\ reads' = reads \ {n} /\ UNCHANGED <<pc, connecting>>
                /\ events' = events \cup
                     {[of |-> "read", op |-> n, ok |-> TRUE, chunk |-> sent + 1]}
          BY <4>1 DEF DataArrives
        <5> DEFINE end == [of |-> "read", op |-> n, ok |-> TRUE, chunk |-> sent + 1]
        <5>2. events' = events \cup {end} /\ end.of = "read"
          BY <5>1 DEF Failure
        <5> HIDE DEF end
        <5> QED
          BY <5>1, <5>2
      <4>2. CASE PeerCloses
        <5>1. PICK n \in reads :
                /\ reads' = reads \ {n} /\ UNCHANGED <<pc, connecting>>
                /\ events' = events \cup {Failure("read", n)}
          BY <4>2 DEF PeerCloses
        <5> DEFINE end == Failure("read", n)
        <5>2. events' = events \cup {end} /\ end.of = "read"
          BY <5>1 DEF Failure
        <5> HIDE DEF end
        <5> QED
          BY <5>1, <5>2
      <4> QED
        BY <2>9, <4>1, <4>2
    <3>2. reads' = {} /\ events' = {e}
      BY <2>2, <3>1
    <3> QED
      BY <2>1, <2>2, <3>1, <3>2 DEF AcceptedStays, ReaderIsOne
  <2>10. ASSUME NEW t \in pool, \/ HandleConnect(t) \/ Connect(t) \/ AsyncConnect(t)
                                \/ SetConnected(t) \/ SetConnecting(t)
         PROVE  FALSE
    BY <1>1, <1>3, <2>1, <2>10
       DEF HandleConnect, Connect, AsyncConnect, SetConnected, SetConnecting
  <2>11. ~ConnectEnds
    BY <2>1 DEF ConnectEnds
  <2>12. CASE UNCHANGED vars
    BY <2>1, <2>2, <2>12 DEF vars, AcceptedStays, ReaderIsOne
  <2> QED
    BY <2>5, <2>6, <2>7, <2>8, <2>9, <2>10, <2>11, <2>12 DEF Next, ThreadRuns
<1> QED
  BY <1>2, <1>3

-----------------------------------------------------------------------------
\* What a set can hold at most when it has lost, kept or gained something.
LEMMA Losing ==
  ASSUME NEW S, IsFiniteSet(S), NEW x \in S, NEW T, T \subseteq S \ {x}
  PROVE  Cardinality(T) \in Nat /\ Cardinality(S) \in Nat /\ Cardinality(T) <= Cardinality(S) - 1
<1>1. /\ IsFiniteSet(S \ {x}) /\ Cardinality(S \ {x}) = Cardinality(S) - 1
  BY FS_RemoveElement
<1>2. IsFiniteSet(T) /\ Cardinality(T) <= Cardinality(S \ {x})
  BY <1>1, FS_Subset
<1> QED
  BY <1>1, <1>2, FS_CardinalityType

LEMMA Keeping ==
  ASSUME NEW S, IsFiniteSet(S), NEW T, T \subseteq S
  PROVE  Cardinality(T) \in Nat /\ Cardinality(S) \in Nat /\ Cardinality(T) <= Cardinality(S)
BY FS_Subset, FS_CardinalityType

LEMMA Gaining ==
  ASSUME NEW S, IsFiniteSet(S), NEW x, NEW T, T \subseteq S \cup {x}
  PROVE  Cardinality(T) \in Nat /\ Cardinality(S) \in Nat /\ Cardinality(T) <= Cardinality(S) + 1
<1>1. IsFiniteSet(S \cup {x}) /\ Cardinality(S \cup {x}) \in {Cardinality(S), Cardinality(S) + 1}
  BY FS_AddElement
<1>2. IsFiniteSet(T) /\ Cardinality(T) <= Cardinality(S \cup {x})
  BY <1>1, FS_Subset
<1> QED
  BY <1>1, <1>2, FS_CardinalityType

LEMMA SetupStays == [Next]_vars => role' = role /\ pool' = pool
BY DEF Next, ThreadRuns, vars, Connect, SetConnected, AsyncConnect, SetConnecting, HandleConnect,
   FirstRead, HandleReceiveError, HandleReceive, Rearm, Deliver, CallClose, CloseCheck,
   CloseSocket, SetClosed, ConnectEnds, DataArrives, PeerCloses, setup, counts

\* What is not done with an accepted connection.
LEMMA AcceptedDoesNotConnect ==
  ASSUME ReaderInv, role = "accepted"
  PROVE  /\ ~ConnectEnds
         /\ \A t \in pool : /\ ~HandleConnect(t) /\ ~Connect(t) /\ ~AsyncConnect(t)
                            /\ ~SetConnected(t) /\ ~SetConnecting(t)
BY ConnectionAssumption DEF ReaderInv, Types, AcceptedStays, ConnectEnds, HandleConnect, Connect,
   AsyncConnect, SetConnected, SetConnecting, Step

-----------------------------------------------------------------------------
(* Closing, handing over and connecting.                                   *)

\* Every call of disconnected_callback_ is paid for by a thread that passed the
\* test of the status before it was set.
LEMMA NextClosers == ReaderInv /\ ClosersPassed /\ [Next]_vars => ClosersPassed'
<1> SUFFICES ASSUME ReaderInv, ClosersPassed, [Next]_vars, role = "accepted", role' = role,
                    pool' = pool
             PROVE  ClosersPassed'
  BY SetupStays DEF ClosersPassed
<1> USE DEF setup, counts, Step
<1>1. /\ pool \subseteq Threads /\ IsFiniteSet(pool) /\ pc \in [Threads -> Locations]
      /\ disconnects \in Nat
  BY ConnectionAssumption, FS_Subset DEF ReaderInv, Types
<1>2. Passed \subseteq pool /\ IsFiniteSet(Passed)
  BY <1>1, FS_Subset DEF Passed
<1>3. /\ Cardinality(Passed) \in Nat /\ Cardinality(pool) \in Nat
      /\ Cardinality(Passed) <= Cardinality(pool)
  BY <1>1, <1>2, Keeping
\* A step in which nobody passes the test or calls back.
<1>4. ASSUME UNCHANGED <<status_, disconnects>>, status_ = "kClosed" => Passed' \subseteq Passed
      PROVE  ClosersPassed'
  <2>1. CASE status_ = "kClosed"
    <3>1. Cardinality(Passed') \in Nat /\ Cardinality(Passed') <= Cardinality(Passed)
      BY <1>2, <1>4, <2>1, Keeping
    <3> QED
      BY <1>1, <1>3, <1>4, <2>1, <3>1 DEF ClosersPassed
  <2>2. CASE status_ # "kClosed"
    BY <1>4, <2>2 DEF ClosersPassed
  <2> QED
    BY <2>1, <2>2
<1>5. ASSUME NEW t \in pool, CloseCheck(t)
      PROVE  ClosersPassed'
  BY <1>1, <1>4, <1>5 DEF CloseCheck, Passed
<1>6. ASSUME NEW t \in pool, SetClosed(t)
      PROVE  ClosersPassed'
  <2>1. /\ status_' = "kClosed" /\ disconnects' = disconnects + 1
        /\ t \in Passed /\ Passed' \subseteq Passed \ {t}
    BY <1>1, <1>6 DEF SetClosed, Passed
  <2>2. Cardinality(Passed') \in Nat /\ Cardinality(Passed') <= Cardinality(Passed) - 1
    BY <1>2, <2>1, Losing
  <2>3. disconnects + Cardinality(Passed) <= Cardinality(pool)
    BY <1>1, <1>3 DEF ClosersPassed
  <2>4. disconnects' + Cardinality(Passed') <= Cardinality(pool)
    BY <1>1, <1>3, <2>1, <2>2, <2>3
  <2> QED
    BY <2>1, <2>4 DEF ClosersPassed
<1>7. ASSUME NEW t \in pool, FirstRead(t) \/ HandleReceiveError(t) \/ HandleReceive(t) \/ Rearm(t)
                             \/ Deliver(t) \/ CallClose(t) \/ CloseSocket(t)
      PROVE  ClosersPassed'
  <2>1. UNCHANGED <<status_, disconnects>>
    BY <1>7 DEF FirstRead, HandleReceiveError, HandleReceive, Rearm, Deliver, CallClose, CloseSocket
  <2>2. \E from, to \in Locations :
          Step(t, from, to) /\ (to = "setClosed" => from = "shutdown") /\ to # "shutdown"
    BY <1>7 DEF FirstRead, HandleReceiveError, HandleReceive, Rearm, Deliver, CallClose,
       CloseSocket, Locations
  <2>3. Passed' \subseteq Passed
    BY <1>1, <2>2 DEF Passed
  <2> QED
    BY <1>4, <2>1, <2>3
<1>8. CASE DataArrives \/ PeerCloses \/ UNCHANGED vars
  BY <1>4, <1>8 DEF DataArrives, PeerCloses, vars, Passed
<1> QED
  BY <1>5, <1>6, <1>7, <1>8, AcceptedDoesNotConnect DEF Next, ThreadRuns

\* No thread takes a chunk that is behind what it handed over.
LEMMA NextChunksAhead == ReaderInv /\ ChunksAhead /\ [Next]_vars => ChunksAhead'
<1> SUFFICES ASSUME ReaderInv, ChunksAhead, [Next]_vars, role = "accepted", role' = role,
                    pool' = pool
             PROVE  ChunksAhead'
  BY SetupStays DEF ChunksAhead
<1> USE DEF setup, counts, Step
<1>1. /\ pool \subseteq Threads /\ pc \in [Threads -> Locations] /\ chunk \in [Threads -> Nat]
      /\ received \in Seq([by : Threads, read : Nat, found : Nat]) /\ sent \in Nat
      /\ \A e \in events : e.ok \in BOOLEAN /\ e.chunk \in Nat
  BY ConnectionAssumption DEF ReaderInv, Types, Event
<1> DEFINE Hands(t) == pc[t] \in {"rearm", "deliver"}
<1>2. /\ \A i, j \in 1..Len(received) :
           i < j /\ received[i].by = received[j].by => received[i].read < received[j].read
      /\ \A i \in 1..Len(received) : received[i].read <= sent
      /\ \A e \in events : e.ok =>
           /\ e.chunk <= sent
           /\ \A i \in 1..Len(received) : received[i].read < e.chunk
      /\ \A t \in Threads : Hands(t) =>
           /\ chunk[t] <= sent
           /\ \A i \in 1..Len(received) : received[i].by = t => received[i].read < chunk[t]
           /\ \A e \in events : e.ok => chunk[t] < e.chunk
  BY DEF ChunksAhead
\* A step that brings no data and hands none over.
<1>3. ASSUME UNCHANGED <<received, sent, chunk>>, \A e \in events' : e.ok => e \in events,
             \A t \in Threads : Hands(t)' => Hands(t)
      PROVE  ChunksAhead'
  BY <1>2, <1>3 DEF ChunksAhead
<1>4. ASSUME NEW t \in pool, FirstRead(t) \/ Rearm(t)
      PROVE  ChunksAhead'
  <2>1. ~Failure("read", armed + 1).ok
    BY DEF Failure
  <2>2. UNCHANGED <<received, sent, chunk>> /\ \A s \in Threads : Hands(s)' => Hands(s)
    BY <1>1, <1>4 DEF FirstRead, Rearm
  <2>3. events' \subseteq events \cup {Failure("read", armed + 1)}
    BY <1>4 DEF FirstRead, Rearm, StartReceive
  <2> QED
    BY <1>3, <2>1, <2>2, <2>3
<1>5. ASSUME NEW t \in pool, HandleReceiveError(t) \/ CloseCheck(t) \/ SetClosed(t) \/ CallClose(t)
      PROVE  ChunksAhead'
  BY <1>1, <1>3, <1>5 DEF HandleReceiveError, CloseCheck, SetClosed, CallClose
<1>6. ASSUME NEW t \in pool, CloseSocket(t)
      PROVE  ChunksAhead'
  <2>1. \A kind, n : ~Failure(kind, n).ok
    BY DEF Failure
  <2>2. \A e \in events' : \/ e \in events
                           \/ \E n \in connecting : e = Failure("connect", n)
                           \/ \E n \in reads : e = Failure("read", n)
    BY <1>6 DEF CloseSocket
  <2>3. \A e \in events' : e.ok => e \in events
    BY <2>1, <2>2
  <2> QED
    BY <1>1, <1>3, <1>6, <2>3 DEF CloseSocket
<1>7. CASE PeerCloses \/ UNCHANGED vars
  <2>1. \A kind, n : ~Failure(kind, n).ok
    BY DEF Failure
  <2> QED
    BY <1>3, <1>7, <2>1 DEF PeerCloses, vars
<1>8. ASSUME NEW t \in pool, HandleReceive(t)
      PROVE  ChunksAhead'
  <2>1. PICK e \in events : /\ e.ok /\ events' = events \ {e}
                            /\ chunk' = [chunk EXCEPT ![t] = e.chunk]
                            /\ pc' = [pc EXCEPT ![t] = "rearm"] /\ UNCHANGED <<received, sent>>
    BY <1>8 DEF HandleReceive
  <2>2. events' = {}
    BY <2>1 DEF ReaderInv, ReaderIsOne
  <2>3. chunk'[t] = e.chunk /\ \A s \in Threads \ {t} : chunk'[s] = chunk[s] /\ pc'[s] = pc[s]
    BY <1>1, <2>1
  <2>4. ASSUME NEW s \in Threads, Hands(s)'
        PROVE  /\ chunk'[s] <= sent
               /\ \A i \in 1..Len(received) : received[i].by = s => received[i].read < chunk'[s]
    <3>1. CASE s = t
      BY <1>2, <2>1, <2>3, <3>1
    <3>2. CASE s # t
      BY <1>2, <2>3, <2>4, <3>2
    <3> QED
      BY <3>1, <3>2
  <2> QED
    BY <1>2, <2>1, <2>2, <2>4 DEF ChunksAhead
<1>9. ASSUME NEW t \in pool, Deliver(t)
      PROVE  ChunksAhead'
  <2> DEFINE last == [by |-> t, read |-> chunk[t], found |-> buffer]
             Entry == [by : Threads, read : Nat, found : Nat]
  <2>1. /\ Hands(t) /\ pc' = [pc EXCEPT ![t] = "idle"] /\ received' = Append(received, last)
        /\ UNCHANGED <<events, sent, chunk>>
    BY <1>9 DEF Deliver
  <2>2. last \in Entry /\ last.read = chunk[t] /\ last.by = t /\ received \in Seq(Entry)
    BY <1>1 DEF ReaderInv, Types
  <2> HIDE DEF last, Entry
  <2>3. \A S : \A s \in Seq(S), x \in S :
          /\ Len(Append(s, x)) = Len(s) + 1 /\ Len(s) \in Nat
          /\ \A i \in 1..Len(s) : Append(s, x)[i] = s[i]
          /\ Append(s, x)[Len(s) + 1] = x
    OBVIOUS
  <2>4. /\ Len(received') = Len(received) + 1 /\ Len(received) \in Nat
        /\ \A i \in 1..Len(received) : received'[i] = received[i]
        /\ received'[Len(received) + 1] = last
    BY <2>1, <2>2, <2>3
  <2>5. \A i \in 1..Len(received') : i \in 1..Len(received) \/ received'[i] = last
    BY <2>4
  <2>6. /\ chunk[t] <= sent
        /\ \A i \in 1..Len(received) : received[i].by = t => received[i].read < chunk[t]
        /\ \A e \in events : e.ok => chunk[t] < e.chunk
    BY <1>1, <1>2, <2>1
  <2>7. \A i, j \in 1..Len(received') :
          i < j /\ received'[i].by = received'[j].by => received'[i].read < received'[j].read
    <3>1. \A i, j \in 1..Len(received') : i < j => i \in 1..Len(received)
      BY <2>4
    <3> QED
      BY <1>2, <2>2, <2>4, <2>5, <2>6, <3>1
  <2>8. \A i \in 1..Len(received') : received'[i].read <= sent
    BY <1>2, <2>2, <2>4, <2>5, <2>6
  <2>9. \A e \in events : e.ok => \A i \in 1..Len(received') : received'[i].read < e.chunk
    BY <1>2, <2>2, <2>4, <2>5, <2>6
  <2>10. \A s \in Threads : Hands(s)' =>
           /\ Hands(s)
           /\ \A i \in 1..Len(received') : received'[i].by = s => received'[i].read < chunk[s]
    <3>1. \A s \in Threads : Hands(s)' => Hands(s) /\ s # t
      BY <1>1, <2>1
    <3> QED
      BY <1>2, <2>2, <2>4, <2>5, <3>1
  <2> QED
    BY <1>2, <2>1, <2>7, <2>8, <2>9, <2>10 DEF ChunksAhead
<1>10. CASE DataArrives
  <2> DEFINE end(n) == [of |-> "read", op |-> n, ok |-> TRUE, chunk |-> sent + 1]
  <2>1. PICK n \in reads :
          sent' = sent + 1 /\ events' = events \cup {end(n)} /\ UNCHANGED <<pc, chunk, received>>
    BY <1>10 DEF DataArrives
  <2>2. end(n).chunk = sent + 1
    OBVIOUS
  <2> HIDE DEF end
  <2> DEFINE Entry == [by : Threads, read : Nat, found : Nat]
  <2>3. \A r \in Entry : r.read \in Nat
    OBVIOUS
  <2>4. received \in Seq(Entry)
    BY <1>1
  <2> HIDE DEF Entry
  <2>5. \A i \in 1..Len(received) : received[i] \in Entry
    BY <2>4
  <2>6. \A i \in 1..Len(received) : received[i].read \in Nat /\ received[i].read < sent + 1
    <3>1. \A i \in 1..Len(received) : received[i].read \in Nat /\ received[i].read <= sent
      BY <1>2, <2>3, <2>5
    <3>2. \A m \in Nat : m <= sent => m < sent + 1
      BY <1>1
    <3> QED
      BY <3>1, <3>2
  <2>7. \A e \in events' : e.ok =>
          e.chunk <= sent' /\ \A i \in 1..Len(received) : received[i].read < e.chunk
    <3>1. \A e \in events : e.ok => e.chunk <= sent + 1
      BY <1>1, <1>2
    <3> QED
      BY <1>1, <1>2, <2>1, <2>2, <2>6, <3>1
  <2>8. \A t \in Threads : Hands(t) =>
          chunk[t] <= sent' /\ \A e \in events' : e.ok => chunk[t] < e.chunk
    BY <1>1, <1>2, <2>1, <2>2
  <2>9. \A i \in 1..Len(received) : received[i].read <= sent'
    BY <1>1, <2>1, <2>6
  <2> QED
    BY <1>2, <2>1, <2>7, <2>8, <2>9 DEF ChunksAhead
<1> QED
  BY <1>4, <1>5, <1>6, <1>7, <1>8, <1>9, <1>10, AcceptedDoesNotConnect DEF Next, ThreadRuns

\* No step of a single thread, of the socket or of the peer forgets an attempt.
LEMMA NextAttempts ==
  ReaderInv /\ (Serial => AttemptPends) /\ [Next]_vars => (Serial => AttemptPends)'
<1> SUFFICES ASSUME ReaderInv, Serial => AttemptPends, [Next]_vars, Serial' PROVE AttemptPends'
  OBVIOUS
<1> USE DEF setup, counts, Step
<1>1. pool' = pool
  BY SetupStays
<1>2. AttemptPends /\ Types /\ pool \subseteq Threads
  BY <1>1, ConnectionAssumption DEF Serial, ReaderInv, Types
<1>3. PICK t : pool = {t}
  <2>1. IsFiniteSet(pool)
    BY <1>2, ConnectionAssumption, FS_Subset
  <2> QED
    BY <1>1, <2>1, FS_Singleton DEF Serial
<1>4. t \in Threads /\ pc \in [Threads -> Locations]
  BY <1>2, <1>3 DEF Types
<1>5. status_ = "kConnecting" \/ pc[t] = "setConnecting" =>
        connecting # {} \/ \E e \in events : e.of = "connect"
  BY <1>2, <1>3 DEF AttemptPends
<1>6. AttemptPends' <=>
        (status_' = "kConnecting" \/ pc'[t] = "setConnecting" =>
           connecting' # {} \/ \E e \in events' : e.of = "connect")
  BY <1>1, <1>3 DEF AttemptPends
\* A step that starts no attempt and handles none.
<1>7. ASSUME connecting' = connecting, \A e \in events : e.of = "connect" => e \in events',
             status_' = "kConnecting" => status_' = status_, pc'[t] # "setConnecting"
      PROVE  AttemptPends'
  BY <1>5, <1>6, <1>7
<1>8. CASE SetConnected(t) \/ Deliver(t) \/ CloseCheck(t) \/ SetClosed(t) \/ Connect(t)
           \/ CallClose(t) \/ FirstRead(t) \/ Rearm(t)
  BY <1>4, <1>7, <1>8 DEF SetConnected, Deliver, CloseCheck, SetClosed, Connect, CallClose,
     FirstRead, Rearm, StartReceive
<1>9. CASE HandleReceive(t) \/ HandleReceiveError(t)
  BY <1>4, <1>7, <1>9 DEF HandleReceive, HandleReceiveError
<1>10. CASE HandleConnect(t)
  BY <1>4, <1>6, <1>10 DEF HandleConnect
<1>11. CASE SetConnecting(t)
  BY <1>4, <1>5, <1>6, <1>11 DEF SetConnecting
<1>12. CASE AsyncConnect(t)
  BY <1>6, <1>12 DEF AsyncConnect
<1>13. CASE CloseSocket(t)
  <2>1. /\ status_' = status_ /\ pc'[t] = "setClosed"
        /\ \A e \in events : e \in events'
        /\ \A n \in connecting : Failure("connect", n) \in events'
    BY <1>4, <1>13 DEF CloseSocket
  <2>2. \A n \in connecting : Failure("connect", n).of = "connect"
    BY DEF Failure
  <2> QED
    BY <1>5, <1>6, <2>1, <2>2
<1>14. CASE ConnectEnds
  <2>1. PICK n \in connecting, ok \in BOOLEAN :
          events' = events \cup {[of |-> "connect", op |-> n, ok |-> ok, chunk |-> 0]}
    BY <1>14 DEF ConnectEnds
  <2> DEFINE end == [of |-> "connect", op |-> n, ok |-> ok, chunk |-> 0]
  <2>2. end \in events' /\ end.of = "connect"
    BY <2>1
  <2> HIDE DEF end
  <2> QED
    BY <1>6, <2>2
<1>15. CASE DataArrives \/ PeerCloses
  BY <1>5, <1>6, <1>15 DEF DataArrives, PeerCloses
<1>16. CASE UNCHANGED vars
  BY <1>5, <1>6, <1>16 DEF vars
<1> QED
  BY <1>3, <1>8, <1>9, <1>10, <1>11, <1>12, <1>13, <1>14, <1>15, <1>16 DEF Next, ThreadRuns

-----------------------------------------------------------------------------
(* Theorems.                                                               *)

LEMMA Invariance == Spec => []HandInv
<1>1. HandInv /\ [Next]_vars => HandInv'
  BY NextReader, NextClosers, NextChunksAhead, NextAttempts DEF HandInv
<1> QED
  BY <1>1, InitInv, PTL DEF Spec

\* For any pool, an accepted connection has one read at a time.
THEOREM OneReaderAlways == Spec => []OneReader
<1>1. HandInv => OneReader
  <2> SUFFICES ASSUME HandInv, role = "accepted"
               PROVE  Cardinality(reads) + Cardinality(ReadEvents)
                        + Cardinality({t \in Threads : pc[t] \in {"read", "rearm"}}) <= 1
    BY DEF OneReader
  <2> DEFINE readers == {t \in Threads : pc[t] \in {"read", "rearm"}}
  <2>1. ASSUME NEW S, \A x, y \in S : x = y
        PROVE  Cardinality(S) \in {0, 1} /\ (S = {} => Cardinality(S) = 0)
    <3>1. CASE S = {}
      BY <3>1, FS_EmptySet
    <3>2. CASE S # {}
      <4>1. PICK x : S = {x}
        BY <2>1, <3>2
      <4> QED
        BY <3>2, <4>1, FS_Singleton
    <3> QED
      BY <3>1, <3>2
  <2>2. /\ \A m, n \in reads : m = n
        /\ \A d, e \in ReadEvents : d = e
        /\ \A s, t \in readers : s = t
        /\ reads # {} => ReadEvents = {} /\ readers = {}
        /\ ReadEvents # {} => reads = {} /\ readers = {}
    BY DEF HandInv, ReaderInv, ReaderIsOne, ReadEvents, Reading
  <2> HIDE DEF readers
  <2>3. /\ Cardinality(reads) \in {0, 1} /\ (reads = {} => Cardinality(reads) = 0)
        /\ Cardinality(ReadEvents) \in {0, 1} /\ (ReadEvents = {} => Cardinality(ReadEvents) = 0)
        /\ Cardinality(readers) \in {0, 1} /\ (readers = {} => Cardinality(readers) = 0)
    BY <2>1, <2>2
  <2>4. Cardinality(reads) + Cardinality(ReadEvents) + Cardinality(readers) <= 1
    BY <2>2, <2>3
  <2> QED
    BY <2>4 DEF readers
<1> QED
  BY Invariance, <1>1, PTL

\* With one thread, kConnecting means that an attempt will still report.
THEOREM OneThreadAttempts == Spec => []ConnectingIsPending
<1>1. HandInv => ConnectingIsPending
  BY DEF HandInv, AttemptPends, ConnectingIsPending
<1> QED
  BY Invariance, <1>1, PTL

\* For any pool, the program hears from no more threads than there are that an
\* accepted connection is gone: once with one thread.
THEOREM DisconnectsAreBounded == Spec => []OneDisconnectPerThread
<1>1. HandInv => OneDisconnectPerThread
  <2> SUFFICES ASSUME HandInv, role = "accepted" PROVE disconnects <= Cardinality(pool)
    BY DEF OneDisconnectPerThread
  <2>1. IsFiniteSet(pool) /\ disconnects \in Nat
    BY ConnectionAssumption, FS_Subset DEF HandInv, ReaderInv, Types
  <2>2. Cardinality(Passed) \in Nat /\ Cardinality(pool) \in Nat
    BY <2>1, Keeping DEF Passed
  <2> QED
    BY <2>1, <2>2 DEF HandInv, ClosersPassed
<1> QED
  BY Invariance, <1>1, PTL

\* For any pool, what one thread hands over of an accepted connection is in the
\* order the chunks were read.
THEOREM ThreadsKeepOrder == Spec => []HandedInOrder
<1>1. HandInv => HandedInOrder
  BY DEF HandInv, ChunksAhead, HandedInOrder
<1> QED
  BY Invariance, <1>1, PTL

-----------------------------------------------------------------------------
(* Every operation ends once, for any pool and either role.                *)

\* An operation is in the socket's hand or an event, and is one event only.
Numbered ==
  /\ connecting \subseteq 1..attempts /\ reads \subseteq 1..armed
  /\ \A e \in events :
       /\ e.of = "connect" => e.op \in (1..attempts) \ connecting
       /\ e.of = "read" => e.op \in (1..armed) \ reads
  /\ \A d, e \in events : d.of = e.of /\ d.op = e.op => d = e

\* The steps that start, end and handle no operation.
NoOperation(t) ==
  \/ SetConnected(t) \/ SetConnecting(t) \/ Connect(t) \/ Deliver(t)
  \/ CallClose(t) \/ CloseCheck(t) \/ SetClosed(t)

LEMMA NextNumbered ==
  ASSUME Types, Numbered, [Next]_vars
  PROVE  Numbered'
<1> USE DEF setup, counts, Step
<1>1. attempts \in Nat /\ armed \in Nat /\ connecting \subseteq Nat /\ reads \subseteq Nat
  BY DEF Types
<1>2. ASSUME NEW t \in pool, NoOperation(t)
      PROVE  Numbered'
  <2>1. UNCHANGED <<connecting, reads, events, armed>> /\ attempts' \in {attempts, attempts + 1}
    BY <1>2 DEF NoOperation, SetConnected, SetConnecting, Connect, Deliver, CallClose, CloseCheck,
       SetClosed
  <2>2. 1..attempts \subseteq 1..attempts'
    BY <1>1, <2>1
  <2> QED
    BY <2>1, <2>2 DEF Numbered
<1>3. ASSUME NEW t \in pool, HandleConnect(t) \/ HandleReceiveError(t) \/ HandleReceive(t)
      PROVE  Numbered'
  <2>1. UNCHANGED <<connecting, reads, armed, attempts>> /\ events' \subseteq events
    BY <1>3 DEF HandleConnect, HandleReceiveError, HandleReceive
  <2> QED
    BY <2>1 DEF Numbered
<1>4. ASSUME NEW t \in pool, AsyncConnect(t)
      PROVE  Numbered'
  <2>1. /\ UNCHANGED <<reads, events, armed>> /\ attempts' = attempts + 1
        /\ connecting' = connecting \cup {attempts + 1}
    BY <1>4 DEF AsyncConnect
  <2>2. 1..attempts' = (1..attempts) \cup {attempts + 1} /\ attempts + 1 \notin 1..attempts
    BY <1>1, <2>1
  <2> QED
    BY <2>1, <2>2 DEF Numbered
<1>5. ASSUME NEW t \in pool, FirstRead(t) \/ Rearm(t)
      PROVE  Numbered'
  <2>1. /\ UNCHANGED <<connecting, attempts>> /\ armed' = armed + 1
        /\ \/ reads' = reads \cup {armed + 1} /\ events' = events
           \/ reads' = reads /\ events' = events \cup {Failure("read", armed + 1)}
    BY <1>5 DEF FirstRead, Rearm, StartReceive
  <2>2. 1..armed' = (1..armed) \cup {armed + 1} /\ armed + 1 \notin 1..armed
    BY <1>1, <2>1
  <2>3. CASE reads' = reads \cup {armed + 1} /\ events' = events
    BY <2>1, <2>2, <2>3 DEF Numbered
  <2>4. CASE reads' = reads /\ events' = events \cup {Failure("read", armed + 1)}
    <3> DEFINE end == Failure("read", armed + 1)
    <3>1. end.of = "read" /\ end.op = armed + 1 /\ events' = events \cup {end}
      BY <2>4 DEF Failure
    <3> HIDE DEF end
    <3> QED
      BY <2>1, <2>2, <2>4, <3>1 DEF Numbered
  <2> QED
    BY <2>1, <2>3, <2>4
<1>6. ASSUME NEW t \in pool, CloseSocket(t)
      PROVE  Numbered'
  <2>1. /\ UNCHANGED <<attempts, armed>> /\ connecting' = {} /\ reads' = {}
        /\ events' = events \cup {Failure("connect", n) : n \in connecting}
                            \cup {Failure("read", n) : n \in reads}
    BY <1>6 DEF CloseSocket
  <2>2. \A n : /\ Failure("connect", n).of = "connect" /\ Failure("connect", n).op = n
               /\ Failure("read", n).of = "read" /\ Failure("read", n).op = n
    BY DEF Failure
  <2>3. \A e \in events' :
          \/ e \in events
          \/ \E n \in connecting : e = Failure("connect", n)
          \/ \E n \in reads : e = Failure("read", n)
    BY <2>1
  <2>4. \A e \in events' :
          /\ e.of = "connect" => e.op \in 1..attempts
          /\ e.of = "read" => e.op \in 1..armed
    BY <2>2, <2>3 DEF Numbered
  <2>5. \A d, e \in events' : d.of = e.of /\ d.op = e.op => d = e
    <3> SUFFICES ASSUME NEW d \in events', NEW e \in events', d.of = e.of, d.op = e.op
                 PROVE  d = e
      OBVIOUS
    <3>1. CASE d \in events /\ e \in events
      BY <3>1 DEF Numbered
    <3>2. CASE d \in events /\ e \notin events
      BY <2>2, <2>3, <3>2 DEF Numbered
    <3>3. CASE d \notin events /\ e \in events
      BY <2>2, <2>3, <3>3 DEF Numbered
    <3>4. CASE d \notin events /\ e \notin events
      BY <2>2, <2>3, <3>4
    <3> QED
      BY <3>1, <3>2, <3>3, <3>4
  <2> QED
    BY <2>1, <2>4, <2>5 DEF Numbered
<1>7. CASE ConnectEnds
  <2>1. PICK n \in connecting, ok \in BOOLEAN :
          /\ connecting' = connecting \ {n} /\ UNCHANGED <<reads, attempts, armed>>
          /\ events' = events \cup {[of |-> "connect", op |-> n, ok |-> ok, chunk |-> 0]}
    BY <1>7 DEF ConnectEnds
  <2> DEFINE end == [of |-> "connect", op |-> n, ok |-> ok, chunk |-> 0]
  <2>2. end.of = "connect" /\ end.op = n /\ events' = events \cup {end}
    BY <2>1
  <2> HIDE DEF end
  <2> QED
    BY <2>1, <2>2 DEF Numbered
<1>8. CASE DataArrives \/ PeerCloses
  <2>1. PICK n \in reads :
          /\ reads' = reads \ {n} /\ UNCHANGED <<connecting, attempts, armed>>
          /\ \E ok \in BOOLEAN, c \in {0, sent + 1} :
               events' = events \cup {[of |-> "read", op |-> n, ok |-> ok, chunk |-> c]}
    BY <1>8 DEF DataArrives, PeerCloses, Failure
  <2>2. PICK ok \in BOOLEAN, c \in {0, sent + 1} :
          events' = events \cup {[of |-> "read", op |-> n, ok |-> ok, chunk |-> c]}
    BY <2>1
  <2> DEFINE end == [of |-> "read", op |-> n, ok |-> ok, chunk |-> c]
  <2>3. end.of = "read" /\ end.op = n /\ events' = events \cup {end}
    BY <2>2
  <2> HIDE DEF end
  <2> QED
    BY <2>1, <2>3 DEF Numbered
<1>9. CASE UNCHANGED vars
  BY <1>9 DEF vars, Numbered
<1> QED
  BY <1>2, <1>3, <1>4, <1>5, <1>6, <1>7, <1>8, <1>9 DEF Next, ThreadRuns, NoOperation

-----------------------------------------------------------------------------
(* Every chunk is handed over once, for any pool and either role.          *)

\* The chunks that ended a read, and the threads that have one to hand over.
Data == {e \in events : e.of = "read" /\ e.ok}
Holders == {t \in Threads : pc[t] \in {"rearm", "deliver"}}

\* A chunk is in one event, in the hands of one thread, or handed over.
ChunkOnce ==
  /\ buffer = sent
  /\ \A t \in Threads : chunk[t] \in 0..sent
  /\ \A e \in Data : e.chunk \in 1..sent
  /\ \A d, e \in Data : d.chunk = e.chunk => d = e
  /\ \A t \in Holders : chunk[t] \in 1..sent /\ \A e \in Data : e.chunk # chunk[t]
  /\ \A s, t \in Holders : chunk[s] = chunk[t] => s = t
  /\ \A i \in 1..Len(received) :
       /\ received[i].read \in 1..sent /\ received[i].found \in received[i].read..sent
       /\ \A e \in Data : e.chunk # received[i].read
       /\ \A t \in Holders : chunk[t] # received[i].read
       /\ \A j \in 1..Len(received) : received[i].read = received[j].read => i = j

\* What a step that reads and hands over no data does to what ChunkOnce says.
LEMMA ChunksStay ==
  ASSUME ChunkOnce, UNCHANGED <<buffer, sent, chunk, received>>,
         Data' \subseteq Data, Holders' \subseteq Holders
  PROVE  ChunkOnce'
BY DEF ChunkOnce

\* A failed operation is no data.
LEMMA FailuresAreNoData ==
  ASSUME NEW F, events' \subseteq events \cup F, \A e \in F : ~(e.of = "read" /\ e.ok)
  PROVE  Data' \subseteq Data
BY DEF Data

LEMMA NextChunks ==
  ASSUME Types, ChunkOnce, [Next]_vars
  PROVE  ChunkOnce'
<1> USE DEF setup, counts, Step
<1>1. /\ pool \subseteq Threads /\ pc \in [Threads -> Locations] /\ chunk \in [Threads -> Nat]
      /\ sent \in Nat /\ received \in Seq([by : Threads, read : Nat, found : Nat])
  BY ConnectionAssumption DEF Types
<1>2. ASSUME NEW t \in pool, NEW from, NEW to, Step(t, from, to),
             from \in {"rearm", "deliver"} \/ to \notin {"rearm", "deliver"}
      PROVE  Holders' \subseteq Holders
  BY <1>1, <1>2 DEF Holders
<1>3. ASSUME NEW t \in pool, SetConnected(t) \/ SetConnecting(t) \/ Connect(t) \/ CallClose(t)
                             \/ CloseCheck(t) \/ SetClosed(t) \/ AsyncConnect(t)
      PROVE  ChunkOnce'
  <2>1. UNCHANGED <<buffer, sent, chunk, received, events>>
    BY <1>3 DEF SetConnected, SetConnecting, Connect, CallClose, CloseCheck, SetClosed, AsyncConnect
  <2>2. Holders' \subseteq Holders
    BY <1>2, <1>3 DEF SetConnected, SetConnecting, Connect, CallClose, CloseCheck, SetClosed,
       AsyncConnect, Holders
  <2> QED
    BY <2>1, <2>2, ChunksStay DEF Data
<1>4. ASSUME NEW t \in pool, HandleConnect(t) \/ HandleReceiveError(t)
      PROVE  ChunkOnce'
  <2>1. UNCHANGED <<buffer, sent, chunk, received>> /\ events' \subseteq events
    BY <1>4 DEF HandleConnect, HandleReceiveError
  <2>2. Holders' \subseteq Holders
    BY <1>2, <1>4 DEF HandleConnect, HandleReceiveError
  <2>3. Data' \subseteq Data
    BY <2>1 DEF Data
  <2> QED
    BY <2>1, <2>2, <2>3, ChunksStay
<1>5. ASSUME NEW t \in pool, FirstRead(t) \/ Rearm(t)
      PROVE  ChunkOnce'
  <2>1. UNCHANGED <<buffer, sent, chunk, received>>
    BY <1>5 DEF FirstRead, Rearm
  <2>2. Holders' \subseteq Holders
    BY <1>2, <1>5 DEF FirstRead, Rearm
  <2> DEFINE F == {Failure("read", armed + 1)}
  <2>3. events' \subseteq events \cup F
    BY <1>5 DEF FirstRead, Rearm, StartReceive
  <2>4. \A e \in F : ~e.ok
    BY DEF Failure
  <2> HIDE DEF F
  <2>5. Data' \subseteq Data
    BY <2>3, <2>4, FailuresAreNoData
  <2> QED
    BY <2>1, <2>2, <2>5, ChunksStay
<1>6. ASSUME NEW t \in pool, CloseSocket(t)
      PROVE  ChunkOnce'
  <2>1. UNCHANGED <<buffer, sent, chunk, received>>
    BY <1>6 DEF CloseSocket
  <2>2. Holders' \subseteq Holders
    BY <1>2, <1>6 DEF CloseSocket
  <2> DEFINE F == {Failure("connect", n) : n \in connecting} \cup {Failure("read", n) : n \in reads}
  <2>3. events' \subseteq events \cup F /\ \A e \in F : ~e.ok
    BY <1>6 DEF CloseSocket, Failure
  <2>4. Data' \subseteq Data
    BY <2>3, FailuresAreNoData
  <2> QED
    BY <2>1, <2>2, <2>4, ChunksStay
<1>7. CASE ConnectEnds \/ PeerCloses
  <2>1. UNCHANGED <<buffer, sent, chunk, received, pc>>
    BY <1>7 DEF ConnectEnds, PeerCloses
  <2>2. Data' \subseteq Data
    <3>1. CASE ConnectEnds
      <4>1. PICK n \in connecting, ok \in BOOLEAN :
              events' = events \cup {[of |-> "connect", op |-> n, ok |-> ok, chunk |-> 0]}
        BY <3>1 DEF ConnectEnds
      <4> DEFINE F == {[of |-> "connect", op |-> n, ok |-> ok, chunk |-> 0]}
      <4>2. events' = events \cup F /\ \A e \in F : e.of # "read"
        BY <4>1
      <4> HIDE DEF F
      <4> QED
        BY <4>2, FailuresAreNoData
    <3>2. CASE PeerCloses
      <4>1. PICK n \in reads : events' = events \cup {Failure("read", n)}
        BY <3>2 DEF PeerCloses
      <4> DEFINE F == {Failure("read", n)}
      <4>2. events' = events \cup F /\ \A e \in F : ~e.ok
        BY <4>1 DEF Failure
      <4> HIDE DEF F
      <4> QED
        BY <4>2, FailuresAreNoData
    <3> QED
      BY <1>7, <3>1, <3>2
  <2> QED
    BY <2>1, <2>2, ChunksStay DEF Holders
<1>8. ASSUME NEW t \in pool, HandleReceive(t)
      PROVE  ChunkOnce'
  <2>1. PICK e \in Data :
          /\ events' = events \ {e} /\ chunk' = [chunk EXCEPT ![t] = e.chunk]
          /\ pc[t] = "idle" /\ pc' = [pc EXCEPT ![t] = "rearm"]
          /\ UNCHANGED <<buffer, sent, received>>
    BY <1>8 DEF HandleReceive, Data
  <2>2. Data' = Data \ {e}
    BY <2>1 DEF Data
  <2>3. t \notin Holders /\ Holders' = Holders \cup {t}
    BY <1>1, <2>1 DEF Holders
  <2>4. chunk'[t] = e.chunk /\ \A s \in Threads \ {t} : chunk'[s] = chunk[s]
    BY <1>1, <2>1
  <2>5. Holders \subseteq Threads
    BY DEF Holders
  <2>6. \A s \in Holders' : chunk'[s] \in 1..sent /\ \A d \in Data' : d.chunk # chunk'[s]
    BY <2>2, <2>3, <2>4, <2>5 DEF ChunkOnce
  <2>7. \A r, s \in Holders' : chunk'[r] = chunk'[s] => r = s
    BY <2>3, <2>4, <2>5 DEF ChunkOnce
  <2>8. \A s \in Threads : chunk'[s] \in 0..sent
    BY <1>1, <2>4 DEF ChunkOnce
  <2>9. \A i \in 1..Len(received) :
          /\ received[i].read \in 1..sent /\ received[i].found \in received[i].read..sent
          /\ \A d \in Data' : d.chunk # received[i].read
          /\ \A s \in Holders' : chunk'[s] # received[i].read
          /\ \A j \in 1..Len(received) : received[i].read = received[j].read => i = j
    BY <2>2, <2>3, <2>4, <2>5 DEF ChunkOnce
  <2> QED
    BY <2>1, <2>2, <2>6, <2>7, <2>8, <2>9 DEF ChunkOnce
<1>9. ASSUME NEW t \in pool, Deliver(t)
      PROVE  ChunkOnce'
  <2> DEFINE last == [by |-> t, read |-> chunk[t], found |-> buffer]
  <2>1. /\ received' = Append(received, last) /\ pc[t] = "deliver"
        /\ pc' = [pc EXCEPT ![t] = "idle"] /\ UNCHANGED <<buffer, sent, chunk, events>>
    BY <1>9 DEF Deliver
  <2>2. t \in Holders /\ Holders' = Holders \ {t} /\ Data' = Data
    BY <1>1, <2>1 DEF Holders, Data
  <2>3. last.read = chunk[t] /\ last.found = sent /\ last \in [by : Threads, read : Nat, found : Nat]
    BY <1>1 DEF ChunkOnce
  <2>4. /\ chunk[t] \in 1..sent /\ \A d \in Data : d.chunk # chunk[t]
        /\ \A s \in Holders' : chunk[s] # chunk[t]
        /\ \A i \in 1..Len(received) : received[i].read # chunk[t]
    BY <2>2 DEF ChunkOnce
  <2> HIDE DEF last
  <2>5. /\ Len(received) \in Nat /\ Len(received') = Len(received) + 1
        /\ \A i \in 1..Len(received) : received'[i] = received[i]
        /\ received'[Len(received) + 1] = last
    BY <1>1, <2>1, <2>3
  <2>6. \A i \in 1..Len(received') : i \in 1..Len(received) \/ i = Len(received) + 1
    BY <2>5
  <2>7. \A i \in 1..Len(received') :
          received'[i].read \in 1..sent /\ received'[i].found \in received'[i].read..sent
    <3>1. \A i \in 1..Len(received) :
            received[i].read \in 1..sent /\ received[i].found \in received[i].read..sent
      BY DEF ChunkOnce
    <3>2. last.read \in 1..sent /\ last.found \in last.read..sent
      BY <1>1, <2>3, <2>4
    <3> QED
      BY <2>5, <2>6, <3>1, <3>2
  <2>8. \A i \in 1..Len(received') :
          /\ \A e \in Data : e.chunk # received'[i].read
          /\ \A s \in Holders' : chunk[s] # received'[i].read
    <3>1. \A i \in 1..Len(received) :
            /\ \A e \in Data : e.chunk # received[i].read
            /\ \A s \in Holders : chunk[s] # received[i].read
      BY DEF ChunkOnce
    <3>2. /\ \A e \in Data : e.chunk # last.read
          /\ \A s \in Holders' : chunk[s] # last.read
      BY <2>3, <2>4
    <3> QED
      BY <2>2, <2>5, <2>6, <3>1, <3>2
  <2>9. \A i, j \in 1..Len(received') : received'[i].read = received'[j].read => i = j
    BY <2>3, <2>4, <2>5, <2>6 DEF ChunkOnce
  <2> QED
    BY <2>1, <2>2, <2>7, <2>8, <2>9 DEF ChunkOnce
<1>10. CASE DataArrives
  <2>1. PICK n \in reads :
          /\ events' = events \cup {[of |-> "read", op |-> n, ok |-> TRUE, chunk |-> sent + 1]}
          /\ sent' = sent + 1 /\ buffer' = sent + 1 /\ UNCHANGED <<pc, chunk, received>>
    BY <1>10 DEF DataArrives
  <2> DEFINE end == [of |-> "read", op |-> n, ok |-> TRUE, chunk |-> sent + 1]
  <2>2. events' = events \cup {end} /\ end.of = "read" /\ end.ok /\ end.chunk = sent + 1
    BY <2>1
  <2> HIDE DEF end
  <2>3. Data' = Data \cup {end} /\ Holders' = Holders
    BY <2>1, <2>2 DEF Data, Holders
  <2>4. /\ 1..sent \subseteq 1..sent' /\ 0..sent \subseteq 0..sent'
        /\ sent + 1 \in 1..sent' /\ sent + 1 \notin 0..sent /\ sent + 1 \notin 1..sent
    BY <1>1, <2>1
  <2>5. /\ \A e \in Data' : e.chunk \in 1..sent'
        /\ \A d, e \in Data' : d.chunk = e.chunk => d = e
    BY <2>2, <2>3, <2>4 DEF ChunkOnce
  <2>6. \A t \in Holders : chunk[t] \in 1..sent' /\ \A e \in Data' : e.chunk # chunk[t]
    BY <2>2, <2>3, <2>4 DEF ChunkOnce
  <2>7. \A i \in 1..Len(received) :
          /\ received[i].read \in 1..sent' /\ received[i].found \in received[i].read..sent'
          /\ \A e \in Data' : e.chunk # received[i].read
    BY <1>1, <2>1, <2>2, <2>3, <2>4, SMTT(30) DEF ChunkOnce
  <2>8. \A t \in Threads : chunk[t] \in 0..sent'
    BY <2>4 DEF ChunkOnce
  <2> QED
    BY <2>1, <2>3, <2>5, <2>6, <2>7, <2>8 DEF ChunkOnce
<1>11. CASE UNCHANGED vars
  BY <1>11, ChunksStay DEF vars, Data, Holders
<1> QED
  BY <1>3, <1>4, <1>5, <1>6, <1>7, <1>8, <1>9, <1>10, <1>11 DEF Next, ThreadRuns

-----------------------------------------------------------------------------
(* Counting, for any pool and either role.                                 *)

Closing == {"close", "shutdown", "setClosed"}
At(S) == {t \in Threads : pc[t] \in S}

\* What may still lead to a read: attempts that may succeed, chunks to handle.
PendingConnects == connecting \cup {e.op : e \in {x \in events : x.of = "connect" /\ x.ok}}
PendingChunks == {e.chunk : e \in Data}

\* What may still lead to a close: reads that have not been handled.
PendingReads == reads \cup {e.op : e \in ReadEvents}

\* A read is started by the accepting thread, for an attempt or for a chunk.
ReadsCount ==
  armed + Cardinality(At(Reading)) + Cardinality(PendingConnects) + Cardinality(PendingChunks)
    <= sent + attempts + 1

\* disconnected_callback_ is called for a close of the program or for a read.
ClosesCount ==
  disconnects + Cardinality(At(Closing)) + Cardinality(PendingReads) <= closes + armed

Bounds == attempts <= MaxAttempts /\ closes \in 0..MaxCloses[role] /\ sent <= MaxChunks

CountInv == Bounds /\ ReadsCount /\ ClosesCount

\* The sets that are counted are finite.
Countable ==
  /\ IsFiniteSet(At(Reading)) /\ IsFiniteSet(At(Closing))
  /\ IsFiniteSet(PendingConnects) /\ IsFiniteSet(PendingChunks) /\ IsFiniteSet(PendingReads)

LEMMA CountedSetsAreFinite == Types /\ Numbered /\ ChunkOnce => Countable
<1> SUFFICES ASSUME Types, Numbered, ChunkOnce PROVE Countable
  OBVIOUS
<1>1. IsFiniteSet(Threads)
  BY ConnectionAssumption
<1>2. IsFiniteSet(At(Reading)) /\ IsFiniteSet(At(Closing))
  BY <1>1, FS_Subset DEF At
<1>3. attempts \in Nat /\ armed \in Nat /\ sent \in Nat
  BY DEF Types
<1>4. IsFiniteSet(1..attempts) /\ IsFiniteSet(1..armed) /\ IsFiniteSet(1..sent)
  BY <1>3, FS_Interval
<1>5. PendingConnects \subseteq 1..attempts
  BY DEF PendingConnects, Numbered
<1>6. PendingReads \subseteq 1..armed
  BY DEF PendingReads, ReadEvents, Numbered
<1>7. PendingChunks \subseteq 1..sent
  BY DEF PendingChunks, ChunkOnce
<1> QED
  BY <1>2, <1>4, <1>5, <1>6, <1>7, FS_Subset DEF Countable

\* Where the threads are after one of them has moved.
LEMMA ThreadMoves ==
  ASSUME Types, NEW t \in pool, NEW from, NEW to, Step(t, from, to), NEW S
  PROVE  /\ from \in S /\ to \notin S => t \in At(S) /\ At(S)' \subseteq At(S) \ {t}
         /\ from \in S \/ to \notin S => At(S)' \subseteq At(S)
         /\ At(S)' \subseteq At(S) \cup {t}
<1>1. t \in Threads /\ pc \in [Threads -> Locations]
  BY ConnectionAssumption DEF Types
<1> QED
  BY <1>1 DEF At, Step

\* The counts of the sets after a step that lets none of them grow.
LEMMA NoGrowth ==
  ASSUME Types, Numbered, ChunkOnce,
         At(Reading)' \subseteq At(Reading), At(Closing)' \subseteq At(Closing),
         PendingConnects' \subseteq PendingConnects, PendingChunks' \subseteq PendingChunks,
         PendingReads' \subseteq PendingReads
  PROVE  /\ Cardinality(At(Reading)') <= Cardinality(At(Reading))
         /\ Cardinality(At(Closing)') <= Cardinality(At(Closing))
         /\ Cardinality(PendingConnects') <= Cardinality(PendingConnects)
         /\ Cardinality(PendingChunks') <= Cardinality(PendingChunks)
         /\ Cardinality(PendingReads') <= Cardinality(PendingReads)
BY Keeping, CountedSetsAreFinite DEF Countable

\* The numbers that are compared.
LEMMA CountTypes ==
  ASSUME Types, Types', Numbered, Numbered', ChunkOnce, ChunkOnce', closes \in Nat
  PROVE  /\ Cardinality(At(Reading)) \in Nat /\ Cardinality(At(Reading)') \in Nat
         /\ Cardinality(At(Closing)) \in Nat /\ Cardinality(At(Closing)') \in Nat
         /\ Cardinality(PendingConnects) \in Nat /\ Cardinality(PendingConnects') \in Nat
         /\ Cardinality(PendingChunks) \in Nat /\ Cardinality(PendingChunks') \in Nat
         /\ Cardinality(PendingReads) \in Nat /\ Cardinality(PendingReads') \in Nat
         /\ armed \in Nat /\ sent \in Nat /\ attempts \in Nat /\ disconnects \in Nat
<1>1. Countable
  BY CountedSetsAreFinite
<1>2. Countable'
  BY CountedSetsAreFinite, PTL
<1> QED
  BY <1>1, <1>2, FS_CardinalityType DEF Types, Countable

\* Every count a step raises is paid for by another.
LEMMA NextCounts ==
  ASSUME Types, Types', Numbered, Numbered', ChunkOnce, ChunkOnce', CountInv, [Next]_vars
  PROVE  CountInv'
<1> USE DEF setup, counts
<1>1. /\ Cardinality(At(Reading)) \in Nat /\ Cardinality(At(Reading)') \in Nat
      /\ Cardinality(At(Closing)) \in Nat /\ Cardinality(At(Closing)') \in Nat
      /\ Cardinality(PendingConnects) \in Nat /\ Cardinality(PendingConnects') \in Nat
      /\ Cardinality(PendingChunks) \in Nat /\ Cardinality(PendingChunks') \in Nat
      /\ Cardinality(PendingReads) \in Nat /\ Cardinality(PendingReads') \in Nat
      /\ armed \in Nat /\ sent \in Nat /\ attempts \in Nat /\ disconnects \in Nat
      /\ closes \in Nat /\ MaxAttempts \in Nat /\ MaxCloses[role] \in Nat /\ MaxChunks \in Nat
  <2>1. MaxAttempts \in Nat /\ MaxCloses[role] \in Nat /\ MaxChunks \in Nat
    BY ConnectionAssumption DEF Types
  <2>2. closes \in Nat
    BY <2>1 DEF CountInv, Bounds
  <2> QED
    BY <2>1, <2>2, CountTypes
<1>2. /\ IsFiniteSet(At(Reading)) /\ IsFiniteSet(At(Closing))
      /\ IsFiniteSet(PendingConnects) /\ IsFiniteSet(PendingChunks) /\ IsFiniteSet(PendingReads)
  BY CountedSetsAreFinite DEF Countable
<1>3. /\ attempts <= MaxAttempts /\ closes \in 0..MaxCloses[role] /\ sent <= MaxChunks
      /\ armed + Cardinality(At(Reading)) + Cardinality(PendingConnects)
           + Cardinality(PendingChunks) <= sent + attempts + 1
      /\ disconnects + Cardinality(At(Closing)) + Cardinality(PendingReads) <= closes + armed
  BY DEF CountInv, Bounds, ReadsCount, ClosesCount
<1> DEFINE Kept == /\ Cardinality(At(Reading)') <= Cardinality(At(Reading))
                   /\ Cardinality(At(Closing)') <= Cardinality(At(Closing))
                   /\ Cardinality(PendingConnects') <= Cardinality(PendingConnects)
                   /\ Cardinality(PendingChunks') <= Cardinality(PendingChunks)
                   /\ Cardinality(PendingReads') <= Cardinality(PendingReads)
           Goal == /\ attempts' <= MaxAttempts /\ closes' \in 0..MaxCloses[role] /\ sent' <= MaxChunks
                   /\ armed' + Cardinality(At(Reading)') + Cardinality(PendingConnects')
                        + Cardinality(PendingChunks') <= sent' + attempts' + 1
                   /\ disconnects' + Cardinality(At(Closing)') + Cardinality(PendingReads')
                        <= closes' + armed'
<1>4. Goal => CountInv'
  BY SetupStays DEF CountInv, Bounds, ReadsCount, ClosesCount
<1>5. UNCHANGED <<connecting, reads, events>> =>
        /\ PendingConnects' = PendingConnects /\ PendingChunks' = PendingChunks
        /\ PendingReads' = PendingReads
  BY DEF PendingConnects, PendingChunks, PendingReads, Data, ReadEvents
<1>6. ASSUME NEW t \in pool, SetConnected(t) \/ SetConnecting(t) \/ CloseCheck(t) \/ Deliver(t)
      PROVE  Goal
  <2>1. /\ UNCHANGED <<connecting, reads, events, attempts, closes, sent, armed, disconnects>>
        /\ \E from, to \in Locations :
             Step(t, from, to) /\ to \notin Reading /\ (from \in Closing \/ to \notin Closing)
    BY <1>6 DEF SetConnected, SetConnecting, CloseCheck, Deliver, Locations, Reading, Closing, Step
  <2>2. At(Reading)' \subseteq At(Reading) /\ At(Closing)' \subseteq At(Closing)
    BY <2>1, ThreadMoves
  <2>3. Kept
    BY <1>5, <2>1, <2>2, NoGrowth
  <2> QED
    BY <1>1, <1>3, <2>1, <2>3
<1>7. ASSUME NEW t \in pool, SetClosed(t)
      PROVE  Goal
  <2>1. /\ UNCHANGED <<connecting, reads, events, attempts, closes, sent, armed>>
        /\ disconnects' = disconnects + 1 /\ Step(t, "setClosed", "idle")
    BY <1>7 DEF SetClosed
  <2>2. At(Reading)' \subseteq At(Reading) /\ t \in At(Closing) /\ At(Closing)' \subseteq At(Closing) \ {t}
    BY <2>1, ThreadMoves DEF Reading, Closing
  <2>3. Kept /\ Cardinality(At(Closing)') <= Cardinality(At(Closing)) - 1
    BY <1>2, <1>5, <2>1, <2>2, NoGrowth, Losing
  <2> QED
    BY <1>1, <1>3, <2>1, <2>3
<1>8. ASSUME NEW t \in pool, CallClose(t)
      PROVE  Goal
  <2>1. /\ UNCHANGED <<connecting, reads, events, attempts, sent, armed, disconnects>>
        /\ closes < MaxCloses[role] /\ closes' = closes + 1 /\ Step(t, "idle", "close")
    BY <1>8 DEF CallClose
  <2>2. At(Reading)' \subseteq At(Reading) /\ At(Closing)' \subseteq At(Closing) \cup {t}
    BY <2>1, ThreadMoves DEF Reading, Closing
  <2>3. /\ Cardinality(At(Reading)') <= Cardinality(At(Reading))
        /\ Cardinality(At(Closing)') <= Cardinality(At(Closing)) + 1
        /\ PendingConnects' = PendingConnects /\ PendingChunks' = PendingChunks
        /\ PendingReads' = PendingReads
    BY <1>2, <1>5, <2>1, <2>2, Keeping, Gaining
  <2> QED
    BY <1>1, <1>3, <2>1, <2>3
<1>9. ASSUME NEW t \in pool, Connect(t) \/ AsyncConnect(t)
      PROVE  Goal
  <2>1. /\ UNCHANGED <<reads, events, closes, sent, armed, disconnects>>
        /\ attempts < MaxAttempts /\ attempts' = attempts + 1
        /\ connecting' \subseteq connecting \cup {attempts + 1}
        /\ \/ UNCHANGED pc
           \/ \E to \in {"setConnected", "setConnecting"} : Step(t, "idle", to)
    BY <1>9 DEF Connect, AsyncConnect
  <2>2. At(Reading)' \subseteq At(Reading) /\ At(Closing)' \subseteq At(Closing)
    <3>1. CASE UNCHANGED pc
      BY <3>1 DEF At
    <3>2. CASE \E to \in {"setConnected", "setConnecting"} : Step(t, "idle", to)
      BY <3>2, ThreadMoves DEF Reading, Closing
    <3> QED
      BY <2>1, <3>1, <3>2
  <2>3. /\ PendingConnects' \subseteq PendingConnects \cup {attempts + 1}
        /\ PendingChunks' = PendingChunks /\ PendingReads' = PendingReads
    BY <2>1 DEF PendingConnects, PendingChunks, PendingReads, Data, ReadEvents
  <2>4. /\ Cardinality(At(Reading)') <= Cardinality(At(Reading))
        /\ Cardinality(At(Closing)') <= Cardinality(At(Closing))
        /\ Cardinality(PendingConnects') <= Cardinality(PendingConnects) + 1
    BY <1>2, <2>2, <2>3, Keeping, Gaining
  <2> QED
    BY <1>1, <1>3, <2>1, <2>3, <2>4
<1>10. ASSUME NEW t \in pool, HandleConnect(t)
       PROVE  Goal
  <2>1. PICK e \in events :
          /\ e.of = "connect" /\ events' = events \ {e}
          /\ Step(t, "idle", IF e.ok THEN "read" ELSE "idle")
          /\ UNCHANGED <<connecting, reads, attempts, closes, sent, armed, disconnects>>
    BY <1>10 DEF HandleConnect
  <2>2. PendingChunks' \subseteq PendingChunks /\ PendingReads' \subseteq PendingReads
        /\ PendingConnects' \subseteq PendingConnects
    BY <2>1 DEF PendingConnects, PendingChunks, PendingReads, Data, ReadEvents
  <2>3. At(Closing)' \subseteq At(Closing)
    BY <2>1, ThreadMoves DEF Closing
  <2>4. CASE ~e.ok
    <3>1. At(Reading)' \subseteq At(Reading)
      BY <2>1, <2>4, ThreadMoves DEF Reading
    <3>2. Kept
      BY <2>2, <2>3, <3>1, NoGrowth
    <3> QED
      BY <1>1, <1>3, <2>1, <3>2
  <2>5. CASE e.ok
    <3>1. At(Reading)' \subseteq At(Reading) \cup {t}
      BY <2>1, ThreadMoves
    <3>2. e.op \in PendingConnects /\ PendingConnects' \subseteq PendingConnects \ {e.op}
      BY <2>1, <2>5 DEF PendingConnects, Numbered
    <3>3. /\ Cardinality(At(Reading)') <= Cardinality(At(Reading)) + 1
          /\ Cardinality(At(Closing)') <= Cardinality(At(Closing))
          /\ Cardinality(PendingConnects') <= Cardinality(PendingConnects) - 1
          /\ Cardinality(PendingChunks') <= Cardinality(PendingChunks)
          /\ Cardinality(PendingReads') <= Cardinality(PendingReads)
      BY <1>2, <2>2, <2>3, <3>1, <3>2, Keeping, Gaining, Losing
    <3> QED
      BY <1>1, <1>3, <2>1, <3>3
  <2> QED
    BY <2>4, <2>5
<1>11. ASSUME NEW t \in pool, FirstRead(t) \/ Rearm(t)
       PROVE  Goal
  <2>1. /\ UNCHANGED <<connecting, attempts, closes, sent, disconnects>> /\ armed' = armed + 1
        /\ \/ reads' = reads \cup {armed + 1} /\ events' = events
           \/ reads' = reads /\ events' = events \cup {Failure("read", armed + 1)}
        /\ \E from \in Reading, to \in {"idle", "deliver"} : Step(t, from, to)
    BY <1>11 DEF FirstRead, Rearm, StartReceive, Reading
  <2> DEFINE end == Failure("read", armed + 1)
  <2>2. end.of = "read" /\ end.op = armed + 1 /\ ~end.ok
    BY DEF Failure
  <2> HIDE DEF end
  <2>3. reads' \subseteq reads \cup {armed + 1} /\ events' \subseteq events \cup {end}
    BY <2>1 DEF end
  <2>4. /\ PendingConnects' \subseteq PendingConnects /\ PendingChunks' \subseteq PendingChunks
        /\ PendingReads' \subseteq PendingReads \cup {armed + 1}
    BY <2>1, <2>2, <2>3 DEF PendingConnects, PendingChunks, PendingReads, Data, ReadEvents
  <2>5. /\ t \in At(Reading) /\ At(Reading)' \subseteq At(Reading) \ {t}
        /\ At(Closing)' \subseteq At(Closing)
    BY <2>1, ThreadMoves DEF Reading, Closing
  <2>6. /\ Cardinality(At(Reading)') <= Cardinality(At(Reading)) - 1
        /\ Cardinality(At(Closing)') <= Cardinality(At(Closing))
        /\ Cardinality(PendingConnects') <= Cardinality(PendingConnects)
        /\ Cardinality(PendingChunks') <= Cardinality(PendingChunks)
        /\ Cardinality(PendingReads') <= Cardinality(PendingReads) + 1
    BY <1>2, <2>4, <2>5, Keeping, Gaining, Losing
  <2> QED
    BY <1>1, <1>3, <2>1, <2>6
<1>12. ASSUME NEW t \in pool, HandleReceiveError(t)
       PROVE  Goal
  <2>1. PICK e \in events :
          /\ e.of = "read" /\ ~e.ok /\ events' = events \ {e} /\ Step(t, "idle", "close")
          /\ UNCHANGED <<connecting, reads, attempts, closes, sent, armed, disconnects>>
    BY <1>12 DEF HandleReceiveError
  <2>2. /\ PendingConnects' \subseteq PendingConnects /\ PendingChunks' \subseteq PendingChunks
        /\ e.op \in PendingReads /\ PendingReads' \subseteq PendingReads \ {e.op}
    BY <2>1 DEF PendingConnects, PendingChunks, PendingReads, Data, ReadEvents, Numbered
  <2>3. At(Reading)' \subseteq At(Reading) /\ At(Closing)' \subseteq At(Closing) \cup {t}
    BY <2>1, ThreadMoves DEF Reading
  <2>4. /\ Cardinality(At(Reading)') <= Cardinality(At(Reading))
        /\ Cardinality(At(Closing)') <= Cardinality(At(Closing)) + 1
        /\ Cardinality(PendingConnects') <= Cardinality(PendingConnects)
        /\ Cardinality(PendingChunks') <= Cardinality(PendingChunks)
        /\ Cardinality(PendingReads') <= Cardinality(PendingReads) - 1
    BY <1>2, <2>2, <2>3, Keeping, Gaining, Losing
  <2> QED
    BY <1>1, <1>3, <2>1, <2>4
<1>13. ASSUME NEW t \in pool, HandleReceive(t)
       PROVE  Goal
  <2>1. PICK e \in events :
          /\ e.of = "read" /\ e.ok /\ events' = events \ {e} /\ Step(t, "idle", "rearm")
          /\ UNCHANGED <<connecting, reads, attempts, closes, sent, armed, disconnects>>
    BY <1>13 DEF HandleReceive
  <2>2. /\ PendingConnects' \subseteq PendingConnects /\ PendingReads' \subseteq PendingReads
        /\ e.chunk \in PendingChunks /\ PendingChunks' \subseteq PendingChunks \ {e.chunk}
    BY <2>1 DEF PendingConnects, PendingChunks, PendingReads, Data, ReadEvents, ChunkOnce
  <2>3. At(Reading)' \subseteq At(Reading) \cup {t} /\ At(Closing)' \subseteq At(Closing)
    BY <2>1, ThreadMoves DEF Closing
  <2>4. /\ Cardinality(At(Reading)') <= Cardinality(At(Reading)) + 1
        /\ Cardinality(At(Closing)') <= Cardinality(At(Closing))
        /\ Cardinality(PendingConnects') <= Cardinality(PendingConnects)
        /\ Cardinality(PendingChunks') <= Cardinality(PendingChunks) - 1
        /\ Cardinality(PendingReads') <= Cardinality(PendingReads)
    BY <1>2, <2>2, <2>3, Keeping, Gaining, Losing
  <2> QED
    BY <1>1, <1>3, <2>1, <2>4
<1>14. ASSUME NEW t \in pool, CloseSocket(t)
       PROVE  Goal
  <2>1. /\ UNCHANGED <<attempts, closes, sent, armed, disconnects>>
        /\ connecting' = {} /\ reads' = {} /\ Step(t, "shutdown", "setClosed")
        /\ events' = events \cup {Failure("connect", n) : n \in connecting}
                            \cup {Failure("read", n) : n \in reads}
    BY <1>14 DEF CloseSocket
  <2>2. \A e \in events' :
          \/ e \in events
          \/ e.of = "connect" /\ ~e.ok
          \/ e.of = "read" /\ ~e.ok /\ e.op \in reads
    BY <2>1 DEF Failure
  <2>3. /\ PendingConnects' \subseteq PendingConnects /\ PendingChunks' \subseteq PendingChunks
        /\ PendingReads' \subseteq PendingReads
    BY <2>1, <2>2 DEF PendingConnects, PendingChunks, PendingReads, Data, ReadEvents
  <2>4. At(Reading)' \subseteq At(Reading) /\ At(Closing)' \subseteq At(Closing)
    BY <2>1, ThreadMoves DEF Reading, Closing
  <2>5. Kept
    BY <2>3, <2>4, NoGrowth
  <2> QED
    BY <1>1, <1>3, <2>1, <2>5
<1>15. CASE ConnectEnds \/ PeerCloses
  <2>1. /\ UNCHANGED <<pc, attempts, closes, sent, armed, disconnects>>
        /\ connecting' \subseteq connecting /\ reads' \subseteq reads
        /\ \A e \in events' :
             \/ e \in events
             \/ e.of = "connect" /\ e.op \in connecting
             \/ e.of = "read" /\ ~e.ok /\ e.op \in reads
    <3>1. CASE ConnectEnds
      <4>1. PICK n \in connecting, ok \in BOOLEAN :
              /\ events' = events \cup {[of |-> "connect", op |-> n, ok |-> ok, chunk |-> 0]}
              /\ connecting' = connecting \ {n}
              /\ UNCHANGED <<reads, pc, attempts, closes, sent, armed, disconnects>>
        BY <3>1 DEF ConnectEnds
      <4> QED
        BY <4>1
    <3>2. CASE PeerCloses
      <4>1. PICK n \in reads :
              /\ events' = events \cup {Failure("read", n)} /\ reads' = reads \ {n}
              /\ UNCHANGED <<connecting, pc, attempts, closes, sent, armed, disconnects>>
        BY <3>2 DEF PeerCloses
      <4> QED
        BY <4>1 DEF Failure
    <3> QED
      BY <1>15, <3>1, <3>2
  <2>2. /\ PendingConnects' \subseteq PendingConnects /\ PendingChunks' \subseteq PendingChunks
        /\ PendingReads' \subseteq PendingReads
    BY <2>1 DEF PendingConnects, PendingChunks, PendingReads, Data, ReadEvents
  <2>3. At(Reading)' \subseteq At(Reading) /\ At(Closing)' \subseteq At(Closing)
    BY <2>1 DEF At
  <2>4. Kept
    BY <2>2, <2>3, NoGrowth
  <2>5. Goal
    BY <1>1, <1>3, <2>1, <2>4
  <2> QED
    BY <1>4, <2>5
<1>16. CASE DataArrives
  <2>1. PICK n \in reads :
          /\ events' = events \cup {[of |-> "read", op |-> n, ok |-> TRUE, chunk |-> sent + 1]}
          /\ sent < MaxChunks /\ sent' = sent + 1 /\ reads' = reads \ {n}
          /\ UNCHANGED <<connecting, pc, attempts, closes, armed, disconnects>>
    BY <1>16 DEF DataArrives
  <2> DEFINE end == [of |-> "read", op |-> n, ok |-> TRUE, chunk |-> sent + 1]
  <2>2. events' = events \cup {end} /\ end.of = "read" /\ end.op = n /\ end.chunk = sent + 1
    BY <2>1
  <2> HIDE DEF end
  <2>3. /\ PendingConnects' \subseteq PendingConnects /\ PendingReads' \subseteq PendingReads
        /\ PendingChunks' \subseteq PendingChunks \cup {sent + 1}
        /\ At(Reading)' = At(Reading) /\ At(Closing)' = At(Closing)
    BY <2>1, <2>2 DEF PendingConnects, PendingChunks, PendingReads, Data, ReadEvents, At
  <2>4. /\ Cardinality(PendingConnects') <= Cardinality(PendingConnects)
        /\ Cardinality(PendingChunks') <= Cardinality(PendingChunks) + 1
        /\ Cardinality(PendingReads') <= Cardinality(PendingReads)
    BY <1>2, <2>3, Keeping, Gaining
  <2>5. Goal
    BY <1>1, <1>3, <2>1, <2>3, <2>4
  <2> QED
    BY <1>4, <2>5
<1>17. CASE UNCHANGED vars
  BY <1>17 DEF vars, CountInv, Bounds, ReadsCount, ClosesCount, At, PendingConnects,
     PendingChunks, PendingReads, Data, ReadEvents
<1> HIDE DEF Goal
<1> QED
  BY <1>4, <1>6, <1>7, <1>8, <1>9, <1>10, <1>11, <1>12, <1>13, <1>14, <1>15, <1>16, <1>17
     DEF Next, ThreadRuns

\* The invariant of any pool and either role.
AnyPoolInv == Types /\ Numbered /\ ChunkOnce /\ CountInv

LEMMA AnyPoolInvariance == Spec => []AnyPoolInv
<1>1. Init => AnyPoolInv
  <2> SUFFICES ASSUME Init PROVE AnyPoolInv
    OBVIOUS
  <2>1. Types
    BY InitInv DEF HandInv, ReaderInv
  <2>2. Numbered
    BY DEF Init, Numbered
  <2>3. Data = {} /\ Holders = {} /\ PendingConnects = {} /\ PendingChunks = {}
        /\ PendingReads = {} /\ At(Closing) = {}
    BY DEF Init, Data, Holders, PendingConnects, PendingChunks, PendingReads, ReadEvents, At,
       Closing
  <2>4. ChunkOnce
    BY <2>3 DEF Init, ChunkOnce
  <2>5. PICK acceptor \in Threads : At(Reading) \subseteq {acceptor}
    BY ConnectionAssumption DEF Init, At, Reading
  <2>6. Cardinality({}) = 0 /\ IsFiniteSet({})
    BY FS_EmptySet
  <2>7. Cardinality(At(Reading)) \in Nat /\ Cardinality(At(Reading)) <= 1
    <3>1. IsFiniteSet({acceptor}) /\ Cardinality({acceptor}) = 1
      BY FS_Singleton
    <3> QED
      BY <2>5, <3>1, Keeping
  <2>8. CountInv
    BY <2>3, <2>6, <2>7, ConnectionAssumption DEF Init, CountInv, Bounds, ReadsCount, ClosesCount
  <2> QED
    BY <2>1, <2>2, <2>4, <2>8 DEF AnyPoolInv
<1>2. AnyPoolInv /\ [Next]_vars => AnyPoolInv'
  BY NextTypes, NextNumbered, NextChunks, NextCounts DEF AnyPoolInv
<1> QED
  BY <1>1, <1>2, PTL DEF Spec

\* A list is of the type of its items.
LEMMA ListItems ==
  ASSUME NEW S, NEW T, NEW s \in Seq(S)
  PROVE  /\ \A i \in 1..Len(s) : s[i] \in S
         /\ (\A i \in 1..Len(s) : s[i] \in T) => s \in Seq(T)
OBVIOUS

\* The type invariant, with its bounds: for any pool, reads are started for the
\* accept, an attempt or a chunk, and disconnected_callback_ is called for a
\* close of the program or a read.
THEOREM TypeCorrect == Spec => []TypeOK
<1>1. AnyPoolInv => TypeOK
  <2> SUFFICES ASSUME AnyPoolInv PROVE TypeOK
    OBVIOUS
  <2>1. Types /\ Numbered /\ ChunkOnce /\ CountInv
    BY DEF AnyPoolInv
  <2>2. received \in Seq([by : Threads, read : 1..sent, found : 1..sent])
    <3>1. received \in Seq([by : Threads, read : Nat, found : Nat]) /\ sent \in Nat
      BY <2>1 DEF Types
    <3>2. \A i \in 1..Len(received) : received[i] \in [by : Threads, read : 1..sent, found : 1..sent]
      <4> TAKE i \in 1..Len(received)
      <4>1. received[i] \in [by : Threads, read : Nat, found : Nat]
        BY <3>1, ListItems
      <4>2. received[i].read \in 1..sent /\ received[i].found \in received[i].read..sent
        BY <2>1 DEF ChunkOnce
      <4>3. received[i].found \in 1..sent
        BY <3>1, <4>1, <4>2
      <4> QED
        BY <4>1, <4>2, <4>3
    <3> QED
      BY <3>1, <3>2, ListItems
  <2>3. /\ Cardinality(At(Reading)) \in Nat /\ Cardinality(At(Closing)) \in Nat
        /\ Cardinality(PendingConnects) \in Nat /\ Cardinality(PendingChunks) \in Nat
        /\ Cardinality(PendingReads) \in Nat
    BY <2>1, CountedSetsAreFinite, FS_CardinalityType DEF Countable
  <2>4. /\ armed \in 0..(sent + attempts + 1) /\ disconnects \in 0..(closes + armed)
        /\ attempts \in 0..MaxAttempts /\ closes \in 0..MaxCloses[role] /\ sent \in 0..MaxChunks
    BY <2>1, <2>3, ConnectionAssumption, SMTT(30)
    DEF Types, CountInv, Bounds, ReadsCount, ClosesCount
  <2>5. buffer \in 0..sent /\ chunk \in [Threads -> 0..sent]
    BY <2>1 DEF Types, ChunkOnce
  <2> QED
    BY <2>1, <2>2, <2>4, <2>5 DEF Types, Numbered, TypeOK
<1> QED
  BY AnyPoolInvariance, <1>1, PTL

\* No chunk is in what the program received twice.
HandedAtMostOnce ==
  \A i, j \in 1..Len(received) : received[i].read = received[j].read => i = j

\* handle_receive hands no chunk over twice, whatever the number of threads that
\* read and close, and a connection that is closed and connected again included.
THEOREM ChunksAreHandedOnce == Spec => []HandedAtMostOnce
<1>1. AnyPoolInv => HandedAtMostOnce
  BY DEF AnyPoolInv, ChunkOnce, HandedAtMostOnce
<1> QED
  BY AnyPoolInvariance, <1>1, PTL

\* What a callback finds is the chunk that was read or a later one.
NeverOlder == \A i \in 1..Len(received) : received[i].found >= received[i].read

\* Where received_callback_ is not given the chunk that was read, it is given a
\* later one: DataIsIntact fails by the next read only.
THEOREM OnlyLaterDataIsFound == Spec => []NeverOlder
<1>1. AnyPoolInv => NeverOlder
  <2> SUFFICES ASSUME AnyPoolInv, NEW i \in 1..Len(received)
               PROVE  received[i].found >= received[i].read
    BY DEF NeverOlder
  <2>1. /\ received[i].read \in 1..sent /\ received[i].found \in received[i].read..sent
        /\ sent \in Nat
    BY DEF AnyPoolInv, ChunkOnce, Types
  <2> QED
    BY <2>1
<1> QED
  BY AnyPoolInvariance, <1>1, PTL

=============================================================================
