-------------------------- MODULE AsioServerProofs --------------------------
(***************************************************************************)
(* Theorems of AsioServer, for every number of threads and clients and     *)
(* every platform.  The accept baton is not inductive as it stands: that   *)
(* start() finds no accept pending follows from what status_ says, and     *)
(* status_ is only meaningful together with where the threads are.         *)
(***************************************************************************)
EXTENDS AsioServer, TLAPS

Handling(t) == pc[t] \in Arming \cup {"callback"}

\* Where the main thread and the pool may be, given what status_ says.
Lifecycle ==
  /\ pc[Main] \in Arming \cup {"ready", "spawn", "join", "wait"}
  /\ \A t \in Threads : pc[t] \in Arming \cup {"unborn", "idle", "callback", "exited"}
  /\ status_ \in {"kNone", "kRunning"}
  /\ status_ = "kNone" =>
       armed = {} /\ completed = {} /\ \A t \in Threads : pc[t] = "unborn"
  /\ InStartAccept(Main) => status_ = "kNone"
  /\ pc[Main] = "spawn" =>
       status_ = "kRunning" /\ \A t \in Threads : pc[t] = "unborn"
  /\ pc[Main] = "join" => closed < stops

\* What the executor inside start_tcp_accept holds.
AcceptorInHand ==
  \A x \in Executors :
    /\ pc[x] = "store" => built[x] = made /\ built[x] \in listening /\ acceptor_ < made
    /\ pc[x] = "arm" => acceptor_ \in listening

\* The closed callback only ever runs with the io_context stopped.
ClosedIsStopped ==
  /\ pc[Main] = "join" => stopped
  /\ closed > 0 => stopped

\* An accept fails only for the reasons named.
ErrorsHaveCauses ==
  \A r \in completed : r.client = NoClient => faults > 0 \/ env.literal

\* A client in some hand is in one hand only.
HandsAreDistinct ==
  /\ \A t \in Threads : Handling(t) => conn[t] \in Clients /\ peer[conn[t]] = "accepted"
  /\ \A t, u \in Threads : Handling(t) /\ Handling(u) /\ conn[t] = conn[u] => t = u
  /\ \A r \in completed : r.client # NoClient =>
       /\ peer[r.client] = "accepted"
       /\ \A t \in Threads : Handling(t) => conn[t] # r.client

-----------------------------------------------------------------------------

\* Every action keeps the type.
LEMMA NextTypeOK == TypeOK /\ Lifecycle /\ [Next]_vars => TypeOK'
<1> SUFFICES ASSUME TypeOK, Lifecycle, [Next]_vars PROVE TypeOK'
  OBVIOUS
<1> USE ConstantsAssumption DEF TypeOK, Lifecycle, Executors, Goto,
      Arming, Locations, Statuses, Peers, Results
<1>1. ASSUME NEW x \in Executors, ConstructAcceptor(x) PROVE TypeOK'
  BY <1>1, SMT DEF ConstructAcceptor, clientVars, closeVars
<1>2. ASSUME NEW x \in Executors, StartAcceptThrows(x) PROVE TypeOK'
  <2>1. alive' \in BOOLEAN
    BY <1>2 DEF StartAcceptThrows
  <2> QED
    BY <1>2, <2>1, SMT DEF StartAcceptThrows, socketVars, clientVars, closeVars
<1>3. ASSUME NEW x \in Executors, StoreAcceptor(x) PROVE TypeOK'
  BY <1>3, SMT DEF StoreAcceptor, clientVars, closeVars
<1>4. ASSUME NEW x \in Executors, Arm(x) PROVE TypeOK'
  <2>1. [on |-> acceptor_, client |-> NoClient] \in Results
    BY SMT
  <2>2. completed' \subseteq Results /\ armed' \subseteq Nat
    <3>1. acceptor_ \in Nat
      BY SMT
    <3>2. \/ completed' = completed \cup {[on |-> acceptor_, client |-> NoClient]}
             /\ armed' = armed
          \/ completed' = completed /\ armed' = armed \cup {acceptor_}
      BY <1>4, Zenon DEF Arm
    <3> QED
      BY <2>1, <3>1, <3>2
  <2>3. pc' \in [Executors -> Locations]
    BY <1>4, SMT DEF Arm
  <2> QED
    BY <1>4, <2>2, <2>3, SMT DEF Arm, clientVars, closeVars
<1>5. CASE SpawnPool
  BY <1>5, SMT DEF SpawnPool, socketVars, clientVars, closeVars
<1>6. CASE StopJoined
  BY <1>6, SMT DEF StopJoined, socketVars, clientVars
<1>7. CASE WaitReturns
  BY <1>7, SMT DEF WaitReturns, socketVars, clientVars, closeVars
<1>8. CASE Start
  BY <1>8, SMT DEF Start, socketVars, clientVars, closeVars
<1>9. CASE Stop
  BY <1>9, SMT DEF Stop, socketVars, clientVars
<1>10. CASE Wait
  BY <1>10, SMT DEF Wait, socketVars, clientVars, closeVars
<1>11. ASSUME NEW t \in Threads, HandleAcceptError(t) PROVE TypeOK'
  BY <1>11, SMT DEF HandleAcceptError, clientVars, closeVars
<1>12. ASSUME NEW t \in Threads, HandleAccept(t) PROVE TypeOK'
  BY <1>12, SMT DEF HandleAccept, closeVars
<1>13. ASSUME NEW t \in Threads, Callback(t) PROVE TypeOK'
  <2>1. peer' \in [Clients -> Peers]
    <3>1. PICK admitted \in BOOLEAN :
            peer' = [peer EXCEPT ![conn[t]] = IF admitted THEN "reading" ELSE "refused"]
      BY <1>13 DEF Callback
    <3>2. (IF admitted THEN "reading" ELSE "refused") \in Peers
      OBVIOUS
    <3> QED
      BY <3>1, <3>2
  <2>2. conn' \in [Threads -> Clients \cup {NoClient}]
    BY <1>13, SMT DEF Callback
  <2>3. pc' \in [Executors -> Locations]
    BY <1>13, SMT DEF Callback
  <2> QED
    BY <1>13, <2>1, <2>2, <2>3, SMT DEF Callback, socketVars, closeVars
<1>14. ASSUME NEW t \in Threads, ThreadExits(t) PROVE TypeOK'
  BY <1>14, SMT DEF ThreadExits, socketVars, clientVars, closeVars
<1>15. ASSUME NEW c \in Clients, ClientConnects(c) PROVE TypeOK'
  BY <1>15, SMT DEF ClientConnects, socketVars, closeVars
<1>16. ASSUME NEW c \in Clients, AcceptCompletes(c) PROVE TypeOK'
  <2>1. completed' \subseteq Results /\ armed' \subseteq Nat
    <3>1. [on |-> backlog[c], client |-> c] \in Results
      BY SMT
    <3> QED
      BY <1>16, <3>1, Zenon DEF AcceptCompletes
  <2>2. peer' \in [Clients -> Peers]
    BY <1>16, SMT DEF AcceptCompletes
  <2> QED
    BY <1>16, <2>1, <2>2, SMT DEF AcceptCompletes, closeVars
<1>17. ASSUME NEW g \in armed, AcceptFails(g) PROVE TypeOK'
  BY <1>17, SMT DEF AcceptFails, clientVars, closeVars
<1>18. CASE UNCHANGED vars
  BY <1>18, SMT DEF vars, socketVars, clientVars, closeVars
<1> QED
  BY <1>1, <1>2, <1>3, <1>4, <1>5, <1>6, <1>7, <1>8, <1>9, <1>10, <1>11, <1>12,
     <1>13, <1>14, <1>15, <1>16, <1>17, <1>18
     DEF Next, MainRuns, ThreadRuns, Rearm, SomeAcceptCompletes

\* Every action keeps what status_ says of the threads.
LEMMA NextLifecycle == TypeOK /\ Lifecycle /\ [Next]_vars => Lifecycle'
<1> SUFFICES ASSUME TypeOK, Lifecycle, [Next]_vars PROVE Lifecycle'
  OBVIOUS
<1> USE ConstantsAssumption DEF TypeOK, Lifecycle, Executors, Goto,
      Arming, Locations, InStartAccept
<1>1. ASSUME NEW x \in Executors, ConstructAcceptor(x) PROVE Lifecycle'
  BY <1>1, SMT DEF ConstructAcceptor, clientVars, closeVars
<1>2. ASSUME NEW x \in Executors, StartAcceptThrows(x) PROVE Lifecycle'
  BY <1>2, SMT DEF StartAcceptThrows, socketVars, clientVars, closeVars
<1>3. ASSUME NEW x \in Executors, StoreAcceptor(x) PROVE Lifecycle'
  BY <1>3, SMT DEF StoreAcceptor, clientVars, closeVars
<1>4. ASSUME NEW x \in Executors, Arm(x) PROVE Lifecycle'
  BY <1>4, SMT DEF Arm, clientVars, closeVars
<1>5. CASE SpawnPool
  <2>1. pc'[Main] = "ready" /\ \A t \in Threads : pc'[t] = "idle"
    BY <1>5, SMT DEF SpawnPool
  <2>2. UNCHANGED <<status_, armed, completed, stopped, closed, stops>>
    BY <1>5 DEF SpawnPool, socketVars, closeVars
  <2>3. pc[Main] = "spawn"
    BY <1>5 DEF SpawnPool
  <2> QED
    BY <2>1, <2>2, <2>3, SMT
<1>6. CASE StopJoined
  BY <1>6, SMT DEF StopJoined, socketVars, clientVars
<1>7. CASE WaitReturns
  BY <1>7, SMT DEF WaitReturns, socketVars, clientVars, closeVars
<1>8. CASE Start
  BY <1>8, SMT DEF Start, socketVars, clientVars, closeVars
<1>9. CASE Stop
  BY <1>9, SMT DEF Stop, socketVars, clientVars
<1>10. CASE Wait
  BY <1>10, SMT DEF Wait, socketVars, clientVars, closeVars
<1>11. ASSUME NEW t \in Threads, HandleAcceptError(t) PROVE Lifecycle'
  BY <1>11, SMT DEF HandleAcceptError, clientVars, closeVars
<1>12. ASSUME NEW t \in Threads, HandleAccept(t) PROVE Lifecycle'
  BY <1>12, SMT DEF HandleAccept, closeVars
<1>13. ASSUME NEW t \in Threads, Callback(t) PROVE Lifecycle'
  BY <1>13, SMT DEF Callback, socketVars, closeVars
<1>14. ASSUME NEW t \in Threads, ThreadExits(t) PROVE Lifecycle'
  BY <1>14, SMT DEF ThreadExits, socketVars, clientVars, closeVars
<1>15. ASSUME NEW c \in Clients, ClientConnects(c) PROVE Lifecycle'
  BY <1>15, SMT DEF ClientConnects, socketVars, closeVars
<1>16. ASSUME NEW c \in Clients, AcceptCompletes(c) PROVE Lifecycle'
  BY <1>16, SMT DEF AcceptCompletes, closeVars
<1>17. ASSUME NEW g \in armed, AcceptFails(g) PROVE Lifecycle'
  BY <1>17, SMT DEF AcceptFails, clientVars, closeVars
<1>18. CASE UNCHANGED vars
  BY <1>18, SMT DEF vars, socketVars, clientVars, closeVars
<1> QED
  BY <1>1, <1>2, <1>3, <1>4, <1>5, <1>6, <1>7, <1>8, <1>9, <1>10, <1>11, <1>12,
     <1>13, <1>14, <1>15, <1>16, <1>17, <1>18
     DEF Next, MainRuns, ThreadRuns, Rearm, SomeAcceptCompletes

\* Every action hands the accept baton on.
LEMMA NextBaton == TypeOK /\ Lifecycle /\ AcceptBaton /\ [Next]_vars => AcceptBaton'
<1> SUFFICES ASSUME TypeOK, Lifecycle, AcceptBaton, [Next]_vars PROVE AcceptBaton'
  OBVIOUS
<1> USE ConstantsAssumption DEF TypeOK, Lifecycle, AcceptBaton, Executors, Goto,
      Arming, InStartAccept
<1>1. ASSUME NEW x \in Executors, ConstructAcceptor(x) PROVE AcceptBaton'
  BY <1>1, SMT DEF ConstructAcceptor, clientVars, closeVars
<1>2. ASSUME NEW x \in Executors, StartAcceptThrows(x) PROVE AcceptBaton'
  BY <1>2, SMT DEF StartAcceptThrows, socketVars, clientVars, closeVars
<1>3. ASSUME NEW x \in Executors, StoreAcceptor(x) PROVE AcceptBaton'
  BY <1>3, SMT DEF StoreAcceptor, clientVars, closeVars
<1>4. ASSUME NEW x \in Executors, Arm(x) PROVE AcceptBaton'
  <2>1. armed = {} /\ completed = {} /\ \A y \in Executors : InStartAccept(y) => y = x
    BY <1>4, SMT DEF Arm
  <2>2. \A y \in Executors : ~InStartAccept(y)'
    BY <1>4, <2>1, SMT DEF Arm
  <2>3. \/ armed' = {} /\ completed' = {[on |-> acceptor_, client |-> NoClient]}
        \/ armed' = {acceptor_} /\ completed' = {}
    BY <1>4, <2>1, Zenon DEF Arm
  <2> QED
    BY <2>2, <2>3, Zenon
<1>5. CASE SpawnPool
  <2>1. pc'[Main] = "ready" /\ \A t \in Threads : pc'[t] = "idle"
    BY <1>5, SMT DEF SpawnPool
  <2>2. UNCHANGED <<status_, armed, completed, stopped, closed, stops>>
    BY <1>5 DEF SpawnPool, socketVars, closeVars
  <2>3. pc[Main] = "spawn"
    BY <1>5 DEF SpawnPool
  <2> QED
    BY <2>1, <2>2, <2>3, SMT
<1>6. CASE StopJoined
  BY <1>6, SMT DEF StopJoined, socketVars, clientVars
<1>7. CASE WaitReturns
  BY <1>7, SMT DEF WaitReturns, socketVars, clientVars, closeVars
<1>8. CASE Start
  BY <1>8, SMT DEF Start, socketVars, clientVars, closeVars
<1>9. CASE Stop
  BY <1>9, SMT DEF Stop, socketVars, clientVars
<1>10. CASE Wait
  BY <1>10, SMT DEF Wait, socketVars, clientVars, closeVars
<1>11. ASSUME NEW t \in Threads, HandleAcceptError(t) PROVE AcceptBaton'
  BY <1>11, SMT DEF HandleAcceptError, clientVars, closeVars
<1>12. ASSUME NEW t \in Threads, HandleAccept(t) PROVE AcceptBaton'
  BY <1>12, SMT DEF HandleAccept, closeVars
<1>13. ASSUME NEW t \in Threads, Callback(t) PROVE AcceptBaton'
  BY <1>13, SMT DEF Callback, socketVars, closeVars
<1>14. ASSUME NEW t \in Threads, ThreadExits(t) PROVE AcceptBaton'
  BY <1>14, SMT DEF ThreadExits, socketVars, clientVars, closeVars
<1>15. ASSUME NEW c \in Clients, ClientConnects(c) PROVE AcceptBaton'
  BY <1>15, SMT DEF ClientConnects, socketVars, closeVars
<1>16. ASSUME NEW c \in Clients, AcceptCompletes(c) PROVE AcceptBaton'
  <2>1. armed = {backlog[c]} /\ completed = {} /\ \A y \in Executors : ~InStartAccept(y)
    BY <1>16, ZenonT(30) DEF AcceptCompletes
  <2>2. armed' = {} /\ completed' = {[on |-> backlog[c], client |-> c]}
    BY <1>16, <2>1, Zenon DEF AcceptCompletes
  <2> QED
    BY <1>16, <2>1, <2>2, Zenon DEF AcceptCompletes
<1>17. ASSUME NEW g \in armed, AcceptFails(g) PROVE AcceptBaton'
  BY <1>17, SMT DEF AcceptFails, clientVars, closeVars
<1>18. CASE UNCHANGED vars
  BY <1>18, SMT DEF vars, socketVars, clientVars, closeVars
<1> QED
  BY <1>1, <1>2, <1>3, <1>4, <1>5, <1>6, <1>7, <1>8, <1>9, <1>10, <1>11, <1>12,
     <1>13, <1>14, <1>15, <1>16, <1>17, <1>18
     DEF Next, MainRuns, ThreadRuns, Rearm, SomeAcceptCompletes

\* Every action keeps the acceptor in hand ahead of the stored one.
LEMMA NextInHand == TypeOK /\ Lifecycle /\ AcceptBaton /\ AcceptorInHand /\ TypeOK' /\ [Next]_vars => AcceptorInHand'
<1> SUFFICES ASSUME TypeOK, Lifecycle, AcceptBaton, AcceptorInHand, TypeOK', [Next]_vars PROVE AcceptorInHand'
  OBVIOUS
<1> USE ConstantsAssumption DEF TypeOK, Lifecycle, AcceptBaton, AcceptorInHand, Executors,
      Goto, Arming, InStartAccept
<1>1. ASSUME NEW x \in Executors, ConstructAcceptor(x) PROVE AcceptorInHand'
  BY <1>1, SMT DEF ConstructAcceptor, clientVars, closeVars
<1>2. ASSUME NEW x \in Executors, StartAcceptThrows(x) PROVE AcceptorInHand'
  BY <1>2, SMT DEF StartAcceptThrows, socketVars, clientVars, closeVars
<1>3. ASSUME NEW x \in Executors, StoreAcceptor(x) PROVE AcceptorInHand'
  BY <1>3, SMT DEF StoreAcceptor, clientVars, closeVars
<1>4. ASSUME NEW x \in Executors, Arm(x) PROVE AcceptorInHand'
  BY <1>4, SMT DEF Arm, clientVars, closeVars
<1>5. CASE SpawnPool
  BY <1>5, SMT DEF SpawnPool, socketVars, clientVars, closeVars
<1>6. CASE StopJoined
  BY <1>6, SMT DEF StopJoined, socketVars, clientVars
<1>7. CASE WaitReturns
  BY <1>7, SMT DEF WaitReturns, socketVars, clientVars, closeVars
<1>8. CASE Start
  BY <1>8, SMT DEF Start, socketVars, clientVars, closeVars
<1>9. CASE Stop
  BY <1>9, SMT DEF Stop, socketVars, clientVars
<1>10. CASE Wait
  BY <1>10, SMT DEF Wait, socketVars, clientVars, closeVars
<1>11. ASSUME NEW t \in Threads, HandleAcceptError(t) PROVE AcceptorInHand'
  BY <1>11, SMT DEF HandleAcceptError, clientVars, closeVars
<1>12. ASSUME NEW t \in Threads, HandleAccept(t) PROVE AcceptorInHand'
  BY <1>12, SMT DEF HandleAccept, closeVars
<1>13. ASSUME NEW t \in Threads, Callback(t) PROVE AcceptorInHand'
  BY <1>13, SMT DEF Callback, socketVars, closeVars
<1>14. ASSUME NEW t \in Threads, ThreadExits(t) PROVE AcceptorInHand'
  BY <1>14, SMT DEF ThreadExits, socketVars, clientVars, closeVars
<1>15. ASSUME NEW c \in Clients, ClientConnects(c) PROVE AcceptorInHand'
  BY <1>15, SMT DEF ClientConnects, socketVars, closeVars
<1>16. ASSUME NEW c \in Clients, AcceptCompletes(c) PROVE AcceptorInHand'
  BY <1>16, SMT DEF AcceptCompletes, closeVars
<1>17. ASSUME NEW g \in armed, AcceptFails(g) PROVE AcceptorInHand'
  BY <1>17, SMT DEF AcceptFails, clientVars, closeVars
<1>18. CASE UNCHANGED vars
  BY <1>18, SMT DEF vars, socketVars, clientVars, closeVars
<1> QED
  BY <1>1, <1>2, <1>3, <1>4, <1>5, <1>6, <1>7, <1>8, <1>9, <1>10, <1>11, <1>12,
     <1>13, <1>14, <1>15, <1>16, <1>17, <1>18
     DEF Next, MainRuns, ThreadRuns, Rearm, SomeAcceptCompletes

\* Every action keeps a waiting accept on the stored acceptor.
LEMMA NextCurrent == TypeOK /\ AcceptBaton /\ AcceptorInHand /\ ArmedAcceptorIsCurrent /\ [Next]_vars => ArmedAcceptorIsCurrent'
<1> SUFFICES ASSUME TypeOK, AcceptBaton, AcceptorInHand, ArmedAcceptorIsCurrent, [Next]_vars PROVE ArmedAcceptorIsCurrent'
  OBVIOUS
<1> USE ConstantsAssumption DEF TypeOK, AcceptBaton, AcceptorInHand, ArmedAcceptorIsCurrent,
      Executors, Arming, InStartAccept
<1>1. ASSUME NEW x \in Executors, ConstructAcceptor(x) PROVE ArmedAcceptorIsCurrent'
  BY <1>1, SMT DEF ConstructAcceptor, clientVars, closeVars
<1>2. ASSUME NEW x \in Executors, StartAcceptThrows(x) PROVE ArmedAcceptorIsCurrent'
  BY <1>2, SMT DEF StartAcceptThrows, socketVars, clientVars, closeVars
<1>3. ASSUME NEW x \in Executors, StoreAcceptor(x) PROVE ArmedAcceptorIsCurrent'
  BY <1>3, SMT DEF StoreAcceptor, clientVars, closeVars
<1>4. ASSUME NEW x \in Executors, Arm(x) PROVE ArmedAcceptorIsCurrent'
  <2>1. armed = {} /\ acceptor_ \in listening
    BY <1>4, SMT DEF Arm
  <2>2. armed' \subseteq {acceptor_} /\ UNCHANGED <<acceptor_, listening>>
    BY <1>4, <2>1, Zenon DEF Arm
  <2> QED
    BY <2>1, <2>2, Zenon
<1>5. CASE SpawnPool
  BY <1>5, SMT DEF SpawnPool, socketVars, clientVars, closeVars
<1>6. CASE StopJoined
  BY <1>6, SMT DEF StopJoined, socketVars, clientVars
<1>7. CASE WaitReturns
  BY <1>7, SMT DEF WaitReturns, socketVars, clientVars, closeVars
<1>8. CASE Start
  BY <1>8, SMT DEF Start, socketVars, clientVars, closeVars
<1>9. CASE Stop
  BY <1>9, SMT DEF Stop, socketVars, clientVars
<1>10. CASE Wait
  BY <1>10, SMT DEF Wait, socketVars, clientVars, closeVars
<1>11. ASSUME NEW t \in Threads, HandleAcceptError(t) PROVE ArmedAcceptorIsCurrent'
  BY <1>11, SMT DEF HandleAcceptError, clientVars, closeVars
<1>12. ASSUME NEW t \in Threads, HandleAccept(t) PROVE ArmedAcceptorIsCurrent'
  BY <1>12, SMT DEF HandleAccept, closeVars
<1>13. ASSUME NEW t \in Threads, Callback(t) PROVE ArmedAcceptorIsCurrent'
  BY <1>13, SMT DEF Callback, socketVars, closeVars
<1>14. ASSUME NEW t \in Threads, ThreadExits(t) PROVE ArmedAcceptorIsCurrent'
  BY <1>14, SMT DEF ThreadExits, socketVars, clientVars, closeVars
<1>15. ASSUME NEW c \in Clients, ClientConnects(c) PROVE ArmedAcceptorIsCurrent'
  <2>1. UNCHANGED <<acceptor_, listening, armed>>
    BY <1>15, Zenon DEF ClientConnects, socketVars
  <2> QED
    BY <2>1, Zenon
<1>16. ASSUME NEW c \in Clients, AcceptCompletes(c) PROVE ArmedAcceptorIsCurrent'
  BY <1>16, SMT DEF AcceptCompletes, closeVars
<1>17. ASSUME NEW g \in armed, AcceptFails(g) PROVE ArmedAcceptorIsCurrent'
  BY <1>17, SMT DEF AcceptFails, clientVars, closeVars
<1>18. CASE UNCHANGED vars
  BY <1>18, SMT DEF vars, socketVars, clientVars, closeVars
<1> QED
  BY <1>1, <1>2, <1>3, <1>4, <1>5, <1>6, <1>7, <1>8, <1>9, <1>10, <1>11, <1>12,
     <1>13, <1>14, <1>15, <1>16, <1>17, <1>18
     DEF Next, MainRuns, ThreadRuns, Rearm, SomeAcceptCompletes

\* Every action keeps the server quiet after the closed callback.
LEMMA NextQuiet == TypeOK /\ Lifecycle /\ ClosedIsStopped /\ QuietAfterClosed /\ [Next]_vars => (ClosedIsStopped /\ QuietAfterClosed)'
<1> SUFFICES ASSUME TypeOK, Lifecycle, ClosedIsStopped, QuietAfterClosed, [Next]_vars PROVE (ClosedIsStopped /\ QuietAfterClosed)'
  OBVIOUS
<1> USE ConstantsAssumption DEF TypeOK, Lifecycle, ClosedIsStopped, QuietAfterClosed,
      Executors, Goto, Arming, PoolJoined
<1>1. ASSUME NEW x \in Executors, ConstructAcceptor(x) PROVE (ClosedIsStopped /\ QuietAfterClosed)'
  BY <1>1, SMT DEF ConstructAcceptor, clientVars, closeVars
<1>2. ASSUME NEW x \in Executors, StartAcceptThrows(x) PROVE (ClosedIsStopped /\ QuietAfterClosed)'
  BY <1>2, SMT DEF StartAcceptThrows, socketVars, clientVars, closeVars
<1>3. ASSUME NEW x \in Executors, StoreAcceptor(x) PROVE (ClosedIsStopped /\ QuietAfterClosed)'
  BY <1>3, SMT DEF StoreAcceptor, clientVars, closeVars
<1>4. ASSUME NEW x \in Executors, Arm(x) PROVE (ClosedIsStopped /\ QuietAfterClosed)'
  BY <1>4, SMT DEF Arm, clientVars, closeVars
<1>5. CASE SpawnPool
  BY <1>5, SMT DEF SpawnPool, socketVars, clientVars, closeVars
<1>6. CASE StopJoined
  BY <1>6, SMT DEF StopJoined, socketVars, clientVars
<1>7. CASE WaitReturns
  BY <1>7, SMT DEF WaitReturns, socketVars, clientVars, closeVars
<1>8. CASE Start
  BY <1>8, SMT DEF Start, socketVars, clientVars, closeVars
<1>9. CASE Stop
  BY <1>9, SMT DEF Stop, socketVars, clientVars
<1>10. CASE Wait
  BY <1>10, SMT DEF Wait, socketVars, clientVars, closeVars
<1>11. ASSUME NEW t \in Threads, HandleAcceptError(t) PROVE (ClosedIsStopped /\ QuietAfterClosed)'
  BY <1>11, SMT DEF HandleAcceptError, clientVars, closeVars
<1>12. ASSUME NEW t \in Threads, HandleAccept(t) PROVE (ClosedIsStopped /\ QuietAfterClosed)'
  BY <1>12, SMT DEF HandleAccept, closeVars
<1>13. ASSUME NEW t \in Threads, Callback(t) PROVE (ClosedIsStopped /\ QuietAfterClosed)'
  BY <1>13, SMT DEF Callback, socketVars, closeVars
<1>14. ASSUME NEW t \in Threads, ThreadExits(t) PROVE (ClosedIsStopped /\ QuietAfterClosed)'
  BY <1>14, SMT DEF ThreadExits, socketVars, clientVars, closeVars
<1>15. ASSUME NEW c \in Clients, ClientConnects(c) PROVE (ClosedIsStopped /\ QuietAfterClosed)'
  BY <1>15, SMT DEF ClientConnects, socketVars, closeVars
<1>16. ASSUME NEW c \in Clients, AcceptCompletes(c) PROVE (ClosedIsStopped /\ QuietAfterClosed)'
  BY <1>16, SMT DEF AcceptCompletes, closeVars
<1>17. ASSUME NEW g \in armed, AcceptFails(g) PROVE (ClosedIsStopped /\ QuietAfterClosed)'
  BY <1>17, SMT DEF AcceptFails, clientVars, closeVars
<1>18. CASE UNCHANGED vars
  BY <1>18, SMT DEF vars, socketVars, clientVars, closeVars
<1> QED
  BY <1>1, <1>2, <1>3, <1>4, <1>5, <1>6, <1>7, <1>8, <1>9, <1>10, <1>11, <1>12,
     <1>13, <1>14, <1>15, <1>16, <1>17, <1>18
     DEF Next, MainRuns, ThreadRuns, Rearm, SomeAcceptCompletes

\* Every action keeps a failed accept explained.
LEMMA NextErrors == TypeOK /\ AcceptBaton /\ ErrorsHaveCauses /\ [Next]_vars => ErrorsHaveCauses'
<1> SUFFICES ASSUME TypeOK, AcceptBaton, ErrorsHaveCauses, [Next]_vars PROVE ErrorsHaveCauses'
  OBVIOUS
<1> USE ConstantsAssumption DEF TypeOK, AcceptBaton, ErrorsHaveCauses, InStartAccept,
      Arming, Executors
<1>1. ASSUME NEW x \in Executors, ConstructAcceptor(x) PROVE ErrorsHaveCauses'
  BY <1>1, SMT DEF ConstructAcceptor, clientVars, closeVars
<1>2. ASSUME NEW x \in Executors, StartAcceptThrows(x) PROVE ErrorsHaveCauses'
  BY <1>2, SMT DEF StartAcceptThrows, socketVars, clientVars, closeVars
<1>3. ASSUME NEW x \in Executors, StoreAcceptor(x) PROVE ErrorsHaveCauses'
  BY <1>3, SMT DEF StoreAcceptor, clientVars, closeVars
<1>4. ASSUME NEW x \in Executors, Arm(x) PROVE ErrorsHaveCauses'
  BY <1>4, SMT DEF Arm, clientVars, closeVars
<1>5. CASE SpawnPool
  BY <1>5, SMT DEF SpawnPool, socketVars, clientVars, closeVars
<1>6. CASE StopJoined
  BY <1>6, SMT DEF StopJoined, socketVars, clientVars
<1>7. CASE WaitReturns
  BY <1>7, SMT DEF WaitReturns, socketVars, clientVars, closeVars
<1>8. CASE Start
  BY <1>8, SMT DEF Start, socketVars, clientVars, closeVars
<1>9. CASE Stop
  BY <1>9, SMT DEF Stop, socketVars, clientVars
<1>10. CASE Wait
  BY <1>10, SMT DEF Wait, socketVars, clientVars, closeVars
<1>11. ASSUME NEW t \in Threads, HandleAcceptError(t) PROVE ErrorsHaveCauses'
  BY <1>11, SMT DEF HandleAcceptError, clientVars, closeVars
<1>12. ASSUME NEW t \in Threads, HandleAccept(t) PROVE ErrorsHaveCauses'
  BY <1>12, SMT DEF HandleAccept, closeVars
<1>13. ASSUME NEW t \in Threads, Callback(t) PROVE ErrorsHaveCauses'
  BY <1>13, SMT DEF Callback, socketVars, closeVars
<1>14. ASSUME NEW t \in Threads, ThreadExits(t) PROVE ErrorsHaveCauses'
  BY <1>14, SMT DEF ThreadExits, socketVars, clientVars, closeVars
<1>15. ASSUME NEW c \in Clients, ClientConnects(c) PROVE ErrorsHaveCauses'
  BY <1>15, SMT DEF ClientConnects, socketVars, closeVars
<1>16. ASSUME NEW c \in Clients, AcceptCompletes(c) PROVE ErrorsHaveCauses'
  BY <1>16, SMT DEF AcceptCompletes, closeVars
<1>17. ASSUME NEW g \in armed, AcceptFails(g) PROVE ErrorsHaveCauses'
  BY <1>17, SMT DEF AcceptFails, clientVars, closeVars
<1>18. CASE UNCHANGED vars
  BY <1>18, SMT DEF vars, socketVars, clientVars, closeVars
<1> QED
  BY <1>1, <1>2, <1>3, <1>4, <1>5, <1>6, <1>7, <1>8, <1>9, <1>10, <1>11, <1>12,
     <1>13, <1>14, <1>15, <1>16, <1>17, <1>18
     DEF Next, MainRuns, ThreadRuns, Rearm, SomeAcceptCompletes

\* Every action that lets go of the baton passes it on.
LEMMA NextUnbroken == TypeOK /\ Lifecycle /\ AcceptBaton /\ ErrorsHaveCauses /\ ChainUnbroken /\ [Next]_vars => ChainUnbroken'
<1> SUFFICES ASSUME TypeOK, Lifecycle, AcceptBaton, ErrorsHaveCauses, ChainUnbroken, [Next]_vars PROVE ChainUnbroken'
  OBVIOUS
<1> USE ConstantsAssumption DEF TypeOK, Lifecycle, AcceptBaton, ErrorsHaveCauses, ChainUnbroken,
      Executors, Goto, Arming, InStartAccept
<1>1. ASSUME NEW x \in Executors, ConstructAcceptor(x) PROVE ChainUnbroken'
  BY <1>1, SMT DEF ConstructAcceptor, clientVars, closeVars
<1>2. ASSUME NEW x \in Executors, StartAcceptThrows(x) PROVE ChainUnbroken'
  BY <1>2, SMT DEF StartAcceptThrows, socketVars, clientVars, closeVars
<1>3. ASSUME NEW x \in Executors, StoreAcceptor(x) PROVE ChainUnbroken'
  BY <1>3, SMT DEF StoreAcceptor, clientVars, closeVars
<1>4. ASSUME NEW x \in Executors, Arm(x) PROVE ChainUnbroken'
  BY <1>4, SMT DEF Arm, clientVars, closeVars
<1>5. CASE SpawnPool
  BY <1>5, SMT DEF SpawnPool, socketVars, clientVars, closeVars
<1>6. CASE StopJoined
  BY <1>6, SMT DEF StopJoined, socketVars, clientVars
<1>7. CASE WaitReturns
  BY <1>7, SMT DEF WaitReturns, socketVars, clientVars, closeVars
<1>8. CASE Start
  BY <1>8, SMT DEF Start, socketVars, clientVars, closeVars
<1>9. CASE Stop
  BY <1>9, SMT DEF Stop, socketVars, clientVars
<1>10. CASE Wait
  BY <1>10, SMT DEF Wait, socketVars, clientVars, closeVars
<1>11. ASSUME NEW t \in Threads, HandleAcceptError(t) PROVE ChainUnbroken'
  BY <1>11, SMT DEF HandleAcceptError, clientVars, closeVars
<1>12. ASSUME NEW t \in Threads, HandleAccept(t) PROVE ChainUnbroken'
  BY <1>12, SMT DEF HandleAccept, closeVars
<1>13. ASSUME NEW t \in Threads, Callback(t) PROVE ChainUnbroken'
  BY <1>13, SMT DEF Callback, socketVars, closeVars
<1>14. ASSUME NEW t \in Threads, ThreadExits(t) PROVE ChainUnbroken'
  BY <1>14, SMT DEF ThreadExits, socketVars, clientVars, closeVars
<1>15. ASSUME NEW c \in Clients, ClientConnects(c) PROVE ChainUnbroken'
  BY <1>15, SMT DEF ClientConnects, socketVars, closeVars
<1>16. ASSUME NEW c \in Clients, AcceptCompletes(c) PROVE ChainUnbroken'
  <2>1. completed' # {}
    BY <1>16, ZenonT(30) DEF AcceptCompletes
  <2> QED
    BY <2>1, Zenon
<1>17. ASSUME NEW g \in armed, AcceptFails(g) PROVE ChainUnbroken'
  BY <1>17, SMT DEF AcceptFails, clientVars, closeVars
<1>18. CASE UNCHANGED vars
  BY <1>18, SMT DEF vars, socketVars, clientVars, closeVars
<1> QED
  BY <1>1, <1>2, <1>3, <1>4, <1>5, <1>6, <1>7, <1>8, <1>9, <1>10, <1>11, <1>12,
     <1>13, <1>14, <1>15, <1>16, <1>17, <1>18
     DEF Next, MainRuns, ThreadRuns, Rearm, SomeAcceptCompletes

\* Every action keeps a client in one hand.
LEMMA NextHands == TypeOK /\ Lifecycle /\ AcceptBaton /\ HandsAreDistinct /\ [Next]_vars => HandsAreDistinct'
<1> SUFFICES ASSUME TypeOK, Lifecycle, AcceptBaton, HandsAreDistinct, [Next]_vars PROVE HandsAreDistinct'
  OBVIOUS
<1> USE ConstantsAssumption DEF TypeOK, Lifecycle, AcceptBaton, HandsAreDistinct, Handling,
      Executors, Goto, Arming, InStartAccept
<1>1. ASSUME NEW x \in Executors, ConstructAcceptor(x) PROVE HandsAreDistinct'
  BY <1>1, SMT DEF ConstructAcceptor, clientVars, closeVars
<1>2. ASSUME NEW x \in Executors, StartAcceptThrows(x) PROVE HandsAreDistinct'
  BY <1>2, SMT DEF StartAcceptThrows, socketVars, clientVars, closeVars
<1>3. ASSUME NEW x \in Executors, StoreAcceptor(x) PROVE HandsAreDistinct'
  BY <1>3, SMT DEF StoreAcceptor, clientVars, closeVars
<1>4. ASSUME NEW x \in Executors, Arm(x) PROVE HandsAreDistinct'
  BY <1>4, SMT DEF Arm, clientVars, closeVars
<1>5. CASE SpawnPool
  BY <1>5, SMT DEF SpawnPool, socketVars, clientVars, closeVars
<1>6. CASE StopJoined
  BY <1>6, SMT DEF StopJoined, socketVars, clientVars
<1>7. CASE WaitReturns
  BY <1>7, SMT DEF WaitReturns, socketVars, clientVars, closeVars
<1>8. CASE Start
  BY <1>8, SMT DEF Start, socketVars, clientVars, closeVars
<1>9. CASE Stop
  BY <1>9, SMT DEF Stop, socketVars, clientVars
<1>10. CASE Wait
  BY <1>10, SMT DEF Wait, socketVars, clientVars, closeVars
<1>11. ASSUME NEW t \in Threads, HandleAcceptError(t) PROVE HandsAreDistinct'
  BY <1>11, SMT DEF HandleAcceptError, clientVars, closeVars
<1>12. ASSUME NEW t \in Threads, HandleAccept(t) PROVE HandsAreDistinct'
  <2>1. PICK r \in completed :
          /\ r.client # NoClient
          /\ completed' = completed \ {r}
          /\ conn' = [conn EXCEPT ![t] = r.client]
    BY <1>12, Zenon DEF HandleAccept
  <2>2. r.client \in Clients
    BY <2>1, SMT DEF Results
  <2>3. completed' = {} /\ peer' = peer
    <3>1. \A s \in completed : s = r
      OBVIOUS
    <3>2. peer' = peer
      BY <1>12 DEF HandleAccept
    <3> QED
      BY <2>1, <3>1, <3>2
  <2>4. \A u \in Threads : Handling(u)' => u = t \/ (Handling(u) /\ conn'[u] = conn[u])
    <3>1. pc' = [pc EXCEPT ![t] = "construct"]
      BY <1>12 DEF HandleAccept
    <3>2. \A u \in Threads : u # t => pc'[u] = pc[u] /\ conn'[u] = conn[u]
      BY <2>1, <3>1, SMT
    <3> QED
      BY <3>2
  <2>5. conn'[t] = r.client
    BY <2>1, SMT
  <2> QED
    BY <2>1, <2>2, <2>3, <2>4, <2>5, SMT
<1>13. ASSUME NEW t \in Threads, Callback(t) PROVE HandsAreDistinct'
  BY <1>13, SMT DEF Callback, socketVars, closeVars
<1>14. ASSUME NEW t \in Threads, ThreadExits(t) PROVE HandsAreDistinct'
  BY <1>14, SMT DEF ThreadExits, socketVars, clientVars, closeVars
<1>15. ASSUME NEW c \in Clients, ClientConnects(c) PROVE HandsAreDistinct'
  BY <1>15, SMT DEF ClientConnects, socketVars, closeVars
<1>16. ASSUME NEW c \in Clients, AcceptCompletes(c) PROVE HandsAreDistinct'
  BY <1>16, SMT DEF AcceptCompletes, closeVars
<1>17. ASSUME NEW g \in armed, AcceptFails(g) PROVE HandsAreDistinct'
  BY <1>17, SMT DEF AcceptFails, clientVars, closeVars
<1>18. CASE UNCHANGED vars
  BY <1>18, SMT DEF vars, socketVars, clientVars, closeVars
<1> QED
  BY <1>1, <1>2, <1>3, <1>4, <1>5, <1>6, <1>7, <1>8, <1>9, <1>10, <1>11, <1>12,
     <1>13, <1>14, <1>15, <1>16, <1>17, <1>18
     DEF Next, MainRuns, ThreadRuns, Rearm, SomeAcceptCompletes

-----------------------------------------------------------------------------

\* The inductive invariant: what the theorems below need of a reachable state.
IndInv ==
  /\ TypeOK /\ Lifecycle /\ AcceptBaton
  /\ AcceptorInHand /\ ArmedAcceptorIsCurrent
  /\ ClosedIsStopped /\ QuietAfterClosed
  /\ ErrorsHaveCauses /\ ChainUnbroken
  /\ HandsAreDistinct

\* The inductive invariant holds of the server main.cpp constructs.
LEMMA InitIndInv == Init => IndInv
<1> SUFFICES ASSUME Init PROVE IndInv
  OBVIOUS
<1> USE ConstantsAssumption DEF Init, Executors, Arming, InStartAccept, Handling
<1>1. TypeOK
  <2>1. pc \in [Executors -> Locations] /\ pc[Main] = "ready"
    BY SMT DEF Locations
  <2>2. /\ peer \in [Clients -> Peers]
        /\ status_ \in Statuses
        /\ stopped \in BOOLEAN /\ alive \in BOOLEAN
    BY DEF Peers, Statuses
  <2> QED
    BY <2>1, <2>2, SMT DEF TypeOK
<1>2. Lifecycle /\ AcceptBaton
  BY SMT DEF Lifecycle, AcceptBaton
<1>3. AcceptorInHand /\ ArmedAcceptorIsCurrent
  BY SMT DEF AcceptorInHand, ArmedAcceptorIsCurrent
<1>4. ClosedIsStopped /\ QuietAfterClosed
  BY SMT DEF ClosedIsStopped, QuietAfterClosed
<1>5. ErrorsHaveCauses /\ ChainUnbroken /\ HandsAreDistinct
  BY SMT DEF ErrorsHaveCauses, ChainUnbroken, HandsAreDistinct
<1> QED
  BY <1>1, <1>2, <1>3, <1>4, <1>5 DEF IndInv

\* Every step keeps the inductive invariant.
LEMMA NextIndInv == IndInv /\ [Next]_vars => IndInv'
BY NextTypeOK, NextLifecycle, NextBaton, NextInHand, NextCurrent, NextQuiet,
   NextErrors, NextUnbroken, NextHands DEF IndInv

\* The inductive invariant holds in every reachable state.
THEOREM Invariance == Spec => []IndInv
<1>1. Init => IndInv
  BY InitIndInv
<1>2. IndInv /\ [Next]_vars => IndInv'
  BY NextIndInv
<1> QED
  BY <1>1, <1>2, PTL DEF Spec

\* For every number of threads and clients the server's state has its type; in
\* particular the closed callback never runs more often than stop() is called.
THEOREM TypeCorrect == Spec => []TypeOK
BY Invariance, PTL DEF IndInv

\* start_tcp_accept writes acceptor_ and status_ with no lock.  For every
\* number of threads no two of them are ever inside it at once.
THEOREM AcceptIsExclusive == Spec => []AcceptBaton
BY Invariance, PTL DEF IndInv

\* Overwriting acceptor_ never aborts a waiting accept.
THEOREM NoAcceptAborted == Spec => []ArmedAcceptorIsCurrent
BY Invariance, PTL DEF IndInv

\* On a platform that can bind the port again, with a host name and no failed
\* accept, a running server always has an accept waiting or on its way.
THEOREM AcceptChainSurvives == Spec => []ChainUnbroken
BY Invariance, PTL DEF IndInv

\* No accept handler runs once the game was told that the server closed.
THEOREM ClosedIsQuiet == Spec => []QuietAfterClosed
BY Invariance, PTL DEF IndInv

-----------------------------------------------------------------------------

\* The server main.cpp constructs is an initial state of the dispatch.
LEMMA DispatchStarts == Init => Dispatch!DispatchInit
BY ConstantsAssumption, SMT DEF Init, Dispatch!DispatchInit, Worker, Phase, Executors

\* Who is inside the callback, and which clients were served.
Served(c) == peer[c] \in {"reading", "refused"}

DispatchSame ==
  /\ \A t \in Threads : pc'[t] = "callback" <=> pc[t] = "callback"
  /\ \A t \in Threads : pc[t] = "callback" => conn'[t] = conn[t]
  /\ \A c \in Clients : Served(c)' <=> Served(c)

\* A step that leaves both alone is a stutter of the dispatch.
LEMMA DispatchStutters == DispatchSame => UNCHANGED Dispatch!dispatchVars
<1> SUFFICES ASSUME DispatchSame PROVE UNCHANGED Dispatch!dispatchVars
  OBVIOUS
<1>1. Worker' = Worker
  BY Zenon DEF DispatchSame, Worker
<1>2. Phase' = Phase
  BY <1>1, Zenon DEF DispatchSame, Phase, Served
<1> QED
  BY <1>1, <1>2 DEF Dispatch!dispatchVars

\* Every step of the server is a step of the dispatch or a stutter: arming the
\* next accept is what lets a thread enter the callback, leaving the callback
\* finishes, everything else is invisible to the game.
LEMMA DispatchSteps ==
  IndInv /\ [Next]_vars => [Dispatch!DispatchNext]_(Dispatch!dispatchVars)
<1> SUFFICES ASSUME IndInv, [Next]_vars
             PROVE  Dispatch!DispatchNext \/ UNCHANGED Dispatch!dispatchVars
  OBVIOUS
<1> USE ConstantsAssumption DEF Executors
<1> DEFINE Goal == Dispatch!DispatchNext \/ UNCHANGED Dispatch!dispatchVars
<1>0. TypeOK /\ Lifecycle /\ HandsAreDistinct
  BY DEF IndInv
<1>1. ASSUME NEW x \in Executors, ConstructAcceptor(x) PROVE Goal
  <2>1. DispatchSame
    BY <1>0, <1>1, SMT DEF DispatchSame, Served, TypeOK, Lifecycle, Goto,
       Arming, ConstructAcceptor, clientVars, closeVars
  <2> QED
    BY <2>1, DispatchStutters
<1>2. ASSUME NEW x \in Executors, StartAcceptThrows(x) PROVE Goal
  <2>1. DispatchSame
    BY <1>0, <1>2, SMT DEF DispatchSame, Served, TypeOK, Lifecycle, Goto,
       Arming, StartAcceptThrows, socketVars, clientVars, closeVars
  <2> QED
    BY <2>1, DispatchStutters
<1>3. ASSUME NEW x \in Executors, StoreAcceptor(x) PROVE Goal
  <2>1. DispatchSame
    BY <1>0, <1>3, SMT DEF DispatchSame, Served, TypeOK, Lifecycle, Goto,
       Arming, StoreAcceptor, clientVars, closeVars
  <2> QED
    BY <2>1, DispatchStutters
<1>4. ASSUME NEW x \in Executors, Arm(x) PROVE Goal
  <2>1. CASE x = Main
    <3>1. DispatchSame
      BY <1>0, <1>4, <2>1, SMT DEF DispatchSame, Served, TypeOK, Goto, Arm, clientVars
    <3> QED
      BY <3>1, DispatchStutters
  <2>2. CASE x \in Threads /\ x # Main
    <3> DEFINE c == conn[x]
    <3>1. pc[x] = "arm" /\ conn' = conn /\ peer' = peer
          /\ pc' = [pc EXCEPT ![x] = "callback"]
      BY <1>4, <2>2 DEF Arm, Goto, clientVars
    <3>2. /\ c \in Clients /\ peer[c] = "accepted"
          /\ \A u \in Threads : u # x => Worker[u] # c
          /\ Worker[x] = NoClient
      BY <1>0, <2>2, <3>1, SMT DEF HandsAreDistinct, Handling, Arming, Worker
    <3>3. Worker' = [u \in Threads |-> IF u = x THEN c ELSE Worker[u]]
      <4>1. pc'[x] = "callback" /\ \A u \in Threads : u # x => pc'[u] = pc[u]
        BY <1>0, <2>2, <3>1, SMT DEF TypeOK
      <4> QED
        BY <3>1, <4>1, Zenon DEF Worker
    <3>6. Worker' = [Worker EXCEPT ![x] = c]
      BY <3>3, Zenon DEF Worker
    <3>4. Phase[c] = "away"
      BY <2>2, <3>2, SMT DEF Phase
    <3>5. Phase' = [Phase EXCEPT ![c] = "serving"]
      <4>1. /\ \A u \in Threads : Worker'[u] = IF u = x THEN c ELSE Worker[u]
            /\ \A d \in Clients : Served(d)' <=> Served(d)
        BY <3>1, <3>3, Zenon DEF Served
      <4>3. ~Served(c)
        BY <3>2 DEF Served
      <4>2. Phase' = [d \in Clients |-> IF d = c THEN "serving" ELSE Phase[d]]
        <5>1. Phase = [d \in Clients |-> IF Served(d) THEN "served"
                 ELSE IF \E u \in Threads : Worker[u] = d THEN "serving" ELSE "away"]
          BY DEF Phase, Served
        <5>2. Phase' = [d \in Clients |-> IF Served(d)' THEN "served"
                 ELSE IF \E u \in Threads : Worker'[u] = d THEN "serving" ELSE "away"]
          BY DEF Phase, Served
        <5>3. \A d \in Clients : (\E u \in Threads : Worker'[u] = d)
                 <=> (d = c \/ \E u \in Threads : Worker[u] = d)
          BY <2>2, <3>2, <4>1, NoClient \notin Clients, Zenon
        <5> QED
          BY <4>1, <4>3, <5>1, <5>2, <5>3, Zenon
      <4> QED
        BY <4>2, Zenon DEF Phase
    <3> QED
      BY <2>2, <3>2, <3>6, <3>4, <3>5 DEF Dispatch!DispatchNext, Dispatch!Deliver
  <2> QED
    BY <2>1, <2>2
<1>5. CASE SpawnPool
  <2>1. DispatchSame
    BY <1>0, <1>5, SMT DEF DispatchSame, Served, TypeOK, Lifecycle, Goto,
       Arming, SpawnPool, socketVars, clientVars, closeVars
  <2> QED
    BY <2>1, DispatchStutters
<1>6. CASE StopJoined
  <2>1. DispatchSame
    BY <1>0, <1>6, SMT DEF DispatchSame, Served, TypeOK, Lifecycle, Goto,
       Arming, StopJoined, socketVars, clientVars
  <2> QED
    BY <2>1, DispatchStutters
<1>7. CASE WaitReturns
  <2>1. DispatchSame
    BY <1>0, <1>7, SMT DEF DispatchSame, Served, TypeOK, Lifecycle, Goto,
       Arming, WaitReturns, socketVars, clientVars, closeVars
  <2> QED
    BY <2>1, DispatchStutters
<1>8. CASE Start
  <2>1. DispatchSame
    BY <1>0, <1>8, SMT DEF DispatchSame, Served, TypeOK, Lifecycle, Goto,
       Arming, Start, socketVars, clientVars, closeVars
  <2> QED
    BY <2>1, DispatchStutters
<1>9. CASE Stop
  <2>1. DispatchSame
    BY <1>0, <1>9, SMT DEF DispatchSame, Served, TypeOK, Lifecycle, Goto,
       Arming, Stop, socketVars, clientVars
  <2> QED
    BY <2>1, DispatchStutters
<1>10. CASE Wait
  <2>1. DispatchSame
    BY <1>0, <1>10, SMT DEF DispatchSame, Served, TypeOK, Lifecycle, Goto,
       Arming, Wait, socketVars, clientVars, closeVars
  <2> QED
    BY <2>1, DispatchStutters
<1>11. ASSUME NEW t \in Threads, HandleAcceptError(t) PROVE Goal
  <2>1. DispatchSame
    BY <1>0, <1>11, SMT DEF DispatchSame, Served, TypeOK, Lifecycle, Goto,
       Arming, HandleAcceptError, clientVars, closeVars
  <2> QED
    BY <2>1, DispatchStutters
<1>12. ASSUME NEW t \in Threads, HandleAccept(t) PROVE Goal
  <2>1. DispatchSame
    BY <1>0, <1>12, SMT DEF DispatchSame, Served, TypeOK, Lifecycle, Goto,
       Arming, HandleAccept, closeVars
  <2> QED
    BY <2>1, DispatchStutters
<1>13. ASSUME NEW t \in Threads, Callback(t) PROVE Goal
  <2> DEFINE c == conn[t]
  <2>1. pc[t] = "callback" /\ pc' = [pc EXCEPT ![t] = "idle"]
        /\ conn' = [conn EXCEPT ![t] = NoClient]
    BY <1>13 DEF Callback, Goto
  <2>2. c \in Clients /\ Worker[t] = c /\ \A u \in Threads : u # t => Worker[u] # c
    BY <1>0, <2>1, SMT DEF HandsAreDistinct, Handling, Worker
  <2>3. Worker' = [u \in Threads |-> IF u = t THEN NoClient ELSE Worker[u]]
    <3>1. pc'[t] = "idle" /\ \A u \in Threads : u # t => pc'[u] = pc[u] /\ conn'[u] = conn[u]
      BY <1>0, <2>1, SMT DEF TypeOK
    <3> QED
      BY <3>1, Zenon DEF Worker
  <2>6. Worker' = [Worker EXCEPT ![t] = NoClient]
    BY <2>3, Zenon DEF Worker
  <2>4. peer'[c] \in {"reading", "refused"} /\ \A d \in Clients : d # c => peer'[d] = peer[d]
    <3>1. PICK admitted \in BOOLEAN :
            peer' = [peer EXCEPT ![c] = IF admitted THEN "reading" ELSE "refused"]
      BY <1>13 DEF Callback
    <3>2. (IF admitted THEN "reading" ELSE "refused") \in {"reading", "refused"}
      OBVIOUS
    <3>3. peer'[c] = (IF admitted THEN "reading" ELSE "refused")
          /\ \A d \in Clients : d # c => peer'[d] = peer[d]
      BY <1>0, <2>2, <3>1, Zenon DEF TypeOK
    <3> QED
      BY <3>2, <3>3
  <2>5. Phase' = [Phase EXCEPT ![c] = "served"]
    <3>1. \A u \in Threads : Worker'[u] = IF u = t THEN NoClient ELSE Worker[u]
      BY <2>3, Zenon
    <3>2. NoClient \notin Clients
      OBVIOUS
    <3>3. Phase' = [d \in Clients |-> IF d = c THEN "served" ELSE Phase[d]]
      <4>1. Phase = [d \in Clients |-> IF Served(d) THEN "served"
               ELSE IF \E u \in Threads : Worker[u] = d THEN "serving" ELSE "away"]
        BY DEF Phase, Served
      <4>2. Phase' = [d \in Clients |-> IF Served(d)' THEN "served"
               ELSE IF \E u \in Threads : Worker'[u] = d THEN "serving" ELSE "away"]
        BY DEF Phase, Served
      <4>3. \A d \in Clients : d # c =>
               /\ (\E u \in Threads : Worker'[u] = d) <=> (\E u \in Threads : Worker[u] = d)
               /\ Served(d)' <=> Served(d)
        <5>1. \A d \in Clients : d # c => (Served(d)' <=> Served(d))
          BY <2>4, Zenon DEF Served
        <5> QED
          BY <2>2, <3>1, <3>2, <5>1, Zenon
      <4> QED
        BY <2>4, <4>1, <4>2, <4>3 DEF Served
    <3> QED
      BY <3>3, Zenon DEF Phase
  <2> QED
    BY <2>2, <2>6, <2>5 DEF Dispatch!DispatchNext, Dispatch!Finish
<1>14. ASSUME NEW t \in Threads, ThreadExits(t) PROVE Goal
  <2>1. DispatchSame
    BY <1>0, <1>14, SMT DEF DispatchSame, Served, TypeOK, Lifecycle, Goto,
       Arming, ThreadExits, socketVars, clientVars, closeVars
  <2> QED
    BY <2>1, DispatchStutters
<1>15. ASSUME NEW c \in Clients, ClientConnects(c) PROVE Goal
  <2>1. DispatchSame
    BY <1>0, <1>15, SMT DEF DispatchSame, Served, TypeOK, Lifecycle, Goto,
       Arming, ClientConnects, socketVars, closeVars
  <2> QED
    BY <2>1, DispatchStutters
<1>16. ASSUME NEW c \in Clients, AcceptCompletes(c) PROVE Goal
  <2>1. DispatchSame
    BY <1>0, <1>16, SMT DEF DispatchSame, Served, TypeOK, Lifecycle, Goto,
       Arming, AcceptCompletes, closeVars
  <2> QED
    BY <2>1, DispatchStutters
<1>17. ASSUME NEW g \in armed, AcceptFails(g) PROVE Goal
  <2>1. DispatchSame
    BY <1>0, <1>17, SMT DEF DispatchSame, Served, TypeOK, Lifecycle, Goto,
       Arming, AcceptFails, clientVars, closeVars
  <2> QED
    BY <2>1, DispatchStutters
<1>18. CASE UNCHANGED vars
  <2>1. DispatchSame
    BY <1>18 DEF DispatchSame, Served, vars, clientVars
  <2> QED
    BY <2>1, DispatchStutters
<1> QED
  BY <1>1, <1>2, <1>3, <1>4, <1>5, <1>6, <1>7, <1>8, <1>9, <1>10, <1>11, <1>12,
     <1>13, <1>14, <1>15, <1>16, <1>17, <1>18
     DEF Next, MainRuns, ThreadRuns, Rearm, SomeAcceptCompletes

\* The server implements the abstract dispatch: for every number of threads
\* and clients, every accepted client is given to the game at most once and by
\* one thread.
THEOREM DispatchImplemented == Spec => ImplementsDispatch
<1>1. Init => Dispatch!DispatchInit
  BY DispatchStarts
<1>2. IndInv /\ [Next]_vars => [Dispatch!DispatchNext]_(Dispatch!dispatchVars)
  BY DispatchSteps
<1> QED
  BY <1>1, <1>2, Invariance, PTL DEF Spec, ImplementsDispatch, Dispatch!DispatchSpec

-----------------------------------------------------------------------------
(* What the dispatch promises, and so the server keeps.                    *)

\* What ServedByOne rests on.
DispatchInv ==
  /\ Dispatch!DispatchTypeOK
  /\ Dispatch!ServedByOne

LEMMA DispatchKeeps ==
  ASSUME DispatchInv, [Dispatch!DispatchNext]_(Dispatch!dispatchVars)
  PROVE  /\ DispatchInv'
         /\ \A c \in Clients :
              /\ Phase[c] = "serving" => Phase'[c] \in {"serving", "served"}
              /\ Phase[c] = "served" => Phase'[c] = "served"
<1> USE DEF DispatchInv, Dispatch!DispatchTypeOK, Dispatch!ServedByOne, Dispatch!Phases
<1>1. NoClient \notin Clients
  BY ConstantsAssumption
<1>2. ASSUME NEW t \in Threads, NEW c \in Clients, Dispatch!Deliver(t, c)
      PROVE  /\ DispatchInv'
             /\ \A d \in Clients :
                  /\ Phase[d] = "serving" => Phase'[d] \in {"serving", "served"}
                  /\ Phase[d] = "served" => Phase'[d] = "served"
  <2>1. /\ Worker[t] = NoClient /\ Phase[c] = "away"
        /\ Worker' = [Worker EXCEPT ![t] = c]
        /\ Phase' = [Phase EXCEPT ![c] = "serving"]
    BY <1>2 DEF Dispatch!Deliver
  <2>2. \A s \in Threads : Worker[s] # c
    BY <2>1
  <2> QED
    BY <1>1, <2>1, <2>2
<1>3. ASSUME NEW t \in Threads, Dispatch!Finish(t)
      PROVE  /\ DispatchInv'
             /\ \A d \in Clients :
                  /\ Phase[d] = "serving" => Phase'[d] \in {"serving", "served"}
                  /\ Phase[d] = "served" => Phase'[d] = "served"
  <2>1. /\ Worker[t] # NoClient /\ Worker' = [Worker EXCEPT ![t] = NoClient]
        /\ Phase' = [Phase EXCEPT ![Worker[t]] = "served"]
    BY <1>3 DEF Dispatch!Finish
  <2>2. /\ Worker[t] \in Clients /\ Phase[Worker[t]] = "serving"
        /\ \A s \in Threads : Worker[s] = Worker[t] => s = t
    BY <2>1
  <2> QED
    BY <1>1, <2>1, <2>2
<1>4. CASE UNCHANGED Dispatch!dispatchVars
  BY <1>4 DEF Dispatch!dispatchVars
<1> QED
  BY <1>2, <1>3, <1>4 DEF Dispatch!DispatchNext

LEMMA DispatchInvariance == Dispatch!DispatchSpec => []DispatchInv
<1>1. Dispatch!DispatchInit => DispatchInv
  BY ConstantsAssumption
     DEF Dispatch!DispatchInit, DispatchInv, Dispatch!DispatchTypeOK, Dispatch!ServedByOne,
         Dispatch!Phases
<1> QED
  BY <1>1, DispatchKeeps, PTL DEF Dispatch!DispatchSpec

\* Two threads never serve one client, and every client being served is with a
\* thread, whatever the pool: what LoginService takes for granted of worker.
THEOREM ClientsAreServedByOne == Spec => []Dispatch!ServedByOne
BY DispatchImplemented, DispatchInvariance, PTL DEF ImplementsDispatch, DispatchInv

\* The game is given no client twice.
THEOREM ClientsAreGivenOnce == Spec => Dispatch!GivenOnce
<1>1. DispatchInv /\ [Dispatch!DispatchNext]_(Dispatch!dispatchVars) =>
        \A c \in Clients :
          /\ Phase[c] = "serving" => Phase'[c] \in {"serving", "served"}
          /\ Phase[c] = "served" => Phase'[c] = "served"
  BY DispatchKeeps
<1> QED
  BY <1>1, DispatchImplemented, DispatchInvariance, PTL
     DEF ImplementsDispatch, Dispatch!DispatchSpec, Dispatch!GivenOnce

=============================================================================
