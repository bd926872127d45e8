----------------------------- MODULE AsioServer -----------------------------
(***************************************************************************)
(* AsioServer (src/network/asio_server.cpp): the accept chain, the pool of *)
(* io_context threads and start / stop / wait.                             *)
(*                                                                         *)
(* One call of start_tcp_accept is cut where another thread or the kernel  *)
(* can get in between: construct the acceptor, store it in acceptor_       *)
(* (which destroys the previous one), arm the asynchronous accept.  The    *)
(* same three steps run on the main thread for start() and on a pool       *)
(* thread for handle_tcp_accept().                                         *)
(*                                                                         *)
(* The boost and operating system side is external and modelled from how   *)
(* the code uses it: listening sockets and their queues, the completion    *)
(* of an accept, io_context::stop and thread::join.                        *)
(***************************************************************************)
EXTENDS Naturals, FiniteSets

CONSTANTS
  Threads,    \* the threads start_io_context_thread_pool creates
  Main,       \* the thread that owns the server and calls its methods
  Clients,    \* remote peers; each connects at most once
  NoClient,   \* the result of a failed accept; also "no client in hand"
  Platforms,  \* the platforms and configured addresses considered
  MaxFaults,  \* bound: accepts the operating system fails
  MaxStops    \* bound: calls of stop(), the destructor's included

ASSUME ConstantsAssumption ==
  /\ Main \notin Threads
  /\ NoClient \notin Clients
  /\ Platforms \subseteq [rebind : BOOLEAN, literal : BOOLEAN]
  /\ MaxFaults \in Nat
  /\ MaxStops \in Nat

Executors == Threads \cup {Main}

VARIABLES
  env,        \* env.rebind: the platform lets a second socket listen on a
              \*   port while a first one still does;
              \* env.literal: the configured ip is a numeric address
  status_,    \* ServerStatus
  acceptor_,  \* the acceptor object stored in the server, 0 when null
  made,       \* number of acceptor objects constructed so far
  built,      \* built[x]: acceptor executor x constructed and not yet stored
  listening,  \* acceptors whose socket listens
  armed,      \* acceptors with an async_accept waiting for a peer
  completed,  \* accepts that finished and whose handler has not started
  pc,         \* where every executor is
  conn,       \* conn[t]: the client of the handler thread t runs
  peer,       \* how far every client got
  backlog,    \* backlog[c]: the acceptor in whose queue client c is
  stopped,    \* io_context_->stop() was called
  closed,     \* calls of on_server_closed_callback_
  stops,      \* calls of stop() so far
  faults,     \* accepts failed by the operating system so far
  alive       \* FALSE once an exception nobody catches ended the process

socketVars == <<acceptor_, made, built, listening, armed, completed>>
clientVars == <<conn, peer, backlog>>
closeVars  == <<stopped, closed, stops>>
vars == <<env, status_, socketVars, pc, clientVars, closeVars, faults, alive>>

Statuses  == {"kNone", "kRunning", "kStopped", "kError"}
Peers     == {"away", "queued", "accepted", "reading", "refused", "lost"}
Arming    == {"construct", "store", "arm"}
Locations == Arming \cup {"ready", "spawn", "join", "wait",
                          "unborn", "idle", "callback", "exited"}
Results   == [on : Nat, client : Clients \cup {NoClient}]

-----------------------------------------------------------------------------

\* The server main.cpp builds: nothing started, no thread, no socket.
Init ==
  /\ env \in Platforms
  /\ status_ = "kNone"
  /\ acceptor_ = 0 /\ made = 0 /\ built = [x \in Executors |-> 0]
  /\ listening = {} /\ armed = {} /\ completed = {}
  /\ pc = [x \in Executors |-> IF x = Main THEN "ready" ELSE "unborn"]
  /\ conn = [t \in Threads |-> NoClient]
  /\ peer = [c \in Clients |-> "away"]
  /\ backlog = [c \in Clients |-> 0]
  /\ stopped = FALSE /\ closed = 0 /\ stops = 0
  /\ faults = 0
  /\ alive = TRUE

\* Every pool thread has returned from run(), or was never created.
PoolJoined == \A t \in Threads : pc[t] \in {"unborn", "exited"}

InStartAccept(x) == pc[x] \in Arming

Goto(x, l) == pc' = [pc EXCEPT ![x] = l]

-----------------------------------------------------------------------------
(* start_tcp_accept, by the main thread or by a pool thread.               *)

\* The acceptor constructor opens, binds and listens.
ConstructAcceptor(x) ==
  /\ pc[x] = "construct"
  /\ listening = {} \/ env.rebind
  /\ made' = made + 1
  /\ built' = [built EXCEPT ![x] = made + 1]
  /\ listening' = listening \cup {made + 1}
  /\ Goto(x, "store")
  /\ UNCHANGED <<env, status_, acceptor_, armed, completed, clientVars,
                 closeVars, faults, alive>>

\* ... and cannot when the previous acceptor has the port.  That is one of the
\* things that make start_tcp_accept throw: a name that does not resolve, a port
\* that somebody else has, no descriptor left for the acceptor or for the socket
\* of the connection.  Nothing catches the exception, in io_context::run() nor in
\* main: the process terminates.
StartAcceptThrows(x) ==
  /\ InStartAccept(x)
  /\ alive' = FALSE
  /\ UNCHANGED <<env, status_, socketVars, pc, clientVars, closeVars, faults>>

\* A mutated form: the new acceptor is kept in a local that shadows the member.
StoreAcceptorInLocal(x) ==
  /\ pc[x] = "store"
  /\ Goto(x, "arm")
  /\ UNCHANGED <<env, status_, socketVars, clientVars, closeVars, faults, alive>>

\* acceptor_ = ...: the previous acceptor object is destroyed.  Its socket
\* closes, an accept waiting on it is aborted, and the peers in its queue are
\* reset.
StoreAcceptor(x) ==
  /\ pc[x] = "store"
  /\ acceptor_' = built[x]
  /\ listening' = listening \ {acceptor_}
  /\ armed' = armed \ {acceptor_}
  /\ completed' = completed \cup
       {[on |-> g, client |-> NoClient] : g \in armed \cap {acceptor_}}
  /\ peer' = [c \in Clients |->
       IF peer[c] = "queued" /\ backlog[c] = acceptor_ THEN "lost"
                                                       ELSE peer[c]]
  /\ Goto(x, "arm")
  /\ UNCHANGED <<env, status_, made, built, conn, backlog, closeVars, faults,
                 alive>>

\* A new AsioTcpConnection is constructed and async_accept started on its
\* socket.  The constructor opens the socket when the ip is a numeric address,
\* and an accept into an open socket completes at once with already_open.
Arm(x) ==
  /\ pc[x] = "arm"
  /\ IF env.literal
     THEN /\ completed' = completed \cup {[on |-> acceptor_, client |-> NoClient]}
          /\ UNCHANGED armed
     ELSE /\ armed' = armed \cup {acceptor_}
          /\ UNCHANGED completed
  /\ status_' = "kRunning"
  /\ Goto(x, IF x = Main THEN "spawn" ELSE "callback")
  /\ UNCHANGED <<env, acceptor_, made, built, listening, clientVars, closeVars,
                 faults, alive>>

-----------------------------------------------------------------------------
(* The methods main calls.                                                 *)

\* A mutated form: start() without its "already started" test.
StartAgain ==
  /\ pc[Main] = "ready"
  /\ Goto(Main, "construct")
  /\ UNCHANGED <<env, status_, socketVars, clientVars, closeVars, faults, alive>>

\* start(): returns at once when the server already runs.
Start ==
  /\ pc[Main] = "ready"
  /\ status_ # "kRunning"
  /\ Goto(Main, "construct")
  /\ UNCHANGED <<env, status_, socketVars, clientVars, closeVars, faults, alive>>

\* start_io_context_thread_pool().
SpawnPool ==
  /\ pc[Main] = "spawn"
  /\ pc' = [x \in Executors |-> IF x = Main THEN "ready" ELSE "idle"]
  /\ UNCHANGED <<env, status_, socketVars, clientVars, closeVars, faults, alive>>

\* A mutated form: stop() joins without stopping the io_context.
StopNoSignal ==
  /\ pc[Main] = "ready"
  /\ stops < MaxStops
  /\ status_ # "kStopped"
  /\ stops' = stops + 1
  /\ Goto(Main, "join")
  /\ UNCHANGED <<env, status_, socketVars, clientVars, stopped, closed, faults,
                 alive>>

\* stop(): returns at once when the status is kStopped.
Stop ==
  /\ pc[Main] = "ready"
  /\ stops < MaxStops
  /\ status_ # "kStopped"
  /\ stopped' = TRUE
  /\ stops' = stops + 1
  /\ Goto(Main, "join")
  /\ UNCHANGED <<env, status_, socketVars, clientVars, closed, faults, alive>>

\* A mutated form: the game is told before the threads are joined.
CloseBeforeJoin ==
  /\ pc[Main] = "join"
  /\ closed' = closed + 1
  /\ Goto(Main, "ready")
  /\ UNCHANGED <<env, status_, socketVars, clientVars, stopped, stops, faults,
                 alive>>

\* A mutated form: the closed callback sits inside the loop over the threads.
CloseOncePerThread ==
  /\ pc[Main] = "join"
  /\ PoolJoined
  /\ closed' = closed + Cardinality(Threads)
  /\ Goto(Main, "ready")
  /\ UNCHANGED <<env, status_, socketVars, clientVars, stopped, stops, faults,
                 alive>>

\* The joins of stop() have returned: the closed callback runs.
StopJoined ==
  /\ pc[Main] = "join"
  /\ PoolJoined
  /\ closed' = closed + 1
  /\ Goto(Main, "ready")
  /\ UNCHANGED <<env, status_, socketVars, clientVars, stopped, stops, faults,
                 alive>>

\* wait() joins every thread of the pool.
Wait ==
  /\ pc[Main] = "ready"
  /\ Goto(Main, "wait")
  /\ UNCHANGED <<env, status_, socketVars, clientVars, closeVars, faults, alive>>

WaitReturns ==
  /\ pc[Main] = "wait"
  /\ PoolJoined
  /\ Goto(Main, "ready")
  /\ UNCHANGED <<env, status_, socketVars, clientVars, closeVars, faults, alive>>

-----------------------------------------------------------------------------
(* The pool threads.                                                       *)

\* handle_tcp_accept with an error returns without starting another accept.
HandleAcceptError(t) ==
  /\ pc[t] = "idle" /\ ~stopped
  /\ \E r \in completed :
       /\ r.client = NoClient
       /\ completed' = completed \ {r}
  /\ UNCHANGED <<env, status_, acceptor_, made, built, listening, armed, pc,
                 clientVars, closeVars, faults, alive>>

\* A mutated form: the handler forgets to start the next accept.
HandleAcceptNoRearm(t) ==
  /\ pc[t] = "idle" /\ ~stopped
  /\ \E r \in completed :
       /\ r.client # NoClient
       /\ completed' = completed \ {r}
       /\ conn' = [conn EXCEPT ![t] = r.client]
  /\ Goto(t, "callback")
  /\ UNCHANGED <<env, status_, acceptor_, made, built, listening, armed, peer,
                 backlog, closeVars, faults, alive>>

\* A mutated form: the completion runs its handler a second time.
HandleAcceptKeepingCompletion(t) ==
  /\ pc[t] = "idle" /\ ~stopped
  /\ \E r \in completed :
       /\ r.client # NoClient
       /\ conn' = [conn EXCEPT ![t] = r.client]
  /\ Goto(t, "construct")
  /\ UNCHANGED <<env, status_, socketVars, peer, backlog, closeVars, faults,
                 alive>>

\* handle_tcp_accept with a peer starts the next accept first.
HandleAccept(t) ==
  /\ pc[t] = "idle" /\ ~stopped
  /\ \E r \in completed :
       /\ r.client # NoClient
       /\ completed' = completed \ {r}
       /\ conn' = [conn EXCEPT ![t] = r.client]
  /\ Goto(t, "construct")
  /\ UNCHANGED <<env, status_, acceptor_, made, built, listening, armed, peer,
                 backlog, closeVars, faults, alive>>

\* The game's callback returns; reading starts when it returned true.  When
\* the handler ends, its reference to the connection is dropped.
Callback(t) ==
  /\ pc[t] = "callback"
  /\ \E admitted \in BOOLEAN :
       peer' = [peer EXCEPT ![conn[t]] = IF admitted THEN "reading" ELSE "refused"]
  /\ conn' = [conn EXCEPT ![t] = NoClient]
  /\ Goto(t, "idle")
  /\ UNCHANGED <<env, status_, socketVars, backlog, closeVars, faults, alive>>

\* A stopped io_context makes run() return.
ThreadExits(t) ==
  /\ pc[t] = "idle" /\ stopped
  /\ Goto(t, "exited")
  /\ UNCHANGED <<env, status_, socketVars, clientVars, closeVars, faults, alive>>

-----------------------------------------------------------------------------
(* The clients and the operating system.                                   *)

ClientConnects(c) ==
  /\ peer[c] = "away"
  /\ \E g \in listening : backlog' = [backlog EXCEPT ![c] = g]
  /\ peer' = [peer EXCEPT ![c] = "queued"]
  /\ UNCHANGED <<env, status_, socketVars, pc, conn, closeVars, faults, alive>>

AcceptCompletes(c) ==
  /\ peer[c] = "queued"
  /\ backlog[c] \in armed
  /\ armed' = armed \ {backlog[c]}
  /\ completed' = completed \cup {[on |-> backlog[c], client |-> c]}
  /\ peer' = [peer EXCEPT ![c] = "accepted"]
  /\ UNCHANGED <<env, status_, acceptor_, made, built, listening, pc, conn,
                 backlog, closeVars, faults, alive>>

\* Out of descriptors, or the peer aborted while it was in the queue.
AcceptFails(g) ==
  /\ g \in armed
  /\ faults < MaxFaults
  /\ faults' = faults + 1
  /\ armed' = armed \ {g}
  /\ completed' = completed \cup {[on |-> g, client |-> NoClient]}
  /\ UNCHANGED <<env, status_, acceptor_, made, built, listening, pc,
                 clientVars, closeVars, alive>>

-----------------------------------------------------------------------------

Rearm(x) ==
  ConstructAcceptor(x) \/ StoreAcceptor(x) \/ Arm(x) \/ StartAcceptThrows(x)

MainRuns == Rearm(Main) \/ SpawnPool \/ StopJoined \/ WaitReturns

ThreadRuns(t) ==
  \/ HandleAcceptError(t) \/ HandleAccept(t) \/ Rearm(t)
  \/ Callback(t) \/ ThreadExits(t)

SomeAcceptCompletes == \E c \in Clients : AcceptCompletes(c)

Next ==
  /\ alive
  /\ \/ MainRuns
     \/ Start \/ Stop \/ Wait
     \/ \E t \in Threads : ThreadRuns(t)
     \/ \E c \in Clients : ClientConnects(c)
     \/ SomeAcceptCompletes
     \/ \E g \in armed : AcceptFails(g)

Spec == Init /\ [][Next]_vars

\* A thread inside a function keeps running, an idle thread of the pool picks
\* up a completion, the operating system accepts some queued peer.  Nobody has
\* to connect, to call a method of the server, or to make an accept fail.
Fairness ==
  /\ WF_vars(alive /\ MainRuns)
  /\ \A t \in Threads : WF_vars(alive /\ ThreadRuns(t))
  /\ WF_vars(alive /\ SomeAcceptCompletes)

FairSpec == Spec /\ Fairness

-----------------------------------------------------------------------------
(* Properties.                                                             *)

TypeOK ==
  /\ env \in Platforms
  /\ status_ \in Statuses
  /\ made \in Nat /\ acceptor_ \in 0..made
  /\ built \in [Executors -> 0..made]
  /\ listening \subseteq 1..made /\ armed \in SUBSET Nat
  /\ completed \in SUBSET Results
  /\ pc \in [Executors -> Locations]
  /\ conn \in [Threads -> Clients \cup {NoClient}]
  /\ peer \in [Clients -> Peers]
  /\ backlog \in [Clients -> Nat]
  /\ stopped \in BOOLEAN /\ stops \in 0..MaxStops /\ closed \in 0..stops
  /\ faults \in 0..MaxFaults
  /\ alive \in BOOLEAN

\* The chain of accepts has a single baton.  acceptor_ and status_ are written
\* by start_tcp_accept with no lock, by whichever thread handles a completion;
\* no two executors are ever inside it at once, and nobody is while an accept
\* is waiting or its handler has still to run.
AcceptBaton ==
  /\ \A x, y \in Executors : InStartAccept(x) /\ InStartAccept(y) => x = y
  /\ \A g, h \in armed : g = h
  /\ \A r, s \in completed : r = s
  /\ armed = {} \/ completed = {}
  /\ (\E x \in Executors : InStartAccept(x)) => armed = {} /\ completed = {}

\* An accept only ever waits on the acceptor the server holds, which listens:
\* replacing acceptor_ never aborts a waiting accept.
ArmedAcceptorIsCurrent ==
  \A g \in armed : g = acceptor_ /\ g \in listening

\* The baton is never dropped: once running, the server is always accepting or
\* about to, unless the accept failed, the configured ip is numeric, or the
\* process died.
ChainUnbroken ==
  status_ = "kRunning" /\ alive /\ faults = 0 /\ ~env.literal
    => armed # {} \/ completed # {} \/ \E x \in Executors : InStartAccept(x)

\* When the game has been told that the server closed, no thread is inside an
\* accept handler and none enters one any more.
QuietAfterClosed ==
  closed > 0 => \A t \in Threads : pc[t] \in {"unborn", "idle", "exited"}

\* The worker a thread is to the game, and how far a client got with it.
Worker == [t \in Threads |-> IF pc[t] = "callback" THEN conn[t] ELSE NoClient]

Phase ==
  [c \in Clients |->
     IF peer[c] \in {"reading", "refused"} THEN "served"
     ELSE IF \E t \in Threads : Worker[t] = c THEN "serving" ELSE "away"]

\* The accept chain implements the dispatch of clients to the game: a client
\* is given to the game at most once, by one thread.
Dispatch == INSTANCE AcceptDispatch WITH worker <- Worker, phase <- Phase

ImplementsDispatch == Dispatch!DispatchSpec

\* A call of stop() that started joining the pool returns.
StopReturns == (pc[Main] = "join") ~> (pc[Main] = "ready" \/ ~alive)

\* With a host name configured, a client in a queue does not stay there: it is
\* served, or reset with its acceptor, unless the server is stopped, an accept
\* failed or the process died.
QueueDrains ==
  \A c \in Clients :
    (peer[c] = "queued") ~>
      \/ peer[c] \in {"reading", "refused", "lost"}
      \/ stopped \/ faults > 0 \/ ~alive \/ env.literal

\* What the code's comment says: a client that connected is given to the game
\* (asio_server.cpp:108), as long as the server is neither stopped nor dead.
ClientsReachGame ==
  \A c \in Clients :
    (peer[c] = "queued") ~> (peer[c] \in {"reading", "refused"} \/ stopped \/ ~alive)

=============================================================================
