--------------------------- MODULE AcceptDispatch ---------------------------
(***************************************************************************)
(* What the network layer promises the game layer about new clients, with  *)
(* no sockets in it: every accepted client is given to the game at most    *)
(* once, by one thread of the io_context pool, and a thread serves one     *)
(* client at a time.  Two threads may well serve two clients at once: the  *)
(* next accept is armed before the game is called, and nothing serialises  *)
(* the handlers.                                                           *)
(*                                                                         *)
(* AsioServer is shown to implement this specification; LoginService is    *)
(* built on top of its two actions.                                        *)
(***************************************************************************)

CONSTANTS
  Threads,   \* the threads of io_context_threads_pool_
  Clients,   \* the remote peers that may connect
  NoClient   \* "the thread is not inside the accepted callback"

ASSUME NoClientAssumption == NoClient \notin Clients

VARIABLES
  worker,    \* worker[t]: the client thread t has in the accepted callback
  phase      \* phase[c]: how far client c got

dispatchVars == <<worker, phase>>

Phases == {"away", "serving", "served"}

DispatchTypeOK ==
  /\ worker \in [Threads -> Clients \cup {NoClient}]
  /\ phase \in [Clients -> Phases]

DispatchInit ==
  /\ worker = [t \in Threads |-> NoClient]
  /\ phase = [c \in Clients |-> "away"]

\* Thread t enters the accepted callback with the connection of client c.
Deliver(t, c) ==
  /\ worker[t] = NoClient
  /\ phase[c] = "away"
  /\ worker' = [worker EXCEPT ![t] = c]
  /\ phase' = [phase EXCEPT ![c] = "serving"]

\* Thread t leaves the accept handler.
Finish(t) ==
  /\ worker[t] # NoClient
  /\ phase' = [phase EXCEPT ![worker[t]] = "served"]
  /\ worker' = [worker EXCEPT ![t] = NoClient]

DispatchNext ==
  \E t \in Threads : Finish(t) \/ \E c \in Clients : Deliver(t, c)

DispatchSpec == DispatchInit /\ [][DispatchNext]_dispatchVars

-----------------------------------------------------------------------------
(* What follows.                                                           *)

\* The clients being served are those in the callback of a thread, and no two
\* threads have the same.
ServedByOne ==
  /\ \A c \in Clients : phase[c] = "serving" <=> \E t \in Threads : worker[t] = c
  /\ \A s, t \in Threads : worker[s] = worker[t] => worker[s] = NoClient \/ s = t

\* The game is given a client once: no client is taken back, nor given again.
GivenOnce ==
  [][\A c \in Clients :
       /\ phase[c] = "serving" => phase'[c] \in {"serving", "served"}
       /\ phase[c] = "served" => phase'[c] = "served"]_dispatchVars

=============================================================================
