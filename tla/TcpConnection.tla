---------------------------- MODULE TcpConnection ----------------------------
(***************************************************************************)
(* The status, the closing and the receiving half of one                   *)
(* AsioTcpConnection (asio_tcp_connection.cpp).  Its methods and handlers  *)
(* run on any thread of the io_context pool, with no lock, and are cut at  *)
(* their accesses to status_, socket_ and receive_buffer_.  With a single  *)
(* thread they are serial.                                                 *)
(*                                                                         *)
(* A connection is either accepted, and the server starts the first read,  *)
(* or connected by the program.  What the peer sends is the chunks 1, 2,   *)
(* ..., one for every read the socket completes.                           *)
(***************************************************************************)
EXTENDS Naturals, FiniteSets, Sequences

CONSTANTS
  Threads,
  Pools,        \* the sets of threads the io_context may be run by
  Roles,        \* the ways the connection comes about: "accepted", "connects"
  MaxAttempts,  \* bound: calls of connect and async_connect that go on
  MaxCloses,    \* bound, for each role: calls of close by the program
  MaxChunks     \* bound: chunks the peer sends

ASSUME ConnectionAssumption ==
  /\ IsFiniteSet(Threads) /\ Pools \subseteq SUBSET Threads
  /\ Roles \subseteq {"accepted", "connects"}
  /\ MaxAttempts \in Nat /\ MaxCloses \in [Roles -> Nat] /\ MaxChunks \in Nat

VARIABLES
  role,         \* how this connection came about
  pool,         \* the threads of this process
  status_,      \* ConnectionStatus
  up,           \* socket_ is connected
  connecting,   \* attempts whose async_connect the socket has in hand
  reads,        \* numbers of the async_read_some the socket has in hand
  events,       \* operations that ended and whose handler has not started
  buffer,       \* the chunk receive_buffer_ holds
  pc,           \* where every thread is
  chunk,        \* chunk[t]: the chunk the handle_receive of thread t is about
  received,     \* calls of received_callback_: thread, chunk read, chunk found
  attempts, closes, sent, armed,  \* counts, of what the constants bound; reads
  disconnects   \* calls of disconnected_callback_

setup == <<role, pool>>
counts == <<attempts, closes, sent, armed>>
vars == <<setup, status_, up, connecting, reads, events, buffer, pc, chunk,
          received, counts, disconnects>>

Statuses == {"kNone", "kConnecting", "kConnected", "kDisconnected", "kClosed"}

Event == [of : {"connect", "read"}, op : Nat, ok : BOOLEAN, chunk : Nat]
Failure(kind, n) == [of |-> kind, op |-> n, ok |-> FALSE, chunk |-> 0]

\* An accepted connection is about to be read by the handler that accepted it.
Init ==
  /\ role \in Roles /\ pool \in Pools
  /\ status_ = "kNone"
  /\ up = (role = "accepted")
  /\ connecting = {} /\ reads = {} /\ events = {}
  /\ buffer = 0
  /\ \E acceptor \in pool :
       pc = [t \in Threads |->
               IF role = "accepted" /\ t = acceptor THEN "read" ELSE "idle"]
  /\ chunk = [t \in Threads |-> 0]
  /\ received = <<>>
  /\ attempts = 0 /\ closes = 0 /\ sent = 0 /\ armed = 0
  /\ disconnects = 0

Step(t, from, to) == pc[t] = from /\ pc' = [pc EXCEPT ![t] = to]

NotBusy == status_ \notin {"kConnected", "kConnecting"}

-----------------------------------------------------------------------------
(* Connecting.                                                             *)

\* connect(): blocks; a failure leaves the status alone.
Connect(t) ==
  /\ role = "connects" /\ NotBusy
  /\ attempts < MaxAttempts
  /\ attempts' = attempts + 1
  /\ \/ Step(t, "idle", "setConnected") /\ up' = TRUE
     \/ pc[t] = "idle" /\ UNCHANGED <<pc, up>>
  /\ UNCHANGED <<setup, status_, connecting, reads, events, buffer, chunk, received,
                 closes, sent, armed, disconnects>>

SetConnected(t) ==
  /\ Step(t, "setConnected", "idle")
  /\ status_' = "kConnected"
  /\ UNCHANGED <<setup, up, connecting, reads, events, buffer, chunk, received, counts,
                 disconnects>>

\* async_connect(): the operation is started before the status is set.
AsyncConnect(t) ==
  /\ role = "connects" /\ NotBusy
  /\ Step(t, "idle", "setConnecting")
  /\ attempts < MaxAttempts
  /\ attempts' = attempts + 1
  /\ connecting' = connecting \cup {attempts + 1}
  /\ UNCHANGED <<setup, status_, up, reads, events, buffer, chunk, received, closes,
                 sent, armed, disconnects>>

SetConnecting(t) ==
  /\ Step(t, "setConnecting", "idle")
  /\ status_' = "kConnecting"
  /\ UNCHANGED <<setup, up, connecting, reads, events, buffer, chunk, received, counts,
                 disconnects>>

\* A mutated form: a failed connect leaves the status at kConnecting.
HandleConnectKeepingStatus(t) ==
  \E e \in events :
    /\ e.of = "connect"
    /\ events' = events \ {e}
    /\ status_' = IF e.ok THEN "kConnected" ELSE status_
    /\ Step(t, "idle", IF e.ok THEN "read" ELSE "idle")
    /\ UNCHANGED <<setup, up, connecting, reads, buffer, chunk, received, counts,
                   disconnects>>

\* handle_connect, and on_connected up to start_receive.
HandleConnect(t) ==
  \E e \in events :
    /\ e.of = "connect"
    /\ events' = events \ {e}
    /\ status_' = IF e.ok THEN "kConnected" ELSE "kDisconnected"
    /\ Step(t, "idle", IF e.ok THEN "read" ELSE "idle")
    /\ UNCHANGED <<setup, up, connecting, reads, buffer, chunk, received, counts,
                   disconnects>>

-----------------------------------------------------------------------------
(* Receiving.                                                              *)

\* start_receive: a read of a socket that is not connected ends at once.
StartReceive ==
  /\ armed' = armed + 1
  /\ IF up THEN reads' = reads \cup {armed + 1} /\ UNCHANGED events
           ELSE events' = events \cup {Failure("read", armed + 1)} /\ UNCHANGED reads

FirstRead(t) ==
  /\ Step(t, "read", "idle")
  /\ StartReceive
  /\ UNCHANGED <<setup, status_, up, connecting, buffer, chunk, received, attempts,
                 closes, sent, disconnects>>

\* A mutated form: a failed read is forgotten.
HandleReceiveErrorIgnored(t) ==
  \E e \in events :
    /\ e.of = "read" /\ ~e.ok
    /\ events' = events \ {e}
    /\ pc[t] = "idle"
    /\ UNCHANGED <<setup, status_, up, connecting, reads, buffer, pc, chunk, received,
                   counts, disconnects>>

\* handle_receive with an error goes on in close().
HandleReceiveError(t) ==
  \E e \in events :
    /\ e.of = "read" /\ ~e.ok
    /\ events' = events \ {e}
    /\ Step(t, "idle", "close")
    /\ UNCHANGED <<setup, status_, up, connecting, reads, buffer, chunk, received, counts,
                   disconnects>>

HandleReceive(t) ==
  \E e \in events :
    /\ e.of = "read" /\ e.ok
    /\ events' = events \ {e}
    /\ chunk' = [chunk EXCEPT ![t] = e.chunk]
    /\ Step(t, "idle", "rearm")
    /\ UNCHANGED <<setup, status_, up, connecting, reads, buffer, received, counts,
                   disconnects>>

\* A mutated form: the next read is started twice.
RearmTwice(t) ==
  /\ Step(t, "rearm", "deliver")
  /\ armed' = armed + 2
  /\ IF up THEN reads' = reads \cup {armed + 1, armed + 2} /\ UNCHANGED events
           ELSE /\ events' = events \cup {Failure("read", armed + n) : n \in {1, 2}}
                /\ UNCHANGED reads
  /\ UNCHANGED <<setup, status_, up, connecting, buffer, chunk, received, attempts,
                 closes, sent, disconnects>>

\* The next read, into the same buffer, is started first ...
Rearm(t) ==
  /\ Step(t, "rearm", "deliver")
  /\ StartReceive
  /\ UNCHANGED <<setup, status_, up, connecting, buffer, chunk, received, attempts,
                 closes, sent, disconnects>>

\* ... and then the program is given what the buffer holds by now.
Deliver(t) ==
  /\ Step(t, "deliver", "idle")
  /\ received' = Append(received, [by |-> t, read |-> chunk[t], found |-> buffer])
  /\ UNCHANGED <<setup, status_, up, connecting, reads, events, buffer, chunk, counts,
                 disconnects>>

-----------------------------------------------------------------------------
(* Closing.                                                                *)

CallClose(t) ==
  /\ Step(t, "idle", "close")
  /\ closes < MaxCloses[role]
  /\ closes' = closes + 1
  /\ UNCHANGED <<setup, status_, up, connecting, reads, events, buffer, chunk, received,
                 attempts, sent, armed, disconnects>>

\* A mutated form: close() does not look at the status.
CloseUnchecked(t) ==
  /\ Step(t, "close", "shutdown")
  /\ UNCHANGED <<setup, status_, up, connecting, reads, events, buffer, chunk, received,
                 counts, disconnects>>

CloseCheck(t) ==
  /\ Step(t, "close", IF status_ = "kClosed" THEN "idle" ELSE "shutdown")
  /\ UNCHANGED <<setup, status_, up, connecting, reads, events, buffer, chunk, received,
                 counts, disconnects>>

\* Closing the socket ends every operation it has in hand.
CloseSocket(t) ==
  /\ Step(t, "shutdown", "setClosed")
  /\ up' = FALSE
  /\ connecting' = {} /\ reads' = {}
  /\ events' = events \cup {Failure("connect", n) : n \in connecting}
                      \cup {Failure("read", n) : n \in reads}
  /\ UNCHANGED <<setup, status_, buffer, chunk, received, counts, disconnects>>

SetClosed(t) ==
  /\ Step(t, "setClosed", "idle")
  /\ status_' = "kClosed"
  /\ disconnects' = disconnects + 1
  /\ UNCHANGED <<setup, up, connecting, reads, events, buffer, chunk, received, counts>>

-----------------------------------------------------------------------------
(* The socket and the peer.                                                *)

ConnectEnds ==
  \E n \in connecting, ok \in BOOLEAN :
    /\ connecting' = connecting \ {n}
    /\ events' = events \cup {[of |-> "connect", op |-> n, ok |-> ok, chunk |-> 0]}
    /\ up' = (up \/ ok)
    /\ UNCHANGED <<setup, status_, reads, buffer, pc, chunk, received, counts, disconnects>>

DataArrives ==
  \E n \in reads :
    /\ up
    /\ sent < MaxChunks
    /\ sent' = sent + 1
    /\ buffer' = sent + 1
    /\ reads' = reads \ {n}
    /\ events' = events \cup {[of |-> "read", op |-> n, ok |-> TRUE, chunk |-> sent + 1]}
    /\ UNCHANGED <<setup, status_, up, connecting, pc, chunk, received, attempts, closes,
                   armed, disconnects>>

PeerCloses ==
  \E n \in reads :
    /\ reads' = reads \ {n}
    /\ events' = events \cup {Failure("read", n)}
    /\ UNCHANGED <<setup, status_, up, connecting, buffer, pc, chunk, received, counts,
                   disconnects>>

-----------------------------------------------------------------------------

ThreadRuns(t) ==
  \/ SetConnected(t) \/ SetConnecting(t) \/ HandleConnect(t)
  \/ FirstRead(t) \/ HandleReceiveError(t) \/ HandleReceive(t) \/ Rearm(t) \/ Deliver(t)
  \/ CloseCheck(t) \/ CloseSocket(t) \/ SetClosed(t)

Next ==
  \/ \E t \in pool : ThreadRuns(t) \/ Connect(t) \/ AsyncConnect(t) \/ CallClose(t)
  \/ ConnectEnds \/ DataArrives \/ PeerCloses

Spec == Init /\ [][Next]_vars

\* A thread inside a method continues and an idle one runs a handler; an
\* attempt to connect ends.  The peer and the program owe nothing.
FairSpec ==
  /\ Spec
  /\ \A t \in Threads : WF_vars(t \in pool /\ ThreadRuns(t))
  /\ WF_vars(ConnectEnds)

-----------------------------------------------------------------------------
(* Properties.                                                             *)

Locations == {"idle", "setConnected", "setConnecting", "read", "rearm", "deliver",
              "close", "shutdown", "setClosed"}

TypeOK ==
  /\ role \in Roles /\ pool \in Pools /\ status_ \in Statuses /\ up \in BOOLEAN
  /\ connecting \subseteq 1..attempts /\ reads \subseteq 1..armed
  /\ events \subseteq Event
  /\ buffer \in 0..sent /\ chunk \in [Threads -> 0..sent]
  /\ pc \in [Threads -> Locations]
  /\ received \in Seq([by : Threads, read : 1..sent, found : 1..sent])
  /\ attempts \in 0..MaxAttempts /\ closes \in 0..MaxCloses[role] /\ sent \in 0..MaxChunks
  /\ armed \in 0..(sent + attempts + 1)
  /\ disconnects \in 0..(closes + armed)

ReadEvents == {e \in events : e.of = "read"}

\* A live connection is read by one chain: at most one read is in the socket's
\* hand, ended, or about to be started.
OneReader ==
  role = "accepted" =>
    Cardinality(reads) + Cardinality(ReadEvents)
      + Cardinality({t \in Threads : pc[t] \in {"read", "rearm"}}) <= 1

\* One thread runs the handlers, so that no method is interrupted.
Serial == Cardinality(pool) = 1

\* With one thread, kConnecting means that an attempt will still report: nobody
\* waits for a connect that is over.  (With more, the handler may set the status
\* before async_connect does.)
ConnectingIsPending ==
  Serial /\ status_ = "kConnecting" /\ (\A t \in Threads : pc[t] = "idle")
    => connecting # {} \/ \E e \in events : e.of = "connect"

\* The program hears that an accepted connection is gone from no more threads
\* than there are, and so once with one thread, however failing reads and its own
\* calls of close() fall together: only calls of close() that passed the test of
\* the status side by side call disconnected_callback_ again.
OneDisconnectPerThread == role = "accepted" => disconnects <= Cardinality(pool)

\* No thread is overtaken by itself: what one thread hands over of an accepted
\* connection is in the order the reads ended.  (What two threads hand over may
\* be in any order.)
HandedInOrder ==
  role = "accepted" =>
    \A i, j \in 1..Len(received) :
      i < j /\ received[i].by = received[j].by => received[i].read < received[j].read

\* A read that failed closes the connection.
FailedReadCloses ==
  (\E e \in ReadEvents : ~e.ok) ~> (status_ = "kClosed")

\* With one thread, an attempt to connect does not stay in kConnecting.
AttemptsEnd == (Serial /\ status_ = "kConnecting") ~> (status_ # "kConnecting")

\* received_callback_ is given the data that was read.
DataIsIntact == \A i \in 1..Len(received) : received[i].found = received[i].read

=============================================================================
