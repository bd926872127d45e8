------------------------------ MODULE SendQueue ------------------------------
(***************************************************************************)
(* The sending half of AsioTcpConnection (asio_tcp_connection.cpp):        *)
(* async_send queues a buffer or starts a write, handle_send runs when a   *)
(* write ends, drops the front of the queue and starts the next one.       *)
(*                                                                         *)
(* Messages are the numbers 1, 2, ... in the order async_send is called;   *)
(* the queue keeps only the caller's buffer.  Both functions touch         *)
(* send_buffer_ and is_sending_ with no lock, on whatever thread calls     *)
(* them, and are cut at those accesses.  With a single thread the calls    *)
(* and handlers are serial.                                                *)
(***************************************************************************)
EXTENDS Naturals, FiniteSets, SequencesExt

CONSTANTS
  Threads,      \* threads that call async_send or run handle_send
  MaxMessages,  \* bound: calls of async_send
  MaxErrors,    \* bound: writes of the open socket that fail
  Closes        \* whether the connection may be closed

ASSUME SendAssumption ==
  /\ MaxMessages \in Nat
  /\ MaxErrors \in Nat
  /\ Closes \in BOOLEAN

Messages == 1..MaxMessages
Garbage  == 0     \* what front() of an empty std::list reads

VARIABLES
  pc,          \* where every thread is
  msg,         \* msg[t]: the message of the async_send thread t runs
  failed,      \* failed[t]: the error of the handle_send thread t runs
  queue,       \* send_buffer_
  is_sending,  \* is_sending_
  writes,      \* async_write_some operations of the socket, oldest first
  done,        \* finished writes whose handler has not started
  open,        \* the socket is open
  submitted,   \* messages given to async_send so far
  wire,        \* messages that reached the peer, in part at least
  garbage,     \* history: number of writes of Garbage started
  errors       \* writes of the open socket that failed so far

callVars == <<msg, failed>>
bufVars  == <<queue, is_sending>>
netVars  == <<open, wire, errors>>
vars == <<pc, callVars, bufVars, writes, done, submitted, garbage, netVars>>

Init ==
  /\ pc = [t \in Threads |-> "idle"]
  /\ msg = [t \in Threads |-> Garbage] /\ failed = [t \in Threads |-> FALSE]
  /\ queue = <<>> /\ is_sending = FALSE
  /\ writes = <<>> /\ done = <<>>
  /\ open = TRUE
  /\ submitted = 0 /\ wire = <<>>
  /\ garbage = 0 /\ errors = 0

Step(t, from, to) == pc[t] = from /\ pc' = [pc EXCEPT ![t] = to]

\* async_write_some(send_buffer_.front(), ...).
StartWrite ==
  LET front == IF queue = <<>> THEN Garbage ELSE Head(queue) IN
  /\ writes' = Append(writes, front)
  /\ garbage' = IF front = Garbage THEN garbage + 1 ELSE garbage

-----------------------------------------------------------------------------
(* async_send.                                                             *)

Call(t) ==
  /\ Step(t, "idle", "size")
  /\ submitted < MaxMessages
  /\ submitted' = submitted + 1
  /\ msg' = [msg EXCEPT ![t] = submitted + 1]
  /\ UNCHANGED <<failed, bufVars, writes, done, garbage, netVars>>

TestSize(t) ==
  /\ Step(t, "size", IF queue # <<>> THEN "append" ELSE "flag")
  /\ UNCHANGED <<callVars, bufVars, writes, done, submitted, garbage, netVars>>

\* A mutated form: is_sending_ is not looked at.
TestNothing(t) ==
  /\ Step(t, "flag", "begin")
  /\ UNCHANGED <<callVars, bufVars, writes, done, submitted, garbage, netVars>>

TestFlag(t) ==
  /\ Step(t, "flag", IF is_sending THEN "append" ELSE "begin")
  /\ UNCHANGED <<callVars, bufVars, writes, done, submitted, garbage, netVars>>

\* A mutated form: the new message goes to the front.
AppendFirst(t) ==
  /\ Step(t, "append", "idle")
  /\ queue' = <<msg[t]>> \o queue
  /\ UNCHANGED <<callVars, is_sending, writes, done, submitted, garbage, netVars>>

\* A mutated form: an empty buffer is queued in place of the message.
AppendEmpty(t) ==
  /\ Step(t, "append", "idle")
  /\ queue' = Append(queue, Garbage)
  /\ UNCHANGED <<callVars, is_sending, writes, done, submitted, garbage, netVars>>

\* The message waits in the queue; async_send returns false.
AppendMessage(t) ==
  /\ Step(t, "append", "idle")
  /\ queue' = Append(queue, msg[t])
  /\ UNCHANGED <<callVars, is_sending, writes, done, submitted, garbage, netVars>>

\* The write is of the front of the queue, which the message is not in;
\* async_send returns true.
Begin(t) ==
  /\ Step(t, "begin", "idle")
  /\ is_sending' = TRUE
  /\ StartWrite
  /\ UNCHANGED <<callVars, queue, done, submitted, netVars>>

-----------------------------------------------------------------------------
(* handle_send.                                                            *)

Handle(t) ==
  /\ Step(t, "idle", "pop")
  /\ done # <<>>
  /\ done' = Tail(done)
  /\ failed' = [failed EXCEPT ![t] = Head(done)]
  /\ is_sending' = FALSE
  /\ UNCHANGED <<msg, queue, writes, submitted, garbage, netVars>>

\* A mutated form: the queue is emptied.
PopAll(t) ==
  /\ Step(t, "pop", "next")
  /\ queue' = IF failed[t] THEN queue ELSE <<>>
  /\ UNCHANGED <<callVars, is_sending, writes, done, submitted, garbage, netVars>>

Pop(t) ==
  /\ Step(t, "pop", "next")
  /\ queue' = IF queue # <<>> /\ ~failed[t] THEN Tail(queue) ELSE queue
  /\ UNCHANGED <<callVars, is_sending, writes, done, submitted, garbage, netVars>>

\* A mutated form: a failed write is not followed by another one.
WriteNextUnlessFailed(t) ==
  /\ Step(t, "next", "idle")
  /\ IF queue = <<>> \/ failed[t]
     THEN UNCHANGED <<is_sending, writes, garbage>>
     ELSE is_sending' = TRUE /\ StartWrite
  /\ UNCHANGED <<callVars, queue, done, submitted, netVars>>

\* A failed write is started again; the connection is not closed.
WriteNext(t) ==
  /\ Step(t, "next", "idle")
  /\ IF queue = <<>>
     THEN UNCHANGED <<is_sending, writes, garbage>>
     ELSE is_sending' = TRUE /\ StartWrite
  /\ UNCHANGED <<callVars, queue, done, submitted, netVars>>

-----------------------------------------------------------------------------
(* The socket: writes end in the order they were started.                  *)

\* Some or all of the buffer was sent; the handler only logs how much.
WriteSucceeds ==
  /\ writes # <<>> /\ open
  /\ wire' = IF Head(writes) = Garbage THEN wire ELSE Append(wire, Head(writes))
  /\ writes' = Tail(writes)
  /\ done' = Append(done, FALSE)
  /\ UNCHANGED <<pc, callVars, bufVars, submitted, garbage, open, errors>>

\* A write of an open socket fails now and then, a write of Garbage may always
\* (a bad address), a write of a closed socket must.
WriteFails ==
  /\ writes # <<>>
  /\ \/ ~open /\ UNCHANGED errors
     \/ open /\ Head(writes) = Garbage /\ UNCHANGED errors
     \/ open /\ errors < MaxErrors /\ errors' = errors + 1
  /\ writes' = Tail(writes)
  /\ done' = Append(done, TRUE)
  /\ UNCHANGED <<pc, callVars, bufVars, submitted, garbage, open, wire>>

\* close(), by a failed read or by the game.
Close ==
  /\ Closes /\ open
  /\ open' = FALSE
  /\ UNCHANGED <<pc, callVars, bufVars, writes, done, submitted, garbage,
                 wire, errors>>

-----------------------------------------------------------------------------

ThreadRuns(t) ==
  \/ TestSize(t) \/ TestFlag(t) \/ AppendMessage(t) \/ Begin(t)
  \/ Handle(t) \/ Pop(t) \/ WriteNext(t)

WriteEnds == WriteSucceeds \/ WriteFails

Next == (\E t \in Threads : ThreadRuns(t) \/ Call(t)) \/ WriteEnds \/ Close

Spec == Init /\ [][Next]_vars

\* A thread inside a function continues, an idle one picks up a finished write,
\* and a write ends.  Nobody has to send or to close.
FairSpec ==
  /\ Spec
  /\ \A t \in Threads : WF_vars(ThreadRuns(t))
  /\ WF_vars(WriteEnds)

-----------------------------------------------------------------------------
(* Properties.                                                             *)

TypeOK ==
  /\ pc \in [Threads -> {"idle", "size", "flag", "append", "begin", "pop", "next"}]
  /\ msg \in [Threads -> 0..submitted] /\ failed \in [Threads -> BOOLEAN]
  /\ queue \in Seq(1..submitted) /\ is_sending \in BOOLEAN
  /\ writes \in Seq(0..submitted) /\ done \in Seq(BOOLEAN)
  /\ open \in BOOLEAN
  /\ submitted \in 0..MaxMessages
  /\ wire \in Seq(1..submitted)
  /\ garbage \in Nat /\ errors \in 0..MaxErrors

AtRest == \A t \in Threads : pc[t] = "idle"

\* A message in the queue waits for a write that is under way, not for another
\* message: at rest, the queue is empty or a write or its handler is pending.
QueueIsServed == AtRest /\ queue # <<>> => writes # <<>> \/ done # <<>>

\* is_sending_ tells, at rest, exactly whether a write is under way, and there
\* is never a second one.
FlagIsExact ==
  AtRest => Len(writes) + Len(done) = IF is_sending THEN 1 ELSE 0

Channel == INSTANCE Channel WITH delivered <- wire

\* With one thread the queue implements the channel: the peer sees messages in
\* the order they were sent, none twice, and none after the connection closed.
ImplementsChannel == Channel!ChannelSpec

\* Messages that nobody will write any more.
Lost ==
  {m \in 1..submitted :
     /\ \A t \in Threads : pc[t] # "idle" => msg[t] # m
     /\ m \notin ToSet(wire) \cup ToSet(queue)}

\* Every busy period starts with a write of Garbage and loses at most two
\* messages: the one that started it, and the first that waited.
LossIsBounded == AtRest => Cardinality(Lost) <= 2 * garbage

\* While the connection stays open the queue drains again and again.
QueueDrains == (queue # <<>>) ~> (queue = <<>> \/ ~open)

=============================================================================
