--------------------------- MODULE SendQueueProofs ---------------------------
(***************************************************************************)
(* Theorems of SendQueue, for any number of messages and failures: the     *)
(* types for any threads, and for one thread what the queue promises.      *)
(***************************************************************************)
EXTENDS SendQueue, FiniteSetTheorems, TLAPS

OneThread == \E t : Threads = {t}

Calling == {"size", "flag", "append", "begin"}

\* A thread in async_send has a message.
CallsHaveMessages == \A t \in Threads : pc[t] \in Calling => msg[t] \in 1..submitted

-----------------------------------------------------------------------------
(* With one thread.                                                        *)

\* is_sending_ is exact at every step, not only at rest.
FlagCounts == Len(writes) + Len(done) = IF is_sending THEN 1 ELSE 0

\* What a function has found out stays true until it acts on it.
TestsHold ==
  \A t \in Threads :
    /\ pc[t] \in {"flag", "begin"} => queue = <<>>
    /\ pc[t] \in {"begin", "pop", "next"} => ~is_sending
    /\ pc[t] = "append" => is_sending
    /\ pc[t] \in {"idle", "size"} /\ queue # <<>> => is_sending

\* The buffer that is being written is still the front of the queue.
FrontIsWritten ==
  writes # <<>> /\ Head(writes) # Garbage => queue # <<>> /\ Head(queue) = Head(writes)

\* The message of a call comes after all others.
CallIsLast ==
  \A t \in Threads : pc[t] \in Calling =>
    /\ msg[t] = submitted
    /\ \A i \in 1..Len(queue) : queue[i] < submitted
    /\ \A i \in 1..Len(wire) : wire[i] < submitted

\* The front of the queue will be dropped.
Acked == (done # <<>> /\ ~Head(done)) \/ \E t \in Threads : pc[t] = "pop" /\ ~failed[t]

\* What waits comes after what is on the wire, save a front that was just sent.
InOrder ==
  /\ \A i, j \in 1..Len(queue) : i < j => queue[i] < queue[j]
  /\ queue # <<>> =>
       \A i \in 1..Len(wire) : wire[i] < queue[1] \/ (Acked /\ wire[i] = queue[1])

\* Messages that are not on the wire, in the queue or in the hands of async_send.
Abandoned ==
  {m \in 1..submitted :
     /\ \A t \in Threads : pc[t] \in Calling => msg[t] # m
     /\ m \notin ToSet(wire) \cup ToSet(queue)}

\* A write of Garbage is yet to cost its second message.
Pending ==
  \/ writes # <<>> /\ Head(writes) = Garbage
  \/ Acked /\ (queue = <<>> \/ Head(queue) \notin ToSet(wire))

LossIsCounted ==
  /\ Cardinality(Abandoned) <= 2 * garbage
  /\ Pending => Cardinality(Abandoned) < 2 * garbage

SerialInv ==
  /\ TypeOK /\ CallsHaveMessages
  /\ FlagCounts /\ TestsHold /\ FrontIsWritten /\ CallIsLast /\ InOrder /\ LossIsCounted

-----------------------------------------------------------------------------

\* The front and the rest of a sequence, by position.
LEMMA Ends ==
  ASSUME NEW S, NEW s \in Seq(S), NEW x \in S
  PROVE  /\ Append(s, x) \in Seq(S) /\ Len(Append(s, x)) = Len(s) + 1
         /\ \A i \in 1..Len(s) : Append(s, x)[i] = s[i]
         /\ Append(s, x)[Len(s) + 1] = x
         /\ ToSet(Append(s, x)) = ToSet(s) \cup {x}
         /\ s # <<>> => /\ Head(s) = s[1] /\ s[1] \in S /\ Len(s) >= 1
                        /\ Tail(s) \in Seq(S) /\ Len(Tail(s)) = Len(s) - 1
                        /\ \A i \in 1..Len(Tail(s)) : Tail(s)[i] = s[i + 1]
                        /\ ToSet(s) = ToSet(Tail(s)) \cup {s[1]}
         /\ Len(s) = 0 <=> s = <<>>
         /\ Len(s) = 1 => Tail(s) = <<>>
         /\ ToSet(s) \subseteq S
<1>1. /\ Append(s, x) \in Seq(S) /\ Len(Append(s, x)) = Len(s) + 1
      /\ \A i \in 1..Len(s) : Append(s, x)[i] = s[i]
      /\ Append(s, x)[Len(s) + 1] = x
  OBVIOUS
<1>2. ToSet(Append(s, x)) = ToSet(s) \cup {x}
  BY <1>1 DEF ToSet
<1>3. ASSUME s # <<>>
      PROVE  /\ Head(s) = s[1] /\ s[1] \in S /\ Len(s) >= 1
             /\ Tail(s) \in Seq(S) /\ Len(Tail(s)) = Len(s) - 1
             /\ \A i \in 1..Len(Tail(s)) : Tail(s)[i] = s[i + 1]
  BY <1>3
<1>4. ASSUME s # <<>>
      PROVE  ToSet(s) = ToSet(Tail(s)) \cup {s[1]}
  <2>1. \A i \in DOMAIN s : i = 1 \/ (i - 1 \in DOMAIN Tail(s) /\ Tail(s)[i - 1] = s[i])
    BY <1>3, <1>4
  <2>2. \A i \in DOMAIN Tail(s) : i + 1 \in DOMAIN s /\ Tail(s)[i] = s[i + 1]
    BY <1>3, <1>4
  <2>3. \A i \in DOMAIN s : s[i] \in ToSet(Tail(s)) \cup {s[1]}
    BY <2>1 DEF ToSet
  <2>4. \A i \in DOMAIN Tail(s) : Tail(s)[i] \in ToSet(s)
    BY <2>2 DEF ToSet
  <2>5. s[1] \in ToSet(s)
    <3>1. 1 \in DOMAIN s
      BY <1>3, <1>4
    <3> QED
      BY <3>1 DEF ToSet
  <2> QED
    BY <2>3, <2>4, <2>5, Zenon DEF ToSet
<1>5. ToSet(s) \subseteq S
  BY DEF ToSet
<1>6. Len(s) = 0 <=> s = <<>>
  OBVIOUS
<1>7. ASSUME Len(s) = 1
      PROVE  Tail(s) = <<>>
  <2>1. Tail(s) \in Seq(S) /\ Len(Tail(s)) = 0
    BY <1>6, <1>7
  <2>2. \A r \in Seq(S) : Len(r) = 0 => r = <<>>
    OBVIOUS
  <2> QED
    BY <2>1, <2>2
<1> QED
  BY <1>1, <1>2, <1>3, <1>4, <1>5, <1>6, <1>7

-----------------------------------------------------------------------------
(* Any threads.                                                            *)

Typed == TypeOK /\ CallsHaveMessages

\* Every step keeps the types.
LEMMA NextTyped == Typed /\ [Next]_vars => Typed'
<1> SUFFICES ASSUME Typed, [Next]_vars PROVE Typed'
  OBVIOUS
<1> USE DEF Typed, callVars, bufVars, netVars, Step
<1>0. /\ submitted \in Nat /\ queue \in Seq(1..submitted) /\ wire \in Seq(1..submitted)
      /\ writes \in Seq(0..submitted) /\ done \in Seq(BOOLEAN)
  BY SendAssumption DEF TypeOK
<1>1. ASSUME StartWrite
      PROVE  writes' \in Seq(0..submitted) /\ garbage' \in Nat
  BY <1>0, <1>1, Ends DEF StartWrite, Garbage, TypeOK
<1>2. ASSUME NEW t \in Threads, Call(t)
      PROVE  Typed'
  <2>1. submitted' = submitted + 1 /\ submitted' \in 0..MaxMessages
    BY <1>0, <1>2, SendAssumption DEF Call
  <2>2. /\ queue' \in Seq(1..submitted') /\ wire' \in Seq(1..submitted')
        /\ writes' \in Seq(0..submitted')
    <3>1. 1..submitted \subseteq 1..submitted' /\ 0..submitted \subseteq 0..submitted'
      BY <1>0, <2>1
    <3>2. queue' = queue /\ wire' = wire /\ writes' = writes
      BY <1>2 DEF Call
    <3>3. \A S, T : S \subseteq T => \A s \in Seq(S) : s \in Seq(T)
      OBVIOUS
    <3> HIDE DEF Typed
    <3> QED
      BY <1>0, <3>1, <3>2, <3>3
  <2>3. msg' \in [Threads -> 0..submitted']
    BY <1>0, <1>2, <2>1 DEF Call, TypeOK
  <2>4. CallsHaveMessages'
    BY <1>0, <1>2, <2>1 DEF Call, CallsHaveMessages, TypeOK
  <2> QED
    BY <1>2, <2>1, <2>2, <2>3, <2>4 DEF Call, TypeOK
<1>3. ASSUME NEW t \in Threads, TestSize(t) \/ TestFlag(t)
      PROVE  Typed'
  BY <1>3 DEF TestSize, TestFlag, TypeOK, CallsHaveMessages, Calling
<1>4. ASSUME NEW t \in Threads, AppendMessage(t)
      PROVE  Typed'
  <2>1. msg[t] \in 1..submitted
    BY <1>4 DEF AppendMessage, CallsHaveMessages, Calling
  <2>2. queue' \in Seq(1..submitted)
    BY <1>0, <1>4, <2>1, Ends DEF AppendMessage
  <2> QED
    BY <1>4, <2>2 DEF AppendMessage, TypeOK, CallsHaveMessages, Calling
<1>5. ASSUME NEW t \in Threads, Begin(t)
      PROVE  Typed'
  BY <1>1, <1>5 DEF Begin, TypeOK, CallsHaveMessages, Calling
<1>6. ASSUME NEW t \in Threads, Handle(t)
      PROVE  Typed'
  <2>1. Head(done) \in BOOLEAN /\ Tail(done) \in Seq(BOOLEAN)
    BY <1>0, <1>6 DEF Handle
  <2> QED
    BY <1>6, <2>1 DEF Handle, TypeOK, CallsHaveMessages, Calling
<1>7. ASSUME NEW t \in Threads, Pop(t)
      PROVE  Typed'
  <2>1. queue' \in Seq(1..submitted)
    <3>1. queue # <<>> => Tail(queue) \in Seq(1..submitted)
      BY <1>0
    <3> QED
      BY <1>0, <1>7, <3>1 DEF Pop
  <2> QED
    BY <1>7, <2>1 DEF Pop, TypeOK, CallsHaveMessages, Calling
<1>8. ASSUME NEW t \in Threads, WriteNext(t)
      PROVE  Typed'
  <2>1. writes' \in Seq(0..submitted) /\ garbage' \in Nat /\ is_sending' \in BOOLEAN
    BY <1>1, <1>8 DEF WriteNext, TypeOK
  <2> QED
    BY <1>8, <2>1 DEF WriteNext, TypeOK, CallsHaveMessages, Calling
<1>9. CASE WriteEnds
  <2>1. /\ writes' \in Seq(0..submitted) /\ done' \in Seq(BOOLEAN)
        /\ UNCHANGED <<pc, callVars, bufVars, submitted, garbage, open>>
    <3>1. writes # <<>> => Tail(writes) \in Seq(0..submitted)
      BY <1>0
    <3>2. \A b \in BOOLEAN : Append(done, b) \in Seq(BOOLEAN)
      BY <1>0, Ends
    <3> QED
      BY <1>9, <3>1, <3>2 DEF WriteEnds, WriteSucceeds, WriteFails
  <2>2. wire' \in Seq(1..submitted)
    <3>1. writes # <<>> => Head(writes) \in 0..submitted
      BY <1>0, Ends
    <3>2. \A m \in 1..submitted : Append(wire, m) \in Seq(1..submitted)
      BY <1>0, Ends
    <3>3. \A m \in 0..submitted : m # 0 => m \in 1..submitted
      BY <1>0
    <3> QED
      BY <1>0, <1>9, <3>1, <3>2, <3>3 DEF WriteEnds, WriteSucceeds, WriteFails, Garbage
  <2>3. errors' \in 0..MaxErrors
    <3>1. errors \in 0..MaxErrors
      BY DEF TypeOK
    <3>2. errors' = errors \/ (errors < MaxErrors /\ errors' = errors + 1)
      BY <1>9 DEF WriteEnds, WriteSucceeds, WriteFails
    <3> QED
      BY <3>1, <3>2, SendAssumption
  <2> QED
    BY <2>1, <2>2, <2>3 DEF TypeOK, CallsHaveMessages
<1>10. CASE Close \/ UNCHANGED vars
  BY <1>10 DEF Close, vars, TypeOK, CallsHaveMessages
<1> QED
  BY <1>2, <1>3, <1>4, <1>5, <1>6, <1>7, <1>8, <1>9, <1>10 DEF Next, ThreadRuns

\* The initial state.
LEMMA InitInv == Init => Typed /\ (OneThread => SerialInv)
<1> SUFFICES ASSUME Init PROVE Typed /\ SerialInv
  BY DEF Typed
<1> USE DEF Init, Garbage
<1>1. Typed
  <2>1. \A S : <<>> \in Seq(S)
    OBVIOUS
  <2>2. 0 \in 0..submitted /\ 0 \in 0..MaxMessages /\ 0 \in 0..MaxErrors
    BY SendAssumption
  <2> QED
    BY <2>1, <2>2 DEF Typed, TypeOK, CallsHaveMessages, Calling
<1>2. FlagCounts /\ TestsHold /\ FrontIsWritten /\ CallIsLast /\ InOrder
  BY DEF FlagCounts, TestsHold, FrontIsWritten, CallIsLast, InOrder, Calling
<1>3. LossIsCounted
  <2>1. Abandoned = {}
    BY DEF Abandoned
  <2>2. ~Pending
    BY DEF Pending, Acked
  <2> QED
    BY <2>1, <2>2, FS_EmptySet DEF LossIsCounted
<1> QED
  BY <1>1, <1>2, <1>3 DEF SerialInv, Typed

-----------------------------------------------------------------------------
(* One thread.                                                             *)

\* No step of a single thread, nor of the socket, breaks the invariant.
LEMMA NextSerial == OneThread /\ SerialInv /\ [Next]_vars => SerialInv'
<1> SUFFICES ASSUME OneThread, SerialInv, [Next]_vars PROVE SerialInv'
  OBVIOUS
<1> DEFINE Others == FlagCounts /\ TestsHold /\ FrontIsWritten /\ CallIsLast /\ InOrder
                     /\ LossIsCounted
<1>1. PICK t : Threads = {t}
  BY DEF OneThread
<1>2. TypeOK' /\ CallsHaveMessages' /\ TypeOK /\ CallsHaveMessages
  BY NextTyped DEF SerialInv, Typed
<1> SUFFICES Others'
  BY <1>2 DEF SerialInv
<1>3. FlagCounts /\ TestsHold /\ FrontIsWritten /\ CallIsLast /\ InOrder /\ LossIsCounted
  BY DEF SerialInv
<1>4. /\ submitted \in Nat /\ queue \in Seq(1..submitted) /\ wire \in Seq(1..submitted)
      /\ writes \in Seq(0..submitted) /\ done \in Seq(BOOLEAN)
      /\ is_sending \in BOOLEAN /\ failed[t] \in BOOLEAN /\ garbage \in Nat
  BY <1>1, <1>2, SendAssumption DEF TypeOK
<1>5. /\ ~is_sending => writes = <<>> /\ done = <<>>
      /\ writes # <<>> => done = <<>> /\ is_sending /\ Len(writes) = 1 /\ Tail(writes) = <<>>
      /\ done # <<>> => writes = <<>> /\ is_sending /\ Len(done) = 1 /\ Tail(done) = <<>>
  <2> HIDE DEF Others
  <2>1. /\ Len(writes) \in Nat /\ Len(done) \in Nat
        /\ Len(writes) = 0 <=> writes = <<>>
        /\ Len(done) = 0 <=> done = <<>>
        /\ Len(writes) + Len(done) = IF is_sending THEN 1 ELSE 0
    BY <1>3, <1>4 DEF FlagCounts
  <2>2. /\ Len(writes) = 1 => Tail(writes) = <<>>
        /\ Len(done) = 1 => Tail(done) = <<>>
    <3>1. 0 \in 0..submitted /\ TRUE \in BOOLEAN
      BY <1>4
    <3> QED
      BY <1>4, <3>1, Ends
  <2>3. CASE is_sending
    <3>1. /\ writes # <<>> => Len(writes) = 1 /\ Len(done) = 0
          /\ done # <<>> => Len(done) = 1 /\ Len(writes) = 0
      <4>1. Len(writes) + Len(done) = 1
        BY <2>1, <2>3
      <4>2. \A a, b \in Nat : a + b = 1 => (a = 1 /\ b = 0) \/ (a = 0 /\ b = 1)
        OBVIOUS
      <4>3. \/ Len(writes) = 1 /\ Len(done) = 0
            \/ Len(writes) = 0 /\ Len(done) = 1
        BY <2>1, <4>1, <4>2
      <4> QED
        BY <2>1, <4>3, Zenon
    <3> QED
      BY <1>4, <2>1, <2>2, <2>3, <3>1
  <2>4. CASE ~is_sending
    BY <2>1, <2>4
  <2> QED
    BY <2>3, <2>4
<1>6. /\ pc[t] \in {"flag", "begin"} => queue = <<>>
      /\ pc[t] \in {"begin", "pop", "next"} => ~is_sending
      /\ pc[t] = "append" => is_sending
      /\ pc[t] \in {"idle", "size"} /\ queue # <<>> => is_sending
  BY <1>1, <1>3 DEF TestsHold
<1>7. Abandoned = {m \in 1..submitted : /\ pc[t] \in Calling => msg[t] # m
                                        /\ m \notin ToSet(wire) \cup ToSet(queue)}
  BY <1>1 DEF Abandoned
<1>8. Acked <=> (done # <<>> /\ ~Head(done)) \/ (pc[t] = "pop" /\ ~failed[t])
  BY <1>1 DEF Acked
<1>9. Cardinality(Abandoned) \in Nat /\
      \A S, x : /\ S \subseteq Abandoned => Cardinality(S) \in Nat
                                            /\ Cardinality(S) <= Cardinality(Abandoned)
                /\ S \subseteq Abandoned \cup {x} =>
                     Cardinality(S) \in Nat /\ Cardinality(S) <= Cardinality(Abandoned) + 1
  <2>1. IsFiniteSet(Abandoned)
    <3>1. Abandoned \subseteq 1..submitted
      BY DEF Abandoned
    <3>2. IsFiniteSet(1..submitted)
      BY <1>4, FS_Interval
    <3> QED
      BY <3>1, <3>2, FS_Subset
  <2>2. Cardinality(Abandoned) \in Nat
    BY <2>1, FS_CardinalityType
  <2>3. ASSUME NEW S, S \subseteq Abandoned
        PROVE  Cardinality(S) \in Nat /\ Cardinality(S) <= Cardinality(Abandoned)
    BY <2>1, <2>3, FS_Subset, FS_CardinalityType
  <2>4. ASSUME NEW S, NEW x, S \subseteq Abandoned \cup {x}
        PROVE  Cardinality(S) \in Nat /\ Cardinality(S) <= Cardinality(Abandoned) + 1
    <3>1. /\ IsFiniteSet(Abandoned \cup {x})
          /\ \/ Cardinality(Abandoned \cup {x}) = Cardinality(Abandoned)
             \/ Cardinality(Abandoned \cup {x}) = Cardinality(Abandoned) + 1
      BY <2>1, FS_AddElement
    <3>2. Cardinality(S) \in Nat /\ Cardinality(S) <= Cardinality(Abandoned \cup {x})
      BY <2>4, <3>1, FS_Subset, FS_CardinalityType
    <3> QED
      BY <2>2, <3>1, <3>2
  <2> QED
    BY <2>2, <2>3, <2>4
<1>10. pc \in [Threads -> {"idle", "size", "flag", "append", "begin", "pop", "next"}]
  BY <1>2 DEF TypeOK
\* What a step keeps that only moves the thread.
<1>11. ASSUME UNCHANGED <<queue, wire, writes, done, garbage>>,
              Abandoned' = Abandoned, Acked' = Acked
       PROVE  FrontIsWritten' /\ InOrder' /\ LossIsCounted'
  BY <1>3, <1>11 DEF FrontIsWritten, InOrder, LossIsCounted, Pending
<1> HIDE DEF Others
<1>12. CASE Call(t)
  <2>1. /\ pc[t] = "idle" /\ pc'[t] = "size" /\ submitted' = submitted + 1
        /\ msg'[t] = submitted + 1
        /\ UNCHANGED <<failed, queue, is_sending, writes, done, garbage, wire>>
    BY <1>1, <1>2, <1>10, <1>12 DEF Call, Step, callVars, bufVars, netVars, TypeOK
  <2>2. Abandoned' = Abandoned
    <3>1. Abandoned' = {m \in 1..submitted' : /\ pc'[t] \in Calling => msg'[t] # m
                                              /\ m \notin ToSet(wire) \cup ToSet(queue)}
      BY <1>1, <2>1 DEF Abandoned
    <3> QED
      BY <1>4, <1>7, <2>1, <3>1 DEF Calling
  <2>3. Acked' = Acked
    BY <1>1, <2>1 DEF Acked
  <2>4. CallIsLast'
    <3>1. /\ \A i \in 1..Len(queue) : queue[i] < submitted + 1
          /\ \A i \in 1..Len(wire) : wire[i] < submitted + 1
      BY <1>4
    <3> QED
      BY <1>1, <2>1, <3>1 DEF CallIsLast
  <2>5. FlagCounts' /\ TestsHold'
    BY <1>1, <1>3, <1>6, <2>1 DEF FlagCounts, TestsHold
  <2> QED
    BY <1>11, <2>1, <2>2, <2>3, <2>4, <2>5 DEF Others
<1>13. CASE TestSize(t) \/ TestFlag(t)
  <2>1. /\ UNCHANGED <<msg, failed, queue, is_sending, writes, done, submitted, garbage, wire>>
        /\ pc[t] \in {"size", "flag"} /\ pc'[t] \in {"append", "flag", "begin"}
        /\ pc'[t] = "append" => is_sending
        /\ pc'[t] \in {"flag", "begin"} => queue = <<>>
        /\ pc'[t] = "begin" => ~is_sending
    BY <1>1, <1>6, <1>10, <1>13 DEF TestSize, TestFlag, Step, callVars, bufVars, netVars
  <2>2. Abandoned' = Abandoned
    BY <1>1, <2>1 DEF Abandoned, Calling
  <2>3. Acked' = Acked
    BY <1>1, <2>1 DEF Acked
  <2>4. FlagCounts' /\ TestsHold' /\ CallIsLast'
    BY <1>1, <1>3, <2>1 DEF FlagCounts, TestsHold, CallIsLast, Calling
  <2> QED
    BY <1>11, <2>1, <2>2, <2>3, <2>4 DEF Others
<1>14. CASE AppendMessage(t)
  <2>1. /\ pc[t] = "append" /\ pc'[t] = "idle" /\ queue' = Append(queue, msg[t])
        /\ UNCHANGED <<msg, failed, is_sending, writes, done, submitted, garbage, wire>>
    BY <1>1, <1>10, <1>14 DEF AppendMessage, Step, callVars, bufVars, netVars
  <2>2. /\ msg[t] = submitted /\ msg[t] \in 1..submitted
        /\ \A i \in 1..Len(queue) : queue[i] < submitted
        /\ \A i \in 1..Len(wire) : wire[i] < submitted
    BY <1>1, <1>2, <1>3, <2>1 DEF CallIsLast, CallsHaveMessages, Calling
  <2>3. /\ Len(queue') = Len(queue) + 1 /\ queue' # <<>>
        /\ \A i \in 1..Len(queue) : queue'[i] = queue[i]
        /\ queue'[Len(queue) + 1] = submitted
        /\ ToSet(queue') = ToSet(queue) \cup {msg[t]}
        /\ queue # <<>> => Head(queue') = Head(queue) /\ queue'[1] = queue[1]
        /\ queue = <<>> => queue'[1] = submitted
    <3> DEFINE longer == Append(queue, msg[t])
    <3>1. /\ Len(longer) = Len(queue) + 1 /\ longer \in Seq(1..submitted)
          /\ \A i \in 1..Len(queue) : longer[i] = queue[i]
          /\ longer[Len(queue) + 1] = msg[t]
          /\ ToSet(longer) = ToSet(queue) \cup {msg[t]}
      <4>1. queue \in Seq(1..submitted) /\ msg[t] \in 1..submitted
        BY <1>4, <2>2
      <4>2. Len(longer) = Len(queue) + 1 /\ longer \in Seq(1..submitted)
        BY <4>1, Ends
      <4>3. \A i \in 1..Len(queue) : longer[i] = queue[i]
        BY <4>1, Ends
      <4>4. longer[Len(queue) + 1] = msg[t]
        BY <4>1, Ends
      <4>5. ToSet(longer) = ToSet(queue) \cup {msg[t]}
        <5> HIDE DEF longer
        <5> QED
          BY <4>1, <4>2, <4>3, <4>4 DEF ToSet
      <4> QED
        BY <4>2, <4>3, <4>4, <4>5
    <3> HIDE DEF longer, Others
    <3>2. longer # <<>> /\ Head(longer) = longer[1]
      BY <1>4, <3>1
    <3>3. queue # <<>> => Head(longer) = Head(queue) /\ longer[1] = queue[1]
      BY <1>4, <3>1, <3>2
    <3>4. queue = <<>> => longer[1] = msg[t]
      BY <3>1
    <3>5. queue' = longer
      BY <2>1 DEF longer
    <3> QED
      BY <2>2, <3>1, <3>2, <3>3, <3>4, <3>5
  <2>4. Abandoned' = Abandoned
    <3>1. Abandoned' = {m \in 1..submitted : m \notin ToSet(wire) \cup ToSet(queue')}
      BY <1>1, <2>1 DEF Abandoned, Calling
    <3> QED
      BY <1>7, <2>1, <2>3, <3>1 DEF Calling
  <2>5. Acked' = Acked
    BY <1>1, <2>1 DEF Acked
  <2>6. InOrder'
    <3>1. \A i, j \in 1..Len(queue') : i < j => queue'[i] < queue'[j]
      <4>1. \A i, j \in 1..Len(queue) : i < j => queue[i] < queue[j]
        BY <1>3 DEF InOrder
      <4> HIDE DEF Others
      <4>2. \A j \in 1..Len(queue') : j \in 1..Len(queue) \/ j = Len(queue) + 1
        BY <1>4, <2>3
      <4>3. \A i, j \in 1..Len(queue') : i < j => i \in 1..Len(queue)
        BY <1>4, <2>3
      <4> QED
        BY <2>2, <2>3, <4>1, <4>2, <4>3
    <3>2. \A i \in 1..Len(wire) : wire[i] < queue'[1] \/ (Acked /\ wire[i] = queue'[1])
      BY <1>3, <2>2, <2>3 DEF InOrder
    <3> QED
      BY <2>1, <2>5, <3>1, <3>2 DEF InOrder
  <2>7. LossIsCounted'
    <3>1. Pending' => Pending
      BY <2>1, <2>3, <2>5 DEF Pending
    <3> QED
      BY <1>3, <2>1, <2>4, <3>1 DEF LossIsCounted
  <2>8. FrontIsWritten'
    BY <1>3, <2>1, <2>3 DEF FrontIsWritten
  <2>9. FlagCounts' /\ TestsHold' /\ CallIsLast'
    BY <1>1, <1>3, <1>6, <2>1 DEF FlagCounts, TestsHold, CallIsLast, Calling
  <2> QED
    BY <2>6, <2>7, <2>8, <2>9 DEF Others
<1>15. CASE Begin(t)
  <2>1. /\ pc[t] = "begin" /\ pc'[t] = "idle" /\ is_sending' = TRUE
        /\ queue = <<>> /\ writes = <<>> /\ done = <<>>
        /\ UNCHANGED <<msg, failed, queue, done, submitted, wire>>
    BY <1>1, <1>5, <1>6, <1>10, <1>15 DEF Begin, Step, callVars, bufVars, netVars
  <2>2. writes' = <<Garbage>> /\ garbage' = garbage + 1
    BY <1>15, <2>1 DEF Begin, StartWrite
  <2>3. Abandoned' \subseteq Abandoned \cup {msg[t]}
    BY <1>1, <1>7, <2>1 DEF Abandoned, Calling
  <2>4. LossIsCounted'
    <3>1. Cardinality(Abandoned') \in Nat /\ Cardinality(Abandoned') <= Cardinality(Abandoned) + 1
      BY <1>9, <2>3
    <3>2. Cardinality(Abandoned) \in Nat /\ Cardinality(Abandoned) <= 2 * garbage
      BY <1>3, <1>9 DEF LossIsCounted
    <3>3. 2 * garbage' = 2 * garbage + 2
      BY <1>4, <2>2
    <3>4. Cardinality(Abandoned') < 2 * garbage'
      BY <1>4, <3>1, <3>2, <3>3
    <3>5. Cardinality(Abandoned') <= 2 * garbage'
      BY <1>4, <2>2, <3>1, <3>4
    <3> QED
      BY <3>4, <3>5 DEF LossIsCounted
  <2>5. FlagCounts' /\ TestsHold' /\ FrontIsWritten' /\ CallIsLast' /\ InOrder'
    BY <1>1, <2>1, <2>2
       DEF FlagCounts, TestsHold, FrontIsWritten, CallIsLast, InOrder, Calling
  <2> QED
    BY <2>4, <2>5 DEF Others
<1>16. CASE Handle(t)
  <2>1. /\ pc[t] = "idle" /\ pc'[t] = "pop" /\ done # <<>> /\ done' = <<>>
        /\ failed'[t] = Head(done) /\ is_sending' = FALSE /\ writes = <<>>
        /\ UNCHANGED <<msg, queue, writes, submitted, garbage, wire>>
    BY <1>1, <1>2, <1>5, <1>10, <1>16 DEF Handle, Step, callVars, bufVars, netVars, TypeOK
  <2>2. Abandoned' = Abandoned
    BY <1>1, <2>1 DEF Abandoned, Calling
  <2>3. Acked' <=> Acked
    BY <1>1, <1>8, <2>1 DEF Acked
  <2>4. FrontIsWritten' /\ InOrder' /\ LossIsCounted'
    BY <1>3, <2>1, <2>2, <2>3 DEF FrontIsWritten, InOrder, LossIsCounted, Pending
  <2>5. FlagCounts' /\ TestsHold' /\ CallIsLast'
    BY <1>1, <2>1 DEF FlagCounts, TestsHold, CallIsLast, Calling
  <2> QED
    BY <2>4, <2>5 DEF Others
<1>17. CASE Pop(t)
  <2>1. /\ pc[t] = "pop" /\ pc'[t] = "next" /\ ~is_sending /\ writes = <<>> /\ done = <<>>
        /\ queue' = IF queue # <<>> /\ ~failed[t] THEN Tail(queue) ELSE queue
        /\ UNCHANGED <<msg, failed, is_sending, writes, done, submitted, garbage, wire>>
    BY <1>1, <1>5, <1>6, <1>10, <1>17 DEF Pop, Step, callVars, bufVars, netVars
  <2>2. ~Acked' /\ ~Pending'
    BY <1>1, <2>1 DEF Acked, Pending
  <2>3. FlagCounts' /\ TestsHold' /\ FrontIsWritten' /\ CallIsLast'
    BY <1>1, <1>3, <2>1 DEF FlagCounts, TestsHold, FrontIsWritten, CallIsLast, Calling
  <2>4. Abandoned' = {m \in 1..submitted : m \notin ToSet(wire) \cup ToSet(queue')}
    BY <1>1, <2>1 DEF Abandoned, Calling
  <2>5. Abandoned = {m \in 1..submitted : m \notin ToSet(wire) \cup ToSet(queue)}
    BY <1>7, <2>1 DEF Calling
  <2>6. CASE queue = <<>> \/ failed[t]
    <3>1. queue' = queue /\ (~Acked \/ queue = <<>>)
      BY <1>4, <1>8, <2>1, <2>6
    <3>2. InOrder'
      BY <1>3, <2>1, <3>1 DEF InOrder
    <3>3. LossIsCounted'
      <4>1. Abandoned' = Abandoned
        BY <2>4, <2>5, <3>1
      <4> QED
        BY <1>3, <2>1, <2>2, <4>1 DEF LossIsCounted
    <3> QED
      BY <2>3, <3>2, <3>3 DEF Others
  <2>7. CASE queue # <<>> /\ ~failed[t]
    <3>1. /\ queue' = Tail(queue) /\ Head(queue) = queue[1] /\ Len(queue) >= 1
          /\ Len(queue') = Len(queue) - 1
          /\ \A i \in 1..Len(queue') : queue'[i] = queue[i + 1]
          /\ ToSet(queue) = ToSet(queue') \cup {queue[1]}
      <4>1. queue[1] \in 1..submitted
        BY <1>4, <2>7
      <4> QED
        BY <1>4, <2>1, <2>7, <4>1, Ends
    <3>2. InOrder'
      <4>1. /\ \A i, j \in 1..Len(queue') : i < j => queue'[i] < queue'[j]
            /\ queue' # <<>> => 1 \in 1..Len(queue') /\ 2 \in 1..Len(queue)
                                /\ queue[1] < queue[2] /\ queue'[1] = queue[2]
        BY <1>3, <1>4, <2>1, <2>7, <3>1 DEF InOrder
      <4>2. \A i \in 1..Len(wire) : wire[i] \in Nat /\ wire[i] <= queue[1]
        <5>1. \A i \in 1..Len(wire) : wire[i] \in Nat
          BY <1>4
        <5>2. queue[1] \in Nat
          BY <1>4, <2>7
        <5>3. \A i \in 1..Len(wire) : wire[i] < queue[1] \/ wire[i] = queue[1]
          BY <1>3, <2>7 DEF InOrder
        <5> QED
          BY <5>1, <5>2, <5>3
      <4>3. queue[1] \in Nat /\ (2 \in 1..Len(queue) => queue[2] \in Nat)
        BY <1>4, <2>7
      <4>4. queue' # <<>> => \A i \in 1..Len(wire) : wire[i] < queue'[1]
        BY <4>1, <4>2, <4>3
      <4> QED
        BY <2>1, <4>1, <4>4 DEF InOrder
    <3>3. LossIsCounted'
      <4>1. CASE queue[1] \in ToSet(wire)
        <5>1. Abandoned' \subseteq Abandoned
          BY <2>4, <2>5, <3>1, <4>1
        <5> QED
          <6>1. /\ Cardinality(Abandoned') \in Nat /\ Cardinality(Abandoned) \in Nat
                /\ Cardinality(Abandoned') <= Cardinality(Abandoned)
            BY <1>9, <5>1
          <6>2. Cardinality(Abandoned) <= 2 * garbage
            BY <1>3 DEF LossIsCounted
          <6>3. Cardinality(Abandoned') <= 2 * garbage
            BY <1>4, <6>1, <6>2
          <6> QED
            BY <2>1, <2>2, <6>3 DEF LossIsCounted
      <4>2. CASE queue[1] \notin ToSet(wire)
        <5>1. Pending
          BY <1>8, <2>1, <2>7, <3>1, <4>2 DEF Pending
        <5>2. Abandoned' \subseteq Abandoned \cup {queue[1]}
          BY <2>4, <2>5, <3>1
        <5> QED
          <6>1. /\ Cardinality(Abandoned') \in Nat /\ Cardinality(Abandoned) \in Nat
                /\ Cardinality(Abandoned') <= Cardinality(Abandoned) + 1
            BY <1>9, <5>2
          <6>2. Cardinality(Abandoned) < 2 * garbage
            BY <1>3, <5>1 DEF LossIsCounted
          <6>3. Cardinality(Abandoned') <= 2 * garbage
            BY <1>4, <6>1, <6>2
          <6> QED
            BY <2>1, <2>2, <6>3 DEF LossIsCounted
      <4> QED
        BY <4>1, <4>2
    <3> QED
      BY <2>3, <3>2, <3>3 DEF Others
  <2> QED
    BY <2>1, <2>6, <2>7
<1>18. CASE WriteNext(t)
  <2>1. /\ pc[t] = "next" /\ pc'[t] = "idle" /\ ~is_sending /\ writes = <<>> /\ done = <<>>
        /\ UNCHANGED <<msg, failed, queue, done, submitted, wire>>
    BY <1>1, <1>5, <1>6, <1>10, <1>18 DEF WriteNext, Step, callVars, bufVars, netVars
  <2>2. /\ queue = <<>> => UNCHANGED <<is_sending, writes, garbage>>
        /\ queue # <<>> => is_sending' = TRUE /\ writes' = <<Head(queue)>> /\ garbage' = garbage
                           /\ Head(queue) # Garbage
    <3>1. queue # <<>> => Head(queue) # Garbage
      BY <1>4 DEF Garbage
    <3> QED
      BY <1>18, <2>1, <3>1 DEF WriteNext, StartWrite
  <2>3. Abandoned' = Abandoned /\ Acked' = Acked /\ ~Acked
    BY <1>1, <1>8, <2>1 DEF Abandoned, Acked, Calling
  <2>4. InOrder' /\ FrontIsWritten'
    BY <1>3, <2>1, <2>2, <2>3 DEF InOrder, FrontIsWritten
  <2>5. LossIsCounted'
    BY <1>3, <1>4, <1>9, <2>1, <2>2, <2>3 DEF LossIsCounted, Pending
  <2>6. FlagCounts' /\ TestsHold' /\ CallIsLast'
    BY <1>1, <1>3, <2>1, <2>2 DEF FlagCounts, TestsHold, CallIsLast, Calling
  <2> QED
    BY <2>4, <2>5, <2>6 DEF Others
<1>heads. \A b \in BOOLEAN : <<b>> # <<>> /\ Head(<<b>>) = b
  OBVIOUS
<1>19. CASE WriteSucceeds
  <2>1. /\ writes # <<>> /\ done = <<>> /\ is_sending /\ writes' = <<>> /\ done' = <<FALSE>>
        /\ wire' = IF Head(writes) = Garbage THEN wire ELSE Append(wire, Head(writes))
        /\ UNCHANGED <<pc, msg, failed, queue, is_sending, submitted, garbage>>
    <3>1. writes # <<>>
      BY <1>19 DEF WriteSucceeds
    <3>2. done = <<>> /\ is_sending /\ Tail(writes) = <<>>
      BY <1>5, <3>1
    <3>3. \A b : Append(<<>>, b) = <<b>>
      OBVIOUS
    <3> QED
      BY <1>19, <3>1, <3>2, <3>3 DEF WriteSucceeds, callVars, bufVars, netVars
  <2>2. ~Acked /\ Acked'
    BY <1>1, <1>6, <1>8, <1>heads, <2>1 DEF Acked
  <2>3. FlagCounts' /\ TestsHold' /\ FrontIsWritten'
    BY <1>3, <2>1 DEF FlagCounts, TestsHold, FrontIsWritten
  <2>4. CASE Head(writes) = Garbage
    <3>1. wire' = wire /\ Abandoned' = Abandoned /\ Pending
      BY <2>1, <2>4 DEF Abandoned, Pending
    <3>2. InOrder' /\ CallIsLast'
      BY <1>3, <2>1, <2>2, <3>1 DEF InOrder, CallIsLast
    <3>3. LossIsCounted'
      BY <1>3, <1>4, <1>9, <2>1, <3>1 DEF LossIsCounted
    <3> QED
      BY <2>3, <3>2, <3>3 DEF Others
  <2>5. CASE Head(writes) # Garbage
    <3>1. /\ queue # <<>> /\ Head(queue) = queue[1] /\ Head(writes) = queue[1]
          /\ queue[1] \in 1..submitted /\ queue[1] \in ToSet(queue) /\ 1 \in 1..Len(queue)
      <4>1. queue # <<>> /\ Head(queue) = Head(writes)
        BY <1>3, <2>1, <2>5 DEF FrontIsWritten
      <4>2. Head(queue) = queue[1] /\ queue[1] \in 1..submitted /\ 1 \in DOMAIN queue
        BY <1>4, <4>1
      <4> QED
        BY <1>4, <4>1, <4>2 DEF ToSet
    <3>2. /\ Len(wire') = Len(wire) + 1
          /\ \A i \in 1..Len(wire) : wire'[i] = wire[i]
          /\ wire'[Len(wire) + 1] = queue[1]
          /\ ToSet(wire') = ToSet(wire) \cup {queue[1]}
      BY <1>4, <2>1, <2>5, <3>1, Ends
    <3>3. \A i \in 1..Len(wire') : wire'[i] = queue[1] \/ (i \in 1..Len(wire) /\ wire'[i] = wire[i])
      <4>1. Len(wire) \in Nat
        BY <1>4
      <4>2. \A i \in 1..(Len(wire) + 1) : i \in 1..Len(wire) \/ i = Len(wire) + 1
        BY <4>1
      <4> QED
        BY <3>2, <4>2
    <3>4. InOrder'
      BY <1>3, <2>1, <2>2, <3>3 DEF InOrder
    <3>5. CallIsLast'
      BY <1>3, <2>1, <3>1, <3>3 DEF CallIsLast
    <3>6. Abandoned' = Abandoned
      BY <2>1, <3>1, <3>2 DEF Abandoned
    <3>7. ~Pending'
      BY <2>1, <3>1, <3>2 DEF Pending
    <3>8. LossIsCounted'
      BY <1>3, <1>4, <1>9, <2>1, <3>6, <3>7 DEF LossIsCounted
    <3> QED
      BY <2>3, <3>4, <3>5, <3>8 DEF Others
  <2> QED
    BY <2>4, <2>5
<1>20. CASE WriteFails
  <2>1. /\ writes # <<>> /\ done = <<>> /\ is_sending /\ writes' = <<>> /\ done' = <<TRUE>>
        /\ UNCHANGED <<pc, msg, failed, queue, is_sending, submitted, garbage, wire>>
    <3>1. writes # <<>>
      BY <1>20 DEF WriteFails
    <3>2. done = <<>> /\ is_sending /\ Tail(writes) = <<>>
      BY <1>5, <3>1
    <3>3. \A b : Append(<<>>, b) = <<b>>
      OBVIOUS
    <3> QED
      BY <1>20, <3>1, <3>2, <3>3 DEF WriteFails, callVars, bufVars, netVars
  <2>2. ~Acked /\ ~Acked' /\ ~Pending' /\ Abandoned' = Abandoned
    BY <1>1, <1>6, <1>8, <1>heads, <2>1 DEF Acked, Pending, Abandoned
  <2>3. FlagCounts' /\ TestsHold' /\ FrontIsWritten' /\ CallIsLast' /\ InOrder'
    BY <1>3, <2>1, <2>2
       DEF FlagCounts, TestsHold, FrontIsWritten, CallIsLast, InOrder
  <2>4. LossIsCounted'
    BY <1>3, <1>4, <1>9, <2>1, <2>2 DEF LossIsCounted
  <2> QED
    BY <2>3, <2>4 DEF Others
<1>21. CASE Close \/ UNCHANGED vars
  <2>1. UNCHANGED <<pc, msg, failed, queue, is_sending, writes, done, submitted, garbage, wire>>
    BY <1>21 DEF Close, vars, callVars, bufVars, netVars
  <2>2. Abandoned' = Abandoned /\ Acked' = Acked
    BY <2>1 DEF Abandoned, Acked
  <2>3. FlagCounts' /\ TestsHold' /\ CallIsLast'
    BY <1>3, <2>1 DEF FlagCounts, TestsHold, CallIsLast
  <2> QED
    BY <1>11, <2>1, <2>2, <2>3 DEF Others
<1> QED
  BY <1>1, <1>12, <1>13, <1>14, <1>15, <1>16, <1>17, <1>18, <1>19, <1>20, <1>21
     DEF Next, ThreadRuns, WriteEnds

-----------------------------------------------------------------------------
(* Theorems.                                                               *)

\* The invariant of one thread: the flag, the front that is written, the order
\* of what waits and the count of what is lost.
LEMMA SerialInvariance == OneThread /\ Spec => []SerialInv
<1>1. (OneThread => SerialInv) /\ [Next]_vars => (OneThread => SerialInv)'
  BY NextSerial DEF OneThread
<1>2. Init => (OneThread => SerialInv)
  BY InitInv
<1>3. OneThread => OneThread'
  BY DEF OneThread
<1> QED
  BY <1>1, <1>2, <1>3, PTL DEF Spec

\* The type invariant, for any threads.
THEOREM TypeCorrect == Spec => []TypeOK
<1>1. Typed => TypeOK
  BY DEF Typed
<1>2. Init => Typed
  BY InitInv
<1> QED
  BY NextTyped, <1>1, <1>2, PTL DEF Spec

\* With one thread, a message that waits waits for a write that is under way.
THEOREM OneThreadServes == OneThread /\ Spec => []QueueIsServed
<1>1. OneThread /\ SerialInv => QueueIsServed
  <2> SUFFICES ASSUME OneThread, SerialInv, AtRest, queue # <<>>
               PROVE  writes # <<>> \/ done # <<>>
    BY DEF QueueIsServed
  <2>1. is_sending
    BY DEF OneThread, SerialInv, AtRest, TestsHold
  <2>2. Len(writes) + Len(done) = 1
    BY <2>1 DEF SerialInv, FlagCounts
  <2>3. Len(<<>>) = 0
    OBVIOUS
  <2> QED
    BY <2>2, <2>3
<1>2. OneThread => OneThread'
  BY DEF OneThread
<1> QED
  BY SerialInvariance, <1>1, <1>2, PTL

\* With one thread, is_sending_ tells exactly whether a write is under way.
THEOREM OneThreadFlag == OneThread /\ Spec => []FlagIsExact
<1>1. SerialInv => FlagIsExact
  BY DEF SerialInv, FlagCounts, FlagIsExact
<1> QED
  BY SerialInvariance, <1>1, PTL

\* With one thread, a busy period costs two messages at most.
THEOREM OneThreadLoss == OneThread /\ Spec => []LossIsBounded
<1>1. SerialInv => LossIsBounded
  <2> SUFFICES ASSUME SerialInv, AtRest PROVE Cardinality(Lost) <= 2 * garbage
    BY DEF LossIsBounded
  <2>1. Lost = Abandoned
    BY DEF AtRest, Lost, Abandoned, Calling
  <2> QED
    BY <2>1 DEF SerialInv, LossIsCounted
<1> QED
  BY SerialInvariance, <1>1, PTL

\* With one thread, the queue implements the channel.
THEOREM OneThreadIsChannel == OneThread /\ Spec => ImplementsChannel
<1>1. Init => Channel!ChannelInit
  BY DEF Init, Channel!ChannelInit
<1>2. SerialInv /\ [Next]_vars => [Channel!ChannelNext]_(Channel!channelVars)
  <2> SUFFICES ASSUME SerialInv, [Next]_vars
               PROVE  Channel!ChannelNext \/ UNCHANGED <<submitted, wire, open>>
    BY DEF Channel!channelVars
  <2> USE DEF Step, callVars, bufVars, netVars
  <2>1. ASSUME NEW t \in Threads, ThreadRuns(t)
        PROVE  UNCHANGED <<submitted, wire, open>>
    BY <2>1 DEF ThreadRuns, TestSize, TestFlag, AppendMessage, Begin, Handle, Pop, WriteNext
  <2>2. ASSUME NEW t \in Threads, Call(t)
        PROVE  Channel!Send
    BY <2>2 DEF Call, Channel!Send
  <2>3. CASE WriteSucceeds
    <3>1. CASE Head(writes) = Garbage
      BY <2>3, <3>1 DEF WriteSucceeds
    <3>2. CASE Head(writes) # Garbage
      <4>1. /\ writes # <<>> /\ open /\ wire' = Append(wire, Head(writes))
            /\ UNCHANGED <<pc, submitted, open>>
        BY <2>3, <3>2 DEF WriteSucceeds
      <4>2. queue # <<>> /\ Head(queue) = Head(writes)
        BY <3>2, <4>1 DEF SerialInv, FrontIsWritten
      <4>3. queue \in Seq(1..submitted) /\ wire \in Seq(1..submitted)
        BY DEF SerialInv, TypeOK
      <4>4. Head(queue) \in 1..submitted /\ Head(queue) = queue[1]
        <5>1. \A S : \A s \in Seq(S) : s # <<>> => Head(s) \in S /\ Head(s) = s[1]
          OBVIOUS
        <5> QED
          BY <4>2, <4>3, <5>1
      <4>5. ~Acked
        <5>1. /\ Len(writes) \in Nat /\ Len(done) \in Nat
              /\ Len(writes) = 0 <=> writes = <<>>
              /\ Len(done) = 0 <=> done = <<>>
          <6>1. writes \in Seq(0..submitted) /\ done \in Seq(BOOLEAN)
            BY DEF SerialInv, TypeOK
          <6>2. \A S : \A s \in Seq(S) : Len(s) \in Nat /\ (Len(s) = 0 <=> s = <<>>)
            OBVIOUS
          <6> QED
            BY <6>1, <6>2
        <5>2. Len(writes) + Len(done) = IF is_sending THEN 1 ELSE 0
          BY DEF SerialInv, FlagCounts
        <5>3. \A a, b \in Nat : a # 0 => a + b # 0 /\ (a + b = 1 => b = 0)
          OBVIOUS
        <5>4. is_sending /\ done = <<>>
          <6>1. Len(writes) # 0
            BY <4>1, <5>1
          <6>2. is_sending
            BY <5>1, <5>2, <5>3, <6>1
          <6>3. Len(done) = 0
            BY <5>1, <5>2, <5>3, <6>1, <6>2
          <6> QED
            BY <5>1, <6>2, <6>3
        <5>5. \A t \in Threads : pc[t] # "pop"
          BY <5>4 DEF SerialInv, TestsHold
        <5> QED
          BY <5>4, <5>5 DEF Acked
      <4>6. \A i \in 1..Len(wire) : wire[i] < Head(queue)
        BY <4>2, <4>4, <4>5 DEF SerialInv, InOrder
      <4> QED
        BY <4>1, <4>2, <4>4, <4>6 DEF Channel!ChannelNext, Channel!Deliver
    <3> QED
      BY <3>1, <3>2
  <2>4. CASE WriteFails
    BY <2>4 DEF WriteFails
  <2>5. CASE Close
    BY <2>5 DEF Close, Channel!ChannelNext, Channel!Shut
  <2>6. CASE UNCHANGED vars
    BY <2>6 DEF vars
  <2> QED
    BY <2>1, <2>2, <2>3, <2>4, <2>5, <2>6 DEF Next, WriteEnds, Channel!ChannelNext
<1> QED
  BY SerialInvariance, <1>1, <1>2, PTL DEF Spec, ImplementsChannel, Channel!ChannelSpec

\* What the peer saw is in the order of sending, and a step only adds to it.
LEMMA ChannelKeeps ==
  ASSUME submitted \in Nat, wire \in Seq(Nat), Channel!InSendingOrder,
         [Channel!ChannelNext]_(Channel!channelVars)
  PROVE  /\ submitted' \in Nat /\ wire' \in Seq(Nat) /\ Channel!InSendingOrder'
         /\ \A i \in 1..Len(wire) : i \in 1..Len(wire') /\ wire'[i] = wire[i]
         /\ ~open => UNCHANGED <<wire, open>>
<1> USE DEF Channel!InSendingOrder
<1>1. Len(wire) \in Nat
  OBVIOUS
<1>2. CASE Channel!Deliver
  <2>1. PICK m \in 1..submitted :
          /\ open /\ UNCHANGED <<submitted, open>> /\ wire' = Append(wire, m)
          /\ \A i \in 1..Len(wire) : wire[i] < m
    BY <1>2 DEF Channel!Deliver
  <2>2. /\ wire' \in Seq(Nat) /\ Len(wire') = Len(wire) + 1 /\ wire'[Len(wire) + 1] = m
        /\ \A i \in 1..Len(wire) : wire'[i] = wire[i]
    BY <2>1
  <2>3. \A i \in 1..Len(wire') : i \in 1..Len(wire) \/ i = Len(wire) + 1
    BY <1>1, <2>2
  <2>4. \A i \in 1..Len(wire) : i \in 1..Len(wire') /\ i < Len(wire) + 1
    BY <1>1, <2>2
  <2>5. \A i \in 1..Len(wire') : wire'[i] \in 1..submitted
    BY <2>1, <2>2, <2>3
  <2>6. \A i, j \in 1..Len(wire') : i < j => wire'[i] < wire'[j]
    <3> SUFFICES ASSUME NEW i \in 1..Len(wire'), NEW j \in 1..Len(wire'), i < j
                 PROVE  wire'[i] < wire'[j]
      OBVIOUS
    <3>1. i \in 1..Len(wire)
      BY <1>1, <2>2
    <3>2. CASE j \in 1..Len(wire)
      BY <2>2, <3>1, <3>2
    <3>3. CASE j = Len(wire) + 1
      BY <2>1, <2>2, <3>1, <3>3
    <3> QED
      BY <2>3, <3>2, <3>3
  <2> QED
    BY <2>1, <2>2, <2>4, <2>5, <2>6
<1>3. CASE Channel!Send
  BY <1>3 DEF Channel!Send
<1>4. CASE Channel!Shut \/ UNCHANGED Channel!channelVars
  BY <1>4 DEF Channel!Shut, Channel!channelVars
<1> QED
  BY <1>2, <1>3, <1>4 DEF Channel!ChannelNext

ChannelInv == submitted \in Nat /\ wire \in Seq(Nat) /\ Channel!InSendingOrder

LEMMA ChannelInvariance == Channel!ChannelSpec => []ChannelInv
<1>1. Channel!ChannelInit => ChannelInv
  BY DEF Channel!ChannelInit, ChannelInv, Channel!InSendingOrder
<1>2. ChannelInv /\ [Channel!ChannelNext]_(Channel!channelVars) => ChannelInv'
  BY ChannelKeeps DEF ChannelInv
<1> QED
  BY <1>1, <1>2, PTL DEF Channel!ChannelSpec

\* With one thread the peer sees the messages in the order of the calls of
\* async_send, none twice, whatever is lost.
THEOREM OneThreadKeepsOrder == OneThread /\ Spec => []Channel!InSendingOrder
BY OneThreadIsChannel, ChannelInvariance, PTL DEF ImplementsChannel, ChannelInv

\* With one thread nothing that reached the peer is taken back, and nothing
\* reaches it once the connection is closed.
THEOREM OneThreadOnlyAdds == OneThread /\ Spec => Channel!OnlyGrowsOpen
<1>1. ChannelInv /\ [Channel!ChannelNext]_(Channel!channelVars) =>
        /\ \A i \in 1..Len(wire) : i \in 1..Len(wire') /\ wire'[i] = wire[i]
        /\ ~open => UNCHANGED <<wire, open>>
  BY ChannelKeeps DEF ChannelInv
<1> QED
  BY <1>1, OneThreadIsChannel, ChannelInvariance, PTL
     DEF ImplementsChannel, Channel!ChannelSpec, Channel!OnlyGrowsOpen

=============================================================================
