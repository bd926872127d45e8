------------------------------- MODULE Channel -------------------------------
(***************************************************************************)
(* What a connection promises the game about what it sends, with no queue  *)
(* and no socket in it: messages reach the peer in the order they were     *)
(* sent, each at most once, and only while the connection is open.  Any of *)
(* them may be lost, without a word to anybody.                            *)
(*                                                                         *)
(* SendQueue is shown to implement this with one thread.                   *)
(***************************************************************************)
EXTENDS Naturals, Sequences

VARIABLES
  submitted,  \* messages sent, numbered from 1
  delivered,  \* messages that reached the peer, in part at least
  open        \* the connection is open

channelVars == <<submitted, delivered, open>>

ChannelInit == submitted = 0 /\ delivered = <<>> /\ open = TRUE

\* A closed connection takes messages as well.
Send ==
  /\ submitted' = submitted + 1
  /\ UNCHANGED <<delivered, open>>

Deliver ==
  /\ open
  /\ \E m \in 1..submitted :
       /\ \A i \in 1..Len(delivered) : delivered[i] < m
       /\ delivered' = Append(delivered, m)
  /\ UNCHANGED <<submitted, open>>

Shut ==
  /\ open /\ open' = FALSE
  /\ UNCHANGED <<submitted, delivered>>

ChannelNext == Send \/ Deliver \/ Shut

ChannelSpec == ChannelInit /\ [][ChannelNext]_channelVars

-----------------------------------------------------------------------------
(* What follows.                                                           *)

\* The peer sees messages that were sent, in their order, and none twice.
InSendingOrder ==
  /\ \A i \in 1..Len(delivered) : delivered[i] \in 1..submitted
  /\ \A i, j \in 1..Len(delivered) : i < j => delivered[i] < delivered[j]

\* What reached the peer stays as it is, and a closed connection sends nothing.
OnlyGrowsOpen ==
  [][/\ \A i \in 1..Len(delivered) : i \in 1..Len(delivered') /\ delivered'[i] = delivered[i]
     /\ ~open => UNCHANGED <<delivered, open>>]_channelVars

=============================================================================
