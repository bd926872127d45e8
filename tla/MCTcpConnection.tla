-------------------------- MODULE MCTcpConnection --------------------------
(* Instances of TcpConnection for TLC.                                     *)
EXTENDS TcpConnection

CONSTANTS t1, t2

OneOrTwo == {{t1}, {t1, t2}}
One      == {{t1}}

\* Two calls of close() and a failed read: more than a pool of two has threads.
TwoIfAccepted == [r \in Roles |-> IF r = "accepted" THEN 2 ELSE 1]
NoCloses      == [r \in Roles |-> 0]

=============================================================================
