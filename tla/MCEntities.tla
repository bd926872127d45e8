----------------------------- MODULE MCEntities -----------------------------
(* Instances of Entities for TLC.                                          *)
EXTENDS Entities

\* A generated id and one that a program chose.
MCIds == {<<"a">>, <<"b", "_", "1">>}

\* Host names with and without an underscore, a port of two digits and the least
\* int, whose digits alone are no int.
MCAddresses == {[ip |-> <<"h">>, port |-> 12], [ip |-> <<"h", "_", "k">>, port |-> 12],
                [ip |-> <<"h">>, port |-> -100]}

\* The one component of the program.
MCTypes == {"NetworkComponent"}

=============================================================================
