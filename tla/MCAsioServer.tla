---------------------------- MODULE MCAsioServer ----------------------------
(* Instances of AsioServer for TLC.                                        *)
EXTENDS AsioServerProofs, TLC

\* The platforms: whether a listening port can be bound a second time
\* (Windows) or not (Linux, macOS), and a host name or a numeric address.
AllPlatforms    == [rebind : BOOLEAN, literal : BOOLEAN]
NumericAddress  == {[rebind |-> TRUE, literal |-> TRUE]}


=============================================================================
