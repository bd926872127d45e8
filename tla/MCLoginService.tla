--------------------------- MODULE MCLoginService ---------------------------
(* Instances of LoginService for TLC.                                      *)
EXTENDS LoginServiceProofs, TLC

AllConfigs   == [service : BOOLEAN, login : BOOLEAN,
                 server : BOOLEAN, network : BOOLEAN]
\* The login configuration names "ServerEntity" with a "NetworkComponent", or
\* the service or its configuration is missing.
OwnedConfigs == [service : BOOLEAN, login : BOOLEAN,
                 server : {TRUE}, network : {TRUE}]

ThreadSymmetry == Permutations(Threads) \cup Permutations(Clients)

=============================================================================
