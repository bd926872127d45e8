------------------------------- MODULE MCBoot -------------------------------
(* Instances of Boot for TLC.                                              *)
EXTENDS Boot

MCCounts == -1..3
MCLoggerLists == {<<>>, <<"main", "">>, <<"main", "main">>}
MCServiceLists == {<<>>, <<"LoginService">>, <<"", "LoginService", "LoginService">>,
                   <<"LoginService", "ChatService">>}

=============================================================================
