----------------------------- MODULE MCLoggers -----------------------------
(* Instances of Loggers for TLC.                                           *)
EXTENDS Loggers

MCNames == {"common", "Entity", ""}
MCLevels == {"Debug", "Info", "Error"}

=============================================================================
