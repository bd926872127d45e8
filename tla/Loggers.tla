------------------------------- MODULE Loggers -------------------------------
(***************************************************************************)
(* LoggerManager (logger_manager.cpp) and the spdlog logger it makes       *)
(* (spdlog_logger_imp.cpp).  The calls come in any order, from one thread  *)
(* at a time: the map has no lock, and Boot shows (PoolOnlyFinds) that the *)
(* threads of the pool only find what is there.                            *)
(*                                                                         *)
(* A logger is the number of its construction; 1 is the default logger.    *)
(* What it writes and how a line looks is left out, so that the options of *)
(* a configuration are the level and the two that choose the file.  The    *)
(* level spdlog filters by is always the one the logger has.               *)
(***************************************************************************)
EXTENDS Naturals, Sequences

CONSTANTS
  Names,      \* names of loggers; a program may use the empty one
  Levels,     \* the values of LoggerLevel
  Default,    \* "major", the tag of the logger that is in no map
  MaxLoggers  \* bound: loggers constructed

ASSUME LoggersAssumption ==
  /\ Default \notin Names /\ "common" \in Names
  /\ "Debug" \in Levels /\ "unknown" \notin Levels /\ MaxLoggers \in Nat \ {0, 1}

Sinks    == {"stdout", "basic", "rotating"}

\* What create_logger may be given as its config.  "level" may name no level;
\* log_file_name may be missing; an option may hold a value of a wrong type.
NoConfig == [given |-> FALSE]
Configs  == {NoConfig} \cup
  [given : {TRUE}, level : Levels \cup {"unknown"}, file : BOOLEAN, sized : BOOLEAN,
   typed : BOOLEAN]

VARIABLES
  constructed,            \* the loggers: their sink and level_
  loggers_,               \* LoggerManager::loggers_
  default_logger_level_,
  handles,                \* <<name, logger>> the program has a shared_ptr of
  wanted                  \* history: the level last asked of the logger of a name,
                          \* and whether it was asked of all

vars == <<constructed, loggers_, default_logger_level_, handles, wanted>>

-----------------------------------------------------------------------------
(* SpdlogLoggerImp.                                                        *)

\* read_config throws bad_variant_access at a value of a wrong type.
Readable(config) == config.given => config.typed

\* read_config replaces the path it was given, by nothing if there is no name.
FilePath(path, config) == IF config.given THEN config.file ELSE path

\* The logger init() makes; path tells whether there is one.
Logger(path, config) ==
  [sink  |-> CASE ~FilePath(path, config)       -> "stdout"
               [] config.given /\ config.sized  -> "rotating"
               [] OTHER                         -> "basic",
   level |-> IF config.given /\ config.level \in Levels THEN config.level ELSE "Debug"]

Set(log, level) == [log EXCEPT !.level = level]

Asked(level, ofAll) == [level |-> level, ofAll |-> ofAll]

\* loggers_[name] = ...
Put(map, name, value) ==
  [n \in DOMAIN map \cup {name} |-> IF n = name THEN value ELSE map[n]]

-----------------------------------------------------------------------------
(* LoggerManager.                                                          *)

\* The static objects of logger_manager.cpp.
Init ==
  /\ constructed = <<Logger(FALSE, NoConfig), Set(Logger(TRUE, NoConfig), "Debug")>>
  /\ loggers_ = [n \in {"common"} |-> 2]
  /\ default_logger_level_ = "Debug"
  /\ handles = {<<Default, 1>>, <<"common", 2>>}
  /\ wanted = [n \in {Default, "common"} |-> Asked("Debug", FALSE)]

\* A mutated form: a name is given a new logger every time.
CreateAnew(name, level, path, config) ==
  /\ Len(constructed) < MaxLoggers /\ Readable(config)
  /\ constructed' = Append(constructed, Set(Logger(path, config), level))
  /\ loggers_' = Put(loggers_, name, Len(constructed'))
  /\ handles' = handles \cup {<<name, Len(constructed')>>}
  /\ wanted' = Put(wanted, name, Asked(level, FALSE))
  /\ UNCHANGED default_logger_level_

\* create_logger of a new name; the level of the call wins over the one of the
\* configuration.  What the constructor throws, at an unreadable configuration or
\* a file that does not open, leaves everything as it was.
CreateLogger(name, level, path, config) ==
  /\ name \notin DOMAIN loggers_
  /\ Len(constructed) < MaxLoggers /\ Readable(config)
  /\ constructed' = Append(constructed, Set(Logger(path, config), level))
  /\ loggers_' = Put(loggers_, name, Len(constructed'))
  /\ handles' = handles \cup {<<name, Len(constructed')>>}
  /\ wanted' = Put(wanted, name, Asked(level, FALSE))
  /\ UNCHANGED default_logger_level_

\* get_logger, and create_logger of a name that is there, whose level, path and
\* config are not looked at.
GetLogger(name) ==
  /\ name \in DOMAIN loggers_
  /\ handles' = handles \cup {<<name, loggers_[name]>>}
  /\ UNCHANGED <<constructed, loggers_, default_logger_level_, wanted>>

Release(h) ==
  /\ h[1] # Default
  /\ handles' = handles \ {h}
  /\ UNCHANGED <<constructed, loggers_, default_logger_level_, wanted>>

\* set_level of a logger the program holds.
SetLevel(h, level) ==
  /\ constructed' = [constructed EXCEPT ![h[2]] = Set(@, level)]
  /\ wanted' = [wanted EXCEPT ![h[1]] = Asked(level, FALSE)]
  /\ UNCHANGED <<loggers_, default_logger_level_, handles>>

\* set_logger_level("") is to set the level of all loggers (logger_manager.h:41).
\* It sets that of every logger of the map, but the default logger is in no map.
SetAllLevels(level) ==
  /\ default_logger_level_' = level
  /\ constructed' = [i \in DOMAIN constructed |->
       IF \E n \in DOMAIN loggers_ : loggers_[n] = i THEN Set(constructed[i], level)
                                                     ELSE constructed[i]]
  /\ wanted' = [n \in DOMAIN wanted |-> Asked(level, TRUE)]
  /\ UNCHANGED <<loggers_, handles>>

\* A mutated form: operator[] puts a null pointer under a new name.
SetLoggerLevelAnyway(name, level) ==
  /\ name \notin DOMAIN loggers_ \cup {""}
  /\ loggers_' = Put(loggers_, name, 0)
  /\ UNCHANGED <<constructed, default_logger_level_, handles, wanted>>

\* set_logger_level of a name, which does nothing for a name that is not there.
SetLoggerLevel(name, level) ==
  /\ name \in DOMAIN loggers_ \ {""}
  /\ constructed' = [constructed EXCEPT ![loggers_[name]] = Set(@, level)]
  /\ wanted' = [wanted EXCEPT ![name] = Asked(level, FALSE)]
  /\ UNCHANGED <<loggers_, default_logger_level_, handles>>

-----------------------------------------------------------------------------

Next ==
  \/ \E name \in Names, level \in Levels :
       \/ \E path \in BOOLEAN, config \in Configs : CreateLogger(name, level, path, config)
       \/ SetLoggerLevel(name, level)
  \/ \E name \in Names : GetLogger(name)
  \/ \E h \in handles : Release(h) \/ \E level \in Levels : SetLevel(h, level)
  \/ \E level \in Levels : SetAllLevels(level)

Spec == Init /\ [][Next]_vars

-----------------------------------------------------------------------------
(* Properties.                                                             *)

TypeOK ==
  /\ constructed \in Seq([sink : Sinks, level : Levels]) /\ Len(constructed) <= MaxLoggers
  /\ \A n \in DOMAIN loggers_ : n \in Names /\ loggers_[n] \in 2..Len(constructed)
  /\ default_logger_level_ \in Levels
  /\ handles \subseteq (Names \cup {Default}) \X (1..Len(constructed))
  /\ wanted \in [DOMAIN loggers_ \cup {Default} -> [level : Levels, ofAll : BOOLEAN]]

\* A level asked of a logger, at creation, by its name, by who holds it or as one
\* of all, is the level of every logger somebody has under that name, however and
\* whenever it was got.  One level is lost, against logger_manager.h:41: what is
\* asked of all does not reach the default logger, which has the level of some
\* earlier call.  It is the only one to be left out, and only by those calls.
LevelReaches ==
  \A h \in handles :
    \/ constructed[h[2]].level = wanted[h[1]].level
    \/ h[1] = Default /\ wanted[Default].ofAll

=============================================================================
