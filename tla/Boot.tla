-------------------------------- MODULE Boot --------------------------------
(***************************************************************************)
(* The boot of the process, up to the pool of threads that serves: main    *)
(* (main.cpp, arg_parser.cpp), the four sections of the configuration file *)
(* in the order GameConfig loads them (game_config.cpp, the RapidJSON      *)
(* build), the construction of GameMain and of its services                *)
(* (game_main.cpp), the first accept, the pool AsioServer starts with the  *)
(* configured number of threads, and the loggers all of them create.  The  *)
(* boot runs on the main thread; a thread of the pool serves a client with *)
(* Serve.                                                                  *)
(*                                                                         *)
(* A section of the file is Bad (a check of the code rejects it),          *)
(* IllTyped (no check does, and RapidJSON is asked for a value of another  *)
(* type), or what it says.  An IllTyped value either fails RapidJSON's     *)
(* assertion, which ends the process, or, in a build without assertions,   *)
(* is read as any value.                                                   *)
(***************************************************************************)
EXTENDS Integers, Sequences, SequencesExt

CONSTANTS
  Counts,        \* the values "concurrency" may have
  LoggerLists,   \* the names of the loggers of a file, in order
  ServiceLists,  \* the names of the services of a file, in order
  Bad, IllTyped, \* what else a section may be
  SizeValues,    \* bound: size_t has the values 0..(SizeValues - 1)
  SystemThreads, \* bound: threads the system lets the process start
  MaxClients     \* bound: clients served

ASSUME BootAssumption ==
  /\ Counts \subseteq Int /\ Counts # {}
  /\ LoggerLists \subseteq Seq(STRING) /\ LoggerLists # {}
  /\ ServiceLists \subseteq Seq(STRING) /\ ServiceLists # {}
  /\ Bad # IllTyped
  /\ \A m \in {Bad, IllTyped} :
       m \notin Counts /\ m \notin LoggerLists /\ m \notin ServiceLists /\ m # "entity"
  /\ \A names \in LoggerLists : \A i \in DOMAIN names :
       "logger" \o names[i] \notin {"server", "login", "services"}
  /\ SizeValues \in Nat \ {0} /\ SystemThreads \in Nat /\ MaxClients \in Nat

DefaultConcurrency == 2

\* An int that is not negative is a size_t as well, and one that is becomes
\* more threads than any system starts.
ASSUME CountsAreInts ==
  \A n \in Counts \cup {DefaultConcurrency} :
    n < SizeValues /\ (n < 0 => SystemThreads < n + SizeValues)

Handled == {"LoginService"}  \* names preload_services_create_handler knows

\* What the path on the command line names: something check_config_file
\* rejects, a regular file with no dot in its path, a file called ".json", a
\* file that is not JSON, or a JSON file.
PathKinds == {"rejected", "no dot", "hidden", "not json", "json"}

VARIABLES
  pc,             \* where main is
  path, file,     \* the path given, the sections of the file
  config_,        \* GameConfig::config_: the sections that were stored
  handlers,       \* names in game_services_create_handler_
  concurrency_,   \* GameMain::concurrency_
  next,           \* index of the next service to create
  created,        \* service entities created, numbered from 1
  game_services_, \* name -> the services recorded under it
  loggers_,       \* LoggerManager::loggers_: the names
  pool,           \* threads in io_context_threads_pool_
  served          \* clients served so far

gameVars == <<handlers, concurrency_, next, created, game_services_>>
vars == <<pc, path, file, config_, gameVars, loggers_, pool, served>>

Files == [server   : Counts \cup {Bad, IllTyped},
          logger   : {Bad, IllTyped} \cup LoggerLists,
          login    : {"entity", Bad, IllTyped},
          services : {Bad, IllTyped} \cup ServiceLists]

Init ==
  /\ pc = "args"
  /\ path \in PathKinds /\ file \in Files
  /\ config_ = [s \in {} |-> <<>>]
  /\ handlers = {} /\ concurrency_ = DefaultConcurrency
  /\ next = 1 /\ created = 0
  /\ game_services_ = [n \in {} |-> <<>>]
  /\ loggers_ = {"common"}  \* g_file_logger
  /\ pool = 0 /\ served = 0

Go(from, to) == pc = from /\ pc' = to

\* m with v under the keys ks, whatever was there.
Store(m, ks, v) == [k \in DOMAIN m \cup ks |-> IF k \in ks THEN v ELSE m[k]]

-----------------------------------------------------------------------------
(* main up to the configuration.                                           *)

\* --config is given, or parse() fails and the process exits.
ParseArgs ==
  /\ Go("args", "check") \/ Go("args", "exited")
  /\ UNCHANGED <<path, file, config_, gameVars, loggers_, pool, served>>

\* check_config_file: substr(npos) throws for a path with no dot.
CheckConfigFile ==
  /\ Go("check", CASE path = "rejected" -> "exited"
                   [] path = "no dot"   -> "terminated"
                   [] OTHER             -> "open")
  /\ UNCHANGED <<path, file, config_, gameVars, loggers_, pool, served>>

\* GameConfig's constructor and load_config up to the first section: what it
\* cannot use it skips, and the boot goes on with an empty configuration.
OpenConfig ==
  /\ Go("open", IF path = "json" THEN "server" ELSE "construct")
  /\ loggers_' = loggers_ \cup {"GameConfig"}
  /\ UNCHANGED <<path, file, config_, gameVars, pool, served>>

-----------------------------------------------------------------------------
(* The sections.                                                           *)

\* RapidJSON's assertion on the type of a value of this section fails.
AssertFails(section) ==
  /\ pc = section /\ file[section] = IllTyped
  /\ pc' = "terminated"
  /\ UNCHANGED <<path, file, config_, gameVars, loggers_, pool, served>>

\* The values a section may be read as; any if it is ill typed.
Readings(section, values) ==
  IF file[section] = IllTyped THEN values ELSE {file[section]} \cap values

\* load_server_config returns without an entry where a check fails.
LoadServer ==
  /\ Go("server", "logger")
  /\ \/ \E n \in Readings("server", Counts) : config_' = Store(config_, {"server"}, n)
     \/ file.server = Bad /\ UNCHANGED config_
  /\ UNCHANGED <<path, file, gameVars, loggers_, pool, served>>

\* load_logger_config; load_single_logger_config skips a logger with no name.
LoadLogger ==
  /\ Go("logger", "login")
  /\ \/ \E names \in Readings("logger", LoggerLists) :
          config_' = Store(config_, {"logger" \o n : n \in ToSet(names) \ {""}}, "logger")
     \/ file.logger = Bad /\ UNCHANGED config_
  /\ UNCHANGED <<path, file, gameVars, loggers_, pool, served>>

\* A mutated form: a login section that is not there is only logged.
LoadLoginQuietly ==
  /\ Go("login", "services")
  /\ config_' = IF file.login = Bad THEN config_ ELSE Store(config_, {"login"}, "entity")
  /\ UNCHANGED <<path, file, gameVars, loggers_, pool, served>>

\* load_login_config throws where a check fails, which ends load_config.
LoadLogin ==
  /\ \/ /\ Go("login", "services")
        /\ \E e \in Readings("login", {"entity"}) : config_' = Store(config_, {"login"}, e)
     \/ Go("login", "construct") /\ file.login = Bad /\ UNCHANGED config_
  /\ UNCHANGED <<path, file, gameVars, loggers_, pool, served>>

\* load_services_config throws as well.
LoadServices ==
  /\ Go("services", "construct")
  /\ \/ \E l \in Readings("services", ServiceLists) :
          config_' = Store(config_, {"services"}, l)
     \/ file.services = Bad /\ UNCHANGED config_
  /\ UNCHANGED <<path, file, gameVars, loggers_, pool, served>>

-----------------------------------------------------------------------------
(* GameMain.                                                               *)

\* A mutated form: the handlers are there whatever the configuration.
ConstructWithHandlers ==
  /\ Go("construct", "init")
  /\ handlers' = Handled
  /\ concurrency_' = IF "server" \in DOMAIN config_ THEN config_["server"] ELSE concurrency_
  /\ UNCHANGED <<path, file, config_, next, created, game_services_, loggers_, pool, served>>

\* A mutated form: the port is taken for the number of threads.
ConstructMixedUp ==
  /\ Go("construct", "init")
  /\ handlers' = IF "server" \in DOMAIN config_ THEN Handled ELSE handlers
  /\ concurrency_' = 8080
  /\ UNCHANGED <<path, file, config_, next, created, game_services_, loggers_, pool, served>>

\* The constructor returns early when there is no server section.
Construct ==
  /\ Go("construct", "init")
  /\ IF "server" \in DOMAIN config_
     THEN handlers' = Handled /\ concurrency_' = config_["server"]
     ELSE UNCHANGED <<handlers, concurrency_>>
  /\ UNCHANGED <<path, file, config_, next, created, game_services_, loggers_, pool, served>>

\* The names init_all_game_services goes through.
Configured == IF "services" \in DOMAIN config_ THEN config_["services"] ELSE <<>>

\* A mutated form: the list is made, the service is not put on it.
InitServiceUnrecorded ==
  /\ next \in 1..Len(Configured)
  /\ LET name == Configured[next] IN
     IF name \in handlers
     THEN /\ Go("init", "init")
          /\ created' = created + 1
          /\ loggers_' = loggers_ \cup {"Entity"}
          /\ game_services_' = Store(game_services_, {name}, <<>>)
     ELSE /\ Go("init", IF name = "" THEN "init" ELSE "terminated")
          /\ UNCHANGED <<created, game_services_, loggers_>>
  /\ next' = next + 1
  /\ UNCHANGED <<path, file, config_, handlers, concurrency_, pool, served>>

\* init_game_service: an empty name is passed over, an unknown one throws out
\* of main, and record_game_service starts a new list for the name.
InitService ==
  /\ next \in 1..Len(Configured)
  /\ LET name == Configured[next] IN
     IF name \in handlers
     THEN /\ Go("init", "init")
          /\ created' = created + 1
          /\ loggers_' = loggers_ \cup {"Entity"}
          /\ game_services_' = Store(game_services_, {name}, <<created + 1>>)
     ELSE /\ Go("init", IF name = "" THEN "init" ELSE "terminated")
          /\ UNCHANGED <<created, game_services_, loggers_>>
  /\ next' = next + 1
  /\ UNCHANGED <<path, file, config_, handlers, concurrency_, pool, served>>

ServicesDone ==
  /\ Go("init", "listen")
  /\ next > Len(Configured)
  /\ UNCHANGED <<path, file, config_, gameVars, loggers_, pool, served>>

-----------------------------------------------------------------------------
(* The first accept and the pool of threads.                               *)

\* A mutated form: the connection is made when a client is there.
ListenLazily ==
  /\ Go("listen", "pool")
  /\ loggers_' = loggers_ \cup {"AsioServer"}
  /\ UNCHANGED <<path, file, config_, gameVars, pool, served>>

\* AsioServer's constructor, and start_tcp_accept with the connection it makes.
Listen ==
  /\ Go("listen", "pool")
  /\ loggers_' = loggers_ \cup {"AsioServer", "AsioTcpConnection"}
  /\ UNCHANGED <<path, file, config_, gameVars, pool, served>>

\* The file of a new logger cannot be opened, the address not be resolved or
\* bound: nothing catches what is thrown.
SystemRefuses ==
  /\ Go("open", "terminated") \/ Go("listen", "terminated")
     \/ /\ Go("init", "terminated") /\ "Entity" \notin loggers_
        /\ next \in 1..Len(Configured) /\ Configured[next] \in handlers
  /\ UNCHANGED <<path, file, config_, gameVars, loggers_, pool, served>>

\* The loop compares its size_t counter with the int.
Wanted == concurrency_ % SizeValues

\* A mutated form: one thread too many.
StartThreadOneMore ==
  /\ pool <= Wanted
  /\ IF pool < SystemThreads THEN Go("pool", "pool") /\ pool' = pool + 1
                             ELSE Go("pool", "terminated") /\ UNCHANGED pool
  /\ UNCHANGED <<path, file, config_, gameVars, loggers_, served>>

\* std::thread throws when the system starts no more of them.
StartThread ==
  /\ pool < Wanted
  /\ IF pool < SystemThreads THEN Go("pool", "pool") /\ pool' = pool + 1
                             ELSE Go("pool", "terminated") /\ UNCHANGED pool
  /\ UNCHANGED <<path, file, config_, gameVars, loggers_, served>>

\* wait() joins the threads: with none, main returns.
Wait ==
  /\ pool >= Wanted
  /\ Go("pool", IF pool = 0 THEN "exited" ELSE "serving")
  /\ UNCHANGED <<path, file, config_, gameVars, loggers_, pool, served>>

\* A thread of the pool accepts a client: start_tcp_accept makes the next
\* connection, and LoginService, when it runs and finds its section, an entity
\* if the class is ServerEntity.
Serve ==
  /\ pool > 0 /\ pc \in {"pool", "serving"} /\ served < MaxClients
  /\ served' = served + 1
  /\ \E made \in SUBSET {"Entity"} :
       /\ made # {} => "LoginService" \in DOMAIN game_services_ /\ "login" \in DOMAIN config_
       /\ loggers_' = loggers_ \cup {"AsioTcpConnection"} \cup made
  /\ UNCHANGED <<pc, path, file, config_, gameVars, pool>>

-----------------------------------------------------------------------------

Next ==
  \/ ParseArgs \/ CheckConfigFile \/ OpenConfig
  \/ \E s \in {"server", "logger", "login", "services"} : AssertFails(s)
  \/ LoadServer \/ LoadLogger \/ LoadLogin \/ LoadServices
  \/ Construct \/ InitService \/ ServicesDone
  \/ Listen \/ SystemRefuses \/ StartThread \/ Wait \/ Serve

Spec == Init /\ [][Next]_vars

-----------------------------------------------------------------------------
(* Properties.                                                             *)

Places == {"args", "check", "open", "server", "logger", "login", "services",
           "construct", "init", "listen", "pool", "serving", "exited", "terminated"}

TypeOK ==
  /\ pc \in Places /\ path \in PathKinds /\ file \in Files
  /\ handlers \subseteq Handled
  /\ concurrency_ \in Counts \cup {DefaultConcurrency}
  /\ next \in 1..(Len(Configured) + 1)
  /\ created \in 0..(next - 1)
  /\ DOMAIN game_services_ \subseteq handlers
  /\ loggers_ \subseteq {"common", "GameConfig", "Entity", "AsioServer", "AsioTcpConnection"}
  /\ pool \in 0..SystemThreads /\ served \in 0..MaxClients

\* get_game_service takes the front of the list it finds, unchecked: no service
\* has an empty list.
FrontExists ==
  \A n \in DOMAIN game_services_ :
    game_services_[n] # <<>> /\ ToSet(game_services_[n]) \subseteq 1..created

\* A section that is not there ends the load, so that a server whose services
\* run knows which entity to create for a client.
ServicesKnowLogin == created > 0 => {"server", "login"} \subseteq DOMAIN config_

\* Without a server section the process listens on the built-in address, and
\* there runs no service.
DefaultAddressRunsNothing ==
  "server" \notin DOMAIN config_ => created = 0 /\ concurrency_ = DefaultConcurrency

\* A process that serves has exactly the threads it was configured to have.
PoolIsConcurrency == pc = "serving" => pool = concurrency_

\* The map of the loggers has no lock, and needs none: once there is a thread
\* that serves, create_logger only finds what the boot has put there.
PoolOnlyFinds == [][pool > 0 => UNCHANGED loggers_]_vars

\* All services are initialised before the process serves.
AllServicesRun ==
  pc = "serving" /\ path = "json" /\ file.services \in ServiceLists
    => ToSet(file.services) \ {""} \subseteq DOMAIN game_services_

=============================================================================
