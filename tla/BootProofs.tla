----------------------------- MODULE BootProofs -----------------------------
(***************************************************************************)
(* Theorems of Boot, for every file, every list of services and any number *)
(* of threads: what runs after a boot has the configuration it needs, and  *)
(* no thread of the pool ever adds a logger.                               *)
(***************************************************************************)
EXTENDS Boot, TLAPS

Loading == {"args", "check", "open", "server", "logger", "login", "services"}

\* Nothing is constructed while the file is loaded.
NotYet ==
  pc \in Loading \cup {"construct"} =>
    /\ handlers = {} /\ created = 0 /\ next = 1
    /\ concurrency_ = DefaultConcurrency

\* What is stored has the type of its section, and the services come last.
Sections ==
  /\ "server" \in DOMAIN config_ => config_["server"] \in Counts
  /\ "services" \in DOMAIN config_ => config_["services"] \in ServiceLists
  /\ "services" \in DOMAIN config_ => "login" \in DOMAIN config_
  /\ pc \in Loading => "services" \notin DOMAIN config_
  /\ pc = "services" => "login" \in DOMAIN config_

\* The handlers and the services come from sections that are there.
Causes ==
  /\ handlers # {} => "server" \in DOMAIN config_
  /\ "server" \notin DOMAIN config_ => concurrency_ = DefaultConcurrency
  /\ created > 0 => handlers # {} /\ "services" \in DOMAIN config_
  /\ created > 0 => "Entity" \in loggers_
  /\ DOMAIN game_services_ # {} => created > 0

\* Threads exist only once there is a connection waiting for a client.
PoolComesLast ==
  /\ pool > 0 => pc \in {"pool", "serving", "terminated"}
  /\ pc \in {"pool", "serving"} => "AsioTcpConnection" \in loggers_

BootInv ==
  TypeOK /\ FrontExists /\ NotYet /\ Sections /\ Causes /\ PoolComesLast

-----------------------------------------------------------------------------

\* A section is read as one of its values.
LEMMA ReadingsAreValues ==
  ASSUME NEW section, NEW values
  PROVE  Readings(section, values) \subseteq values
BY DEF Readings

\* The services to go through are a list of names.
LEMMA ConfiguredIsList == Sections => Configured \in Seq(STRING)
<1> SUFFICES ASSUME Sections PROVE Configured \in Seq(STRING)
  OBVIOUS
<1>1. CASE "services" \in DOMAIN config_
  BY <1>1, BootAssumption DEF Sections, Configured
<1>2. CASE "services" \notin DOMAIN config_
  BY <1>2 DEF Configured
<1> QED
  BY <1>1, <1>2

\* The initial states.
LEMMA InitInv == Init => BootInv
<1> SUFFICES ASSUME Init PROVE BootInv
  OBVIOUS
<1> USE DEF Init
<1>1. TypeOK
  BY BootAssumption DEF TypeOK, Places, Configured, DefaultConcurrency
<1>2. FrontExists /\ NotYet /\ Sections /\ Causes /\ PoolComesLast
  BY DEF FrontExists, NotYet, Sections, Causes, PoolComesLast
<1> QED
  BY <1>1, <1>2 DEF BootInv

Quiet == UNCHANGED <<path, file, config_, gameVars, loggers_, pool, served>>

\* The steps that only move the main thread.
LEMMA NextQuiet ==
  ASSUME BootInv, ParseArgs \/ CheckConfigFile \/ ServicesDone \/ Wait \/ SystemRefuses
                  \/ (\E s \in {"server", "logger", "login", "services"} : AssertFails(s))
                  \/ UNCHANGED vars
  PROVE  BootInv'
<1> USE DEF BootInv, Go, gameVars
<1>1. Quiet
  BY DEF Quiet, ParseArgs, CheckConfigFile, ServicesDone, Wait, SystemRefuses, AssertFails, vars
<1>2. /\ pc' \in Places
      /\ pc' \in Loading => pc \in Loading
      /\ pc' = "construct" => pc = "construct"
      /\ pc' = "services" => pc = "services"
      /\ pc' \in {"pool", "serving"} => pc \in {"pool", "serving"}
      /\ pool > 0 => pc' \in {"pool", "serving", "terminated"}
  <2> USE DEF Loading, Places, TypeOK, PoolComesLast
  <2>1. CASE ParseArgs
    BY <2>1 DEF ParseArgs
  <2>2. CASE CheckConfigFile
    BY <2>2 DEF CheckConfigFile
  <2>3. CASE ServicesDone
    BY <2>3 DEF ServicesDone
  <2>4. CASE Wait
    BY <2>4, BootAssumption DEF Wait
  <2>5. CASE SystemRefuses
    BY <2>5 DEF SystemRefuses
  <2>6. CASE \E s \in {"server", "logger", "login", "services"} : AssertFails(s)
    BY <2>6 DEF AssertFails
  <2>7. CASE UNCHANGED vars
    BY <2>7 DEF vars
  <2> QED
    BY <2>1, <2>2, <2>3, <2>4, <2>5, <2>6, <2>7
<1> QED
  BY <1>1, <1>2
     DEF Quiet, TypeOK, FrontExists, NotYet, Sections, Causes, PoolComesLast, Configured

Loaders == LoadServer \/ LoadLogger \/ LoadLogin \/ LoadServices

\* The steps that store a section, or stop before it.
LEMMA NextLoad ==
  ASSUME BootInv, Loaders
  PROVE  BootInv'
<1> USE DEF BootInv
<1>1. /\ UNCHANGED <<path, file, gameVars, loggers_, pool, served>>
      /\ pc \in {"server", "logger", "login", "services"}
      /\ pc' \in {"logger", "login", "services", "construct"}
      /\ pc' = "services" => pc = "login"
  BY DEF Loaders, LoadServer, LoadLogger, LoadLogin, LoadServices, Go
<1>2. /\ "server" \in DOMAIN config_' => config_'["server"] \in Counts
      /\ "services" \in DOMAIN config_' => config_'["services"] \in ServiceLists
      /\ "services" \in DOMAIN config_' => "login" \in DOMAIN config_' /\ pc' = "construct"
      /\ pc' = "services" => "login" \in DOMAIN config_'
  <2>1. CASE LoadServer
    BY <2>1, ReadingsAreValues DEF Store, LoadServer, Go, Sections, Loading
  <2>2. CASE LoadLogger
    <3>1. CASE UNCHANGED config_
      BY <2>2, <3>1 DEF LoadLogger, Go, Sections, Loading
    <3>2. CASE \E names \in Readings("logger", LoggerLists) :
                 config_' = Store(config_, {"logger" \o n : n \in ToSet(names) \ {""}}, "logger")
      <4>1. PICK names \in LoggerLists :
              config_' = Store(config_, {"logger" \o n : n \in ToSet(names) \ {""}}, "logger")
        BY <3>2, ReadingsAreValues
      <4>2. {"logger" \o n : n \in ToSet(names) \ {""}}
              \cap {"server", "login", "services"} = {}
        BY BootAssumption DEF ToSet
      <4> HIDE DEF Sections
      <4> DEFINE keys == {"logger" \o n : n \in ToSet(names) \ {""}}
      <4>3. \A k \in {"server", "login", "services"} :
              /\ k \in DOMAIN config_' <=> k \in DOMAIN config_
              /\ k \in DOMAIN config_ => config_'[k] = config_[k]
        <5> HIDE DEF keys
        <5>1. config_' = Store(config_, keys, "logger") /\ keys \cap {"server", "login", "services"} = {}
          BY <4>1, <4>2 DEF keys
        <5> QED
          BY <5>1 DEF Store
      <4> QED
        BY <2>2, <4>3 DEF LoadLogger, Go, Sections, Loading
    <3> QED
      BY <2>2, <3>1, <3>2 DEF LoadLogger
  <2>3. CASE LoadLogin
    BY <2>3, ReadingsAreValues DEF Store, LoadLogin, Go, Sections, Loading
  <2>4. CASE LoadServices
    BY <2>4, ReadingsAreValues DEF Store, LoadServices, Go, Sections, Loading
  <2> QED
    BY <2>1, <2>2, <2>3, <2>4 DEF Loaders
<1>3. Sections'
  BY <1>1, <1>2 DEF Sections, Loading
<1>4. NotYet' /\ Causes' /\ FrontExists' /\ PoolComesLast'
  BY <1>1 DEF gameVars, NotYet, Causes, FrontExists, PoolComesLast, Loading
<1>5. TypeOK'
  <2>1. Configured' \in Seq(STRING)
    <3>1. CASE "services" \in DOMAIN config_'
      BY <1>3, <3>1, BootAssumption DEF Sections, Configured
    <3>2. CASE "services" \notin DOMAIN config_'
      BY <3>2 DEF Configured
    <3> QED
      BY <3>1, <3>2
  <2> QED
    BY <1>1, <1>4, <2>1 DEF gameVars, TypeOK, NotYet, Loading, Places
<1> QED
  BY <1>3, <1>4, <1>5

\* The constructor of GameConfig and the one of GameMain.
LEMMA NextConstruct ==
  ASSUME BootInv, OpenConfig \/ Construct
  PROVE  BootInv'
<1> USE DEF BootInv, Go, gameVars
<1>1. CASE OpenConfig
  BY <1>1 DEF OpenConfig, TypeOK, FrontExists, NotYet, Sections, Causes, PoolComesLast,
     Configured, Loading, Places
<1>2. CASE Construct
  <2>1. TypeOK'
    BY <1>2 DEF Construct, TypeOK, Sections, Configured, Places, Handled
  <2>2. FrontExists' /\ NotYet' /\ Sections' /\ Causes' /\ PoolComesLast'
    BY <1>2 DEF Construct, FrontExists, NotYet, Sections, Causes, PoolComesLast, Loading,
       Handled, TypeOK
  <2> QED
    BY <2>1, <2>2
<1> QED
  BY <1>1, <1>2

\* A service is created and put on a list of its own.
LEMMA NextService ==
  ASSUME BootInv, InitService
  PROVE  BootInv'
<1> DEFINE name == Configured[next]
<1> USE DEF BootInv
<1>1. /\ pc = "init" /\ pc' \in {"init", "terminated"}
      /\ next \in 1..Len(Configured) /\ next' = next + 1
      /\ UNCHANGED <<path, file, config_, handlers, concurrency_, pool, served>>
  BY DEF InitService, Go
<1>2. Configured' = Configured /\ Configured \in Seq(STRING)
  BY <1>1, ConfiguredIsList DEF Configured
<1>3. created \in Nat /\ next \in Nat /\ created <= next - 1
  BY <1>2 DEF TypeOK
<1>4. CASE name \in handlers
  <2>1. /\ created' = created + 1
        /\ game_services_' = Store(game_services_, {name}, <<created + 1>>)
        /\ loggers_' = loggers_ \cup {"Entity"}
    BY <1>4 DEF InitService
  <2>2. FrontExists'
    <3>1. \A n \in DOMAIN game_services_' :
            \/ n \in DOMAIN game_services_ /\ game_services_'[n] = game_services_[n]
            \/ game_services_'[n] = <<created + 1>>
      BY <2>1 DEF Store
    <3>2. ToSet(<<created + 1>>) = {created + 1} /\ <<created + 1>> # <<>>
      BY DEF ToSet
    <3>3. 1..created \subseteq 1..(created + 1) /\ created + 1 \in 1..(created + 1)
      BY <1>3
    <3> QED
      BY <2>1, <3>1, <3>2, <3>3 DEF FrontExists
  <2>3. DOMAIN game_services_' \subseteq handlers
    BY <1>4, <2>1 DEF TypeOK, Store
  <2>4. TypeOK'
    <3>1. Len(Configured) \in Nat
      BY <1>2
    <3>2. next' \in 1..(Len(Configured') + 1) /\ created' \in 0..(next' - 1)
      <4> HIDE DEF BootInv, name
      <4> QED
        BY <1>1, <1>2, <1>3, <2>1, <3>1
    <3> QED
      BY <1>1, <2>1, <2>3, <3>2 DEF TypeOK, Places
  <2>5. Causes'
    BY <1>1, <1>3, <1>4, <2>1 DEF Causes, Configured
  <2>6. NotYet' /\ Sections' /\ PoolComesLast'
    BY <1>1, <2>1 DEF NotYet, Sections, PoolComesLast, Loading
  <2> QED
    BY <2>2, <2>4, <2>5, <2>6
<1>5. CASE name \notin handlers
  <2>1. UNCHANGED <<created, game_services_, loggers_>>
    BY <1>5 DEF InitService
  <2> QED
    BY <1>1, <1>2, <1>3, <2>1
       DEF TypeOK, FrontExists, NotYet, Sections, Causes, PoolComesLast, Loading, Places
<1> QED
  BY <1>4, <1>5

\* Listening, the threads and what they serve.
LEMMA NextServe ==
  ASSUME BootInv, Listen \/ StartThread \/ Serve
  PROVE  BootInv'
<1> USE DEF BootInv, Go, gameVars
<1>1. CASE Listen
  BY <1>1 DEF Listen, TypeOK, FrontExists, NotYet, Sections, Causes, PoolComesLast,
     Configured, Loading, Places
<1>2. CASE StartThread
  BY <1>2, BootAssumption DEF StartThread, TypeOK, FrontExists, NotYet, Sections, Causes,
     PoolComesLast, Configured, Loading, Places
<1>3. CASE Serve
  BY <1>3, BootAssumption DEF Serve, TypeOK, FrontExists, NotYet, Sections, Causes,
     PoolComesLast, Configured, Loading, Places
<1> QED
  BY <1>1, <1>2, <1>3

\* The invariant that the theorems follow from.
LEMMA BootInvariance == Spec => []BootInv
<1>1. BootInv /\ [Next]_vars => BootInv'
  BY NextQuiet, NextLoad, NextConstruct, NextService, NextServe DEF Next, Loaders
<1> QED
  BY InitInv, <1>1, PTL DEF Spec

\* The type invariant, for every file.
THEOREM TypeCorrect == Spec => []TypeOK
BY BootInvariance, PTL DEF BootInv

\* No service is recorded under a name with an empty list.
THEOREM ListsHaveFronts == Spec => []FrontExists
BY BootInvariance, PTL DEF BootInv

\* Where a service runs, the server and the login section were loaded.
THEOREM ServicesAreConfigured == Spec => []ServicesKnowLogin
<1>1. BootInv => ServicesKnowLogin
  BY DEF BootInv, Causes, Sections, ServicesKnowLogin
<1> QED
  BY BootInvariance, <1>1, PTL

\* With the built-in address no service runs.
THEOREM DefaultRunsNothing == Spec => []DefaultAddressRunsNothing
<1>1. BootInv => DefaultAddressRunsNothing
  BY DEF BootInv, Causes, TypeOK, DefaultAddressRunsNothing
<1> QED
  BY BootInvariance, <1>1, PTL

\* No thread of the pool, however many there are, ever adds a logger to the map
\* that has no lock.
THEOREM LoggersAreComplete == Spec => PoolOnlyFinds
<1>1. BootInv /\ [Next]_vars => (pool > 0 => UNCHANGED loggers_)
  <2> SUFFICES ASSUME BootInv, [Next]_vars, pool > 0 PROVE UNCHANGED loggers_
    OBVIOUS
  <2>1. /\ pc \in {"pool", "serving", "terminated"}
        /\ pc \in {"pool", "serving"} => "AsioTcpConnection" \in loggers_
    BY DEF BootInv, PoolComesLast
  <2>2. "LoginService" \in DOMAIN game_services_ => "Entity" \in loggers_
    BY DEF BootInv, Causes
  <2>3. CASE Serve
    BY <2>1, <2>2, <2>3 DEF Serve
  <2> QED
    BY <2>1, <2>3 DEF Next, vars, Go, ParseArgs, CheckConfigFile, OpenConfig, AssertFails,
       LoadServer, LoadLogger, LoadLogin, LoadServices, Construct, InitService, ServicesDone,
       Listen, SystemRefuses, StartThread, Wait, gameVars
<1> QED
  BY BootInvariance, <1>1, PTL DEF Spec, PoolOnlyFinds

-----------------------------------------------------------------------------
(* The pool has the configured number of threads.                          *)

\* Starting threads stops at the number wanted, and waiting starts there.
PoolCounts ==
  /\ pc = "pool" => pool <= Wanted
  /\ pc = "serving" => pool = Wanted

LEMMA SmallIsItself ==
  ASSUME NEW m \in Nat, NEW n \in Nat, n < m
  PROVE  n % m = n
OBVIOUS

LEMMA NegativeWraps ==
  ASSUME NEW m \in Nat \ {0}, NEW n \in Int, n < 0, 0 <= n + m
  PROVE  n % m = n + m
OBVIOUS

LEMMA RemainderIsBelow ==
  ASSUME NEW m \in Nat \ {0}, NEW n \in Int
  PROVE  n % m \in 0..(m - 1)
OBVIOUS

\* What the loop counts up to is the configured number, or more threads than
\* there can be.
LEMMA WantedIsConcurrency ==
  ASSUME TypeOK
  PROVE  Wanted \in Nat /\ (Wanted = concurrency_ \/ Wanted > SystemThreads)
<1>1. /\ concurrency_ \in Int /\ concurrency_ < SizeValues
      /\ concurrency_ < 0 => SystemThreads < concurrency_ + SizeValues
  BY BootAssumption, CountsAreInts DEF TypeOK, DefaultConcurrency
<1>2. SizeValues \in Nat \ {0} /\ SystemThreads \in Nat
  BY BootAssumption
<1>3. Wanted \in 0..(SizeValues - 1)
  BY <1>1, <1>2, RemainderIsBelow DEF Wanted
<1>4. CASE concurrency_ < 0
  <2>1. 0 <= concurrency_ + SizeValues
    BY <1>1, <1>2, <1>4
  <2>2. Wanted = concurrency_ + SizeValues
    BY <1>1, <1>2, <1>4, <2>1, NegativeWraps DEF Wanted
  <2> QED
    BY <1>1, <1>2, <1>3, <1>4, <2>2
<1>5. CASE concurrency_ >= 0
  <2>1. concurrency_ \in Nat
    BY <1>1, <1>5
  <2>2. Wanted = concurrency_
    BY <1>1, <1>2, <2>1, SmallIsItself DEF Wanted
  <2> QED
    BY <1>2, <1>3, <2>2
<1> QED
  BY <1>1, <1>4, <1>5

\* The number wanted is settled before there is a pool.
LEMMA NextPool ==
  ASSUME BootInv, PoolCounts, [Next]_vars
  PROVE  PoolCounts'
<1>1. Wanted \in Nat /\ pool \in Nat
  BY WantedIsConcurrency, BootAssumption DEF BootInv, TypeOK
<1>2. CASE Listen
  <2>1. pc' = "pool" /\ pool = 0 /\ UNCHANGED <<pool, Wanted>>
    BY <1>2, BootAssumption DEF Listen, Go, gameVars, Wanted, BootInv, PoolComesLast, TypeOK
  <2> QED
    BY <1>1, <2>1 DEF PoolCounts
<1>3. CASE StartThread
  <2>1. UNCHANGED Wanted
    BY <1>3 DEF StartThread, gameVars, Wanted
  <2>2. pc' # "serving" /\ (pc' = "pool" => pool < Wanted /\ pool' = pool + 1)
    BY <1>3 DEF StartThread, Go
  <2> QED
    BY <1>1, <2>1, <2>2 DEF PoolCounts
<1>4. CASE Wait
  <2>1. UNCHANGED <<pool, Wanted>>
    BY <1>4 DEF Wait, gameVars, Wanted
  <2>2. pc = "pool" /\ pool >= Wanted /\ pc' # "pool"
    BY <1>4 DEF Wait, Go
  <2> QED
    BY <1>1, <2>1, <2>2 DEF PoolCounts
<1>5. CASE Serve \/ UNCHANGED vars
  BY <1>5 DEF Serve, vars, gameVars, Wanted, PoolCounts
<1>6. CASE ParseArgs \/ CheckConfigFile \/ OpenConfig \/ Loaders \/ Construct \/ InitService
           \/ ServicesDone \/ SystemRefuses
           \/ (\E s \in {"server", "logger", "login", "services"} : AssertFails(s))
  <2>1. pc' \notin {"pool", "serving"}
    BY <1>6 DEF ParseArgs, CheckConfigFile, OpenConfig, Loaders, LoadServer, LoadLogger,
       LoadLogin, LoadServices, Construct, InitService, ServicesDone, SystemRefuses,
       AssertFails, Go
  <2> QED
    BY <2>1 DEF PoolCounts
<1> QED
  BY <1>2, <1>3, <1>4, <1>5, <1>6 DEF Next, Loaders

\* A process that serves has exactly the threads it was configured to have,
\* whatever the number in the file and the threads the system gives.
THEOREM PoolIsAsConfigured == Spec => []PoolIsConcurrency
<1>1. Init => PoolCounts
  BY DEF Init, PoolCounts
<1>2. BootInv /\ PoolCounts => PoolIsConcurrency
  <2> SUFFICES ASSUME BootInv, PoolCounts, pc = "serving" PROVE pool = concurrency_
    BY DEF PoolIsConcurrency
  <2>1. pool = Wanted /\ pool \in 0..SystemThreads
    BY DEF PoolCounts, BootInv, TypeOK
  <2> QED
    BY <2>1, WantedIsConcurrency, BootAssumption DEF BootInv
<1> QED
  BY BootInvariance, NextPool, <1>1, <1>2, PTL DEF Spec

-----------------------------------------------------------------------------
(* The services of a file that the load does not give up on.               *)

\* The file lists its services, and nothing ends the load before that list.
Loadable == path = "json" /\ file.login # Bad /\ file.services \in ServiceLists

\* The services of the file are those gone through, and every name passed was
\* empty or has its list.
ServicesLoaded ==
  /\ pc \in {"construct", "init", "listen", "pool", "serving"} /\ Loadable =>
       "services" \in DOMAIN config_ /\ config_["services"] = file.services
  /\ pc # "terminated" => \A i \in 1..(next - 1) :
       Configured[i] = "" \/ Configured[i] \in DOMAIN game_services_
  /\ pc \in {"listen", "pool", "serving"} => next > Len(Configured)

\* While the file is loaded nothing is gone through yet.
LEMMA NextLoadedConfig ==
  ASSUME BootInv, ServicesLoaded, OpenConfig \/ Loaders
  PROVE  ServicesLoaded'
<1>1. /\ pc \in {"open", "server", "logger", "login", "services"}
      /\ UNCHANGED <<path, file, next>> /\ next = 1
  BY DEF OpenConfig, Loaders, LoadServer, LoadLogger, LoadLogin, LoadServices, Go, gameVars,
     BootInv, NotYet, Loading
<1>2. pc' \in {"server", "logger", "login", "services", "construct"}
  BY DEF OpenConfig, Loaders, LoadServer, LoadLogger, LoadLogin, LoadServices, Go
<1>3. ASSUME pc' = "construct", Loadable
      PROVE  "services" \in DOMAIN config_' /\ config_'["services"] = file.services
  <2>1. LoadServices
    BY <1>3, BootAssumption DEF OpenConfig, Loaders, LoadServer, LoadLogger, LoadLogin,
       LoadServices, Go, Loadable
  <2>2. file.services \in ServiceLists /\ file.services # Bad /\ file.services # IllTyped
    BY <1>3, BootAssumption DEF Loadable
  <2>3. config_' = Store(config_, {"services"}, file.services)
    BY <2>1, <2>2 DEF LoadServices, Readings
  <2> QED
    BY <2>3 DEF Store
<1>4. \A i \in 1..(next' - 1) : FALSE
  BY <1>1
<1> QED
  BY <1>1, <1>2, <1>3, <1>4 DEF ServicesLoaded, Loadable

\* A step that goes through a name puts it on a list, passes an empty one, or
\* ends the process.
LEMMA NextLoadedService ==
  ASSUME BootInv, ServicesLoaded, InitService
  PROVE  ServicesLoaded'
<1> DEFINE name == Configured[next]
<1>1. /\ pc = "init" /\ pc' \in {"init", "terminated"}
      /\ next \in 1..Len(Configured) /\ next' = next + 1
      /\ UNCHANGED <<path, file, config_>>
  BY DEF InitService, Go
<1>2. Configured' = Configured /\ Configured \in Seq(STRING) /\ next \in Nat
  BY <1>1, ConfiguredIsList DEF Configured, BootInv
<1>3. /\ DOMAIN game_services_ \subseteq DOMAIN game_services_'
      /\ pc' # "terminated" => name = "" \/ name \in DOMAIN game_services_'
  <2>1. CASE name \in handlers
    BY <2>1 DEF InitService, Store
  <2>2. CASE name \notin handlers
    BY <2>2 DEF InitService, Go
  <2> QED
    BY <2>1, <2>2
<1>4. ASSUME pc' # "terminated", NEW i \in 1..(next' - 1)
      PROVE  Configured'[i] = "" \/ Configured'[i] \in DOMAIN game_services_'
  <2>1. CASE i = next
    BY <1>2, <1>3, <1>4, <2>1
  <2>2. CASE i # next
    <3>1. i \in 1..(next - 1)
      BY <1>1, <1>2, <2>2
    <3> QED
      BY <1>1, <1>2, <1>3, <3>1 DEF ServicesLoaded
  <2> QED
    BY <2>1, <2>2
<1> QED
  BY <1>1, <1>2, <1>4 DEF ServicesLoaded, Loadable

LEMMA NextLoaded ==
  ASSUME BootInv, ServicesLoaded, [Next]_vars
  PROVE  ServicesLoaded'
<1>1. CASE OpenConfig \/ Loaders
  BY <1>1, NextLoadedConfig
<1>2. CASE InitService
  BY <1>2, NextLoadedService
<1>3. CASE ServicesDone
  BY <1>3 DEF ServicesDone, Go, gameVars, ServicesLoaded, Loadable, Configured
<1>4. CASE Construct
  BY <1>4 DEF Construct, Go, ServicesLoaded, Loadable, Configured
<1>5. CASE \/ ParseArgs \/ CheckConfigFile \/ SystemRefuses \/ Listen \/ StartThread \/ Wait
           \/ Serve \/ UNCHANGED vars
           \/ (\E s \in {"server", "logger", "login", "services"} : AssertFails(s))
  <2>1. UNCHANGED <<path, file, config_, gameVars>>
    BY <1>5 DEF ParseArgs, CheckConfigFile, SystemRefuses, Listen, StartThread, Wait, Serve,
       vars, AssertFails
  <2>2. /\ pc' \in {"construct", "init"} => pc' = pc
        /\ pc' \in {"listen", "pool", "serving"} => pc \in {"listen", "pool", "serving"}
        /\ pc' # "terminated" => pc # "terminated"
    BY <1>5 DEF ParseArgs, CheckConfigFile, SystemRefuses, Listen, StartThread, Wait, Serve,
       vars, AssertFails, Go
  <2> QED
    BY <2>1, <2>2 DEF ServicesLoaded, Loadable, Configured, gameVars
<1> QED
  BY <1>1, <1>2, <1>3, <1>4, <1>5 DEF Next, Loaders

\* A list gone through to its end is gone through at every index.
LEMMA PassedAll ==
  ASSUME NEW names \in Seq(STRING), NEW j \in DOMAIN names,
         NEW m \in 1..(Len(names) + 1), m > Len(names)
  PROVE  j \in 1..(m - 1)
OBVIOUS

\* The login section is all that AllServicesRun can fail by: whatever else is
\* missing or ill typed, a process that serves runs every service of its file.
THEOREM OnlyLoginLosesServices == Spec => [](file.login # Bad => AllServicesRun)
<1>1. Init => ServicesLoaded
  BY DEF Init, ServicesLoaded
<1>2. BootInv /\ ServicesLoaded => (file.login # Bad => AllServicesRun)
  <2> SUFFICES ASSUME BootInv, ServicesLoaded, pc = "serving", Loadable,
                      NEW n \in ToSet(file.services) \ {""}
               PROVE  n \in DOMAIN game_services_
    BY DEF AllServicesRun, Loadable
  <2>1. Configured = file.services /\ Configured \in Seq(STRING) /\ next > Len(Configured)
    BY ConfiguredIsList DEF BootInv, ServicesLoaded, Configured
  <2>2. PICK i \in DOMAIN Configured : Configured[i] = n
    BY <2>1 DEF ToSet
  <2>3. next \in 1..(Len(Configured) + 1)
    BY DEF BootInv, TypeOK
  <2>4. i \in 1..(next - 1)
    BY <2>1, <2>2, <2>3, PassedAll
  <2> QED
    BY <2>2, <2>4 DEF ServicesLoaded
<1> QED
  BY BootInvariance, NextLoaded, <1>1, <1>2, PTL DEF Spec

=============================================================================
