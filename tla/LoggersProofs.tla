---------------------------- MODULE LoggersProofs ----------------------------
(***************************************************************************)
(* Theorems of Loggers, for any names and levels and any number of         *)
(* loggers: a name stands for one logger, and a level asked of it is the   *)
(* level of everybody's logger of that name, the default logger and what   *)
(* is asked of all apart.                                                  *)
(***************************************************************************)
EXTENDS Loggers, TLAPS

\* Whoever has a logger has the one its name stands for now.
HandlesAreCurrent ==
  \A h \in handles : h[2] = IF h[1] = Default THEN 1 ELSE loggers_[h[1]]

HandlesAreNamed == \A h \in handles : h[1] \in DOMAIN loggers_ \cup {Default}

\* No two names share a logger; the default one is in no map (TypeOK).
NamesAreApart ==
  \A m, n \in DOMAIN loggers_ : loggers_[m] = loggers_[n] => m = n

\* The level last asked of a logger is its level, but what was asked of all did
\* not reach the default one.
LevelsAreWanted ==
  /\ constructed # <<>>
  /\ constructed[1].level = wanted[Default].level \/ wanted[Default].ofAll
  /\ \A n \in DOMAIN loggers_ : constructed[loggers_[n]].level = wanted[n].level

LogInv ==
  /\ TypeOK
  /\ HandlesAreNamed /\ HandlesAreCurrent /\ NamesAreApart /\ LevelsAreWanted

-----------------------------------------------------------------------------

AnyLogger == [sink : Sinks, level : Levels]
AnyWish   == [level : Levels, ofAll : BOOLEAN]

\* What is asked is a level and whether it is asked of all.
LEMMA AskedType ==
  \A level \in Levels, ofAll \in BOOLEAN :
    /\ Asked(level, ofAll) \in AnyWish
    /\ Asked(level, ofAll).level = level /\ Asked(level, ofAll).ofAll = ofAll
BY DEF Asked, AnyWish

\* A constructed logger, and one whose level was set, is a logger.
LEMMA LoggerType ==
  /\ \A path \in BOOLEAN, config \in Configs : Logger(path, config) \in AnyLogger
  /\ \A log \in AnyLogger, level \in Levels :
       Set(log, level) \in AnyLogger /\ Set(log, level).level = level
<1>1. \A path \in BOOLEAN, config \in Configs : Logger(path, config) \in AnyLogger
  <2> SUFFICES ASSUME NEW path \in BOOLEAN, NEW config \in Configs
               PROVE  Logger(path, config) \in AnyLogger
    OBVIOUS
  <2> DEFINE sink == CASE ~FilePath(path, config)       -> "stdout"
                       [] config.given /\ config.sized  -> "rotating"
                       [] OTHER                         -> "basic"
             level == IF config.given /\ config.level \in Levels THEN config.level ELSE "Debug"
  <2>1. sink \in Sinks
    BY DEF Sinks
  <2>2. level \in Levels
    BY LoggersAssumption
  <2> QED
    BY <2>1, <2>2 DEF Logger, AnyLogger
<1>2. \A log \in AnyLogger, level \in Levels :
       Set(log, level) \in AnyLogger /\ Set(log, level).level = level
  BY DEF Set, AnyLogger
<1> QED
  BY <1>1, <1>2

\* The static objects are two loggers of level Debug.
LEMMA InitInv == Init => LogInv
<1> SUFFICES ASSUME Init PROVE LogInv
  OBVIOUS
<1>1. /\ Logger(FALSE, NoConfig) \in AnyLogger /\ Logger(FALSE, NoConfig).level = "Debug"
      /\ Logger(TRUE, NoConfig) \in AnyLogger
  <2>1. NoConfig \in Configs /\ NoConfig.given = FALSE
    BY DEF Configs, NoConfig
  <2> QED
    BY <2>1, LoggerType DEF Logger
<1> DEFINE second == Set(Logger(TRUE, NoConfig), "Debug")
<1>3. second \in AnyLogger /\ second.level = "Debug"
  BY <1>1, LoggerType, LoggersAssumption
<1>4. constructed = <<Logger(FALSE, NoConfig), second>>
  BY DEF Init
<1> HIDE DEF second
<1>5. TypeOK
  <2>1. constructed \in Seq(AnyLogger) /\ Len(constructed) = 2
    <3> DEFINE first == Logger(FALSE, NoConfig)
    <3> HIDE DEF first
    <3>1. first \in AnyLogger /\ constructed = <<first, second>>
      BY <1>1, <1>4 DEF first
    <3> QED
      BY <1>3, <3>1
  <2>2. DOMAIN loggers_ = {"common"} /\ loggers_["common"] = 2
    BY DEF Init
  <2>3. /\ wanted \in [DOMAIN loggers_ \cup {Default} -> AnyWish]
        /\ handles \subseteq (Names \cup {Default}) \X (1..Len(constructed))
    <3>1. Asked("Debug", FALSE) \in AnyWish
      BY AskedType, LoggersAssumption
    <3>2. wanted = [n \in {Default, "common"} |-> Asked("Debug", FALSE)]
      BY DEF Init
    <3>3. wanted \in [DOMAIN loggers_ \cup {Default} -> AnyWish]
      BY <2>2, <3>1, <3>2
    <3>4. handles \subseteq (Names \cup {Default}) \X (1..2)
      BY LoggersAssumption DEF Init
    <3> QED
      BY <2>1, <3>3, <3>4
  <2> QED
    <3>1. default_logger_level_ \in Levels
      BY LoggersAssumption DEF Init
    <3>2. Len(constructed) <= MaxLoggers
      BY <2>1, LoggersAssumption
    <3>3. \A n \in DOMAIN loggers_ : n \in Names /\ loggers_[n] \in 2..Len(constructed)
      BY <2>1, <2>2, LoggersAssumption
    <3> QED
      BY <2>1, <2>3, <3>1, <3>2, <3>3 DEF TypeOK, AnyLogger, AnyWish
<1>6. HandlesAreNamed /\ HandlesAreCurrent /\ NamesAreApart
  BY LoggersAssumption DEF Init, HandlesAreNamed, HandlesAreCurrent, NamesAreApart
<1>7. LevelsAreWanted
  <2>1. constructed # <<>> /\ constructed[1].level = "Debug" /\ constructed[2].level = "Debug"
    BY <1>1, <1>3, <1>4
  <2>2. DOMAIN loggers_ = {"common"} /\ loggers_["common"] = 2
    BY DEF Init
  <2>3. wanted[Default].level = "Debug" /\ wanted["common"].level = "Debug"
    BY AskedType, LoggersAssumption DEF Init
  <2> QED
    BY <2>1, <2>2, <2>3 DEF LevelsAreWanted
<1> QED
  BY <1>5, <1>6, <1>7 DEF LogInv

\* Every call keeps the invariant.
LEMMA NextInv == LogInv /\ [Next]_vars => LogInv'
<1> SUFFICES ASSUME LogInv, [Next]_vars PROVE LogInv'
  OBVIOUS
<1> USE DEF LogInv
<1>0. /\ constructed \in Seq(AnyLogger) /\ Len(constructed) \in Nat
      /\ \A n \in DOMAIN loggers_ : loggers_[n] \in 2..Len(constructed)
      /\ \A h \in handles : h = <<h[1], h[2]>> /\ h[2] \in 1..Len(constructed)
      /\ 1 \in 1..Len(constructed)
      /\ DOMAIN wanted = DOMAIN loggers_ \cup {Default} /\ Default \notin DOMAIN loggers_
  BY LoggersAssumption DEF TypeOK, LevelsAreWanted, AnyLogger
<1>1. ASSUME NEW name \in Names, NEW level \in Levels, NEW path \in BOOLEAN,
             NEW config \in Configs, CreateLogger(name, level, path, config)
      PROVE  LogInv'
  <2> DEFINE log == Set(Logger(path, config), level)
             k == Len(constructed) + 1
  <2>1. log \in AnyLogger /\ log.level = level
    BY <1>1, LoggerType
  <2>2. /\ name \notin DOMAIN loggers_ /\ name # Default
        /\ constructed' = Append(constructed, log) /\ Len(constructed') = k
        /\ loggers_' = Put(loggers_, name, k)
        /\ handles' = handles \cup {<<name, k>>}
        /\ wanted' = Put(wanted, name, Asked(level, FALSE))
        /\ default_logger_level_' = default_logger_level_
        /\ k <= MaxLoggers
    BY <1>0, <1>1, <2>1, LoggersAssumption DEF CreateLogger
  <2>3. /\ constructed'[k] = log
        /\ \A i \in 1..Len(constructed) : constructed'[i] = constructed[i]
    BY <1>0, <2>1, <2>2
  <2> DEFINE wish == Asked(level, FALSE)
  <2>7. wish \in AnyWish /\ wish.level = level /\ wish.ofAll = FALSE
    BY AskedType
  <2>8. /\ wanted' = Put(wanted, name, wish)
        /\ wanted \in [DOMAIN wanted -> AnyWish]
    BY <2>2 DEF TypeOK, AnyWish
  <2> HIDE DEF log, wish
  <2>4. TypeOK'
    <3>1. wanted' \in [DOMAIN loggers_' \cup {Default} -> AnyWish]
      BY <1>0, <2>2, <2>7, <2>8 DEF Put
    <3>2. constructed' \in Seq(AnyLogger)
      BY <1>0, <2>1, <2>2
    <3>3. Len(constructed') <= MaxLoggers /\ default_logger_level_' \in Levels
      BY <2>2 DEF TypeOK
    <3>4. \A n \in DOMAIN loggers_' : n \in Names /\ loggers_'[n] \in 2..Len(constructed')
      <4>1. k \in 2..k /\ \A i \in 2..Len(constructed) : i \in 2..k
        BY <1>0
      <4>2. \A n \in DOMAIN loggers_ : n \in Names /\ loggers_[n] \in 2..Len(constructed)
        BY DEF TypeOK
      <4> HIDE DEF LogInv
      <4> QED
        BY <2>2, <4>1, <4>2 DEF Put
    <3>5. handles' \subseteq (Names \cup {Default}) \X (1..Len(constructed'))
      <4>1. k \in 1..k /\ \A i \in 1..Len(constructed) : i \in 1..k
        BY <1>0
      <4>2. handles \subseteq (Names \cup {Default}) \X (1..Len(constructed))
        BY DEF TypeOK
      <4> HIDE DEF LogInv
      <4> QED
        BY <2>2, <4>1, <4>2
    <3> QED
      BY <3>1, <3>2, <3>3, <3>4, <3>5 DEF TypeOK, AnyLogger, AnyWish
  <2>5. HandlesAreNamed' /\ HandlesAreCurrent' /\ NamesAreApart'
    BY <1>0, <2>2 DEF HandlesAreNamed, HandlesAreCurrent, NamesAreApart, Put
  <2>6. LevelsAreWanted'
    <3>1. /\ \A n \in DOMAIN wanted : n # name => wanted'[n] = wanted[n]
          /\ wanted'[name] = wish
      BY <2>8 DEF Put
    <3>2. \A n \in DOMAIN loggers_' : \/ n = name /\ loggers_'[n] = k
                                      \/ n # name /\ n \in DOMAIN loggers_
                                         /\ loggers_'[n] = loggers_[n]
      BY <2>2 DEF Put
    <3>3. constructed' # <<>> /\ constructed'[1] = constructed[1]
      BY <1>0, <2>2, <2>3
    <3>4. wanted'[Default] = wanted[Default]
      BY <1>0, <2>2, <3>1
    <3>5. \A n \in DOMAIN loggers_' : constructed'[loggers_'[n]].level = wanted'[n].level
      <4> SUFFICES ASSUME NEW n \in DOMAIN loggers_'
                   PROVE  constructed'[loggers_'[n]].level = wanted'[n].level
        OBVIOUS
      <4>1. CASE n = name /\ loggers_'[n] = k
        BY <2>1, <2>3, <2>7, <3>1, <4>1
      <4>2. CASE n # name /\ n \in DOMAIN loggers_ /\ loggers_'[n] = loggers_[n]
        <5>1. loggers_[n] \in 1..Len(constructed)
          <6> HIDE DEF LogInv
          <6> QED
            BY <1>0, <4>2
        <5>2. constructed[loggers_[n]].level = wanted[n].level /\ n \in DOMAIN wanted
          BY <1>0, <4>2 DEF LevelsAreWanted
        <5> QED
          BY <2>3, <3>1, <4>2, <5>1, <5>2
      <4> QED
        BY <3>2, <4>1, <4>2
    <3> HIDE DEF LogInv
    <3> QED
      <4>1. constructed[1].level = wanted[Default].level \/ wanted[Default].ofAll
        BY DEF LogInv, LevelsAreWanted
      <4> QED
        BY <3>3, <3>4, <3>5, <4>1 DEF LevelsAreWanted
  <2> QED
    BY <2>4, <2>5, <2>6
<1>2. ASSUME NEW name \in Names, GetLogger(name)
      PROVE  LogInv'
  BY <1>0, <1>2 DEF GetLogger, TypeOK, HandlesAreNamed, HandlesAreCurrent, NamesAreApart,
     LevelsAreWanted
<1>3. ASSUME NEW h \in handles, Release(h)
      PROVE  LogInv'
  BY <1>3 DEF Release, TypeOK, HandlesAreNamed, HandlesAreCurrent, NamesAreApart,
     LevelsAreWanted
<1>4. ASSUME NEW i \in 1..Len(constructed), NEW n \in DOMAIN wanted, NEW level \in Levels,
             i = IF n = Default THEN 1 ELSE loggers_[n],
             constructed' = [constructed EXCEPT ![i] = Set(@, level)],
             wanted' = [wanted EXCEPT ![n] = Asked(level, FALSE)],
             UNCHANGED <<loggers_, default_logger_level_, handles>>
      PROVE  LogInv'
  <2>1. Set(constructed[i], level) \in AnyLogger /\ Set(constructed[i], level).level = level
    BY <1>0, LoggerType
  <2>2. /\ constructed' \in Seq(AnyLogger) /\ Len(constructed') = Len(constructed)
        /\ constructed'[i].level = level
        /\ \A j \in 1..Len(constructed) : j # i => constructed'[j] = constructed[j]
    <3> HIDE DEF LogInv
    <3> QED
      BY <1>0, <1>4, <2>1
  <2>3. TypeOK'
    BY <1>0, <1>4, <2>2, AskedType DEF TypeOK, AnyLogger, AnyWish
  <2>4. LevelsAreWanted'
    <3>1. /\ wanted'[n] = Asked(level, FALSE) /\ Asked(level, FALSE).level = level
          /\ \A m \in DOMAIN wanted : m # n => wanted'[m] = wanted[m]
      BY <1>4, AskedType
    <3>2. constructed' # <<>>
      BY <1>0, <2>2
    <3>3. \A m \in DOMAIN wanted : m # n => (IF m = Default THEN 1 ELSE loggers_[m]) # i
      BY <1>0, <1>4 DEF NamesAreApart
    <3>4. constructed'[1].level = wanted'[Default].level \/ wanted'[Default].ofAll
      <4>1. CASE n = Default
        BY <1>4, <2>2, <3>1, <4>1
      <4>2. CASE n # Default
        BY <1>0, <1>4, <2>2, <3>1, <3>3, <4>2 DEF LevelsAreWanted
      <4> QED
        BY <4>1, <4>2
    <3>5. \A m \in DOMAIN loggers_ : constructed'[loggers_[m]].level = wanted'[m].level
      <4> SUFFICES ASSUME NEW m \in DOMAIN loggers_
                   PROVE  constructed'[loggers_[m]].level = wanted'[m].level
        OBVIOUS
      <4>0. m \in DOMAIN wanted /\ m # Default /\ loggers_[m] \in 1..Len(constructed)
        <5> HIDE DEF LogInv
        <5> QED
          BY <1>0
      <4>1. CASE m = n
        BY <1>4, <2>2, <3>1, <4>0, <4>1
      <4>2. CASE m # n
        BY <2>2, <3>1, <3>3, <4>0, <4>2 DEF LevelsAreWanted
      <4> QED
        BY <4>1, <4>2
    <3> QED
      BY <1>4, <3>2, <3>4, <3>5 DEF LevelsAreWanted
  <2> QED
    BY <1>4, <2>3, <2>4 DEF HandlesAreNamed, HandlesAreCurrent, NamesAreApart
<1>5. ASSUME NEW h \in handles, NEW level \in Levels, SetLevel(h, level)
      PROVE  LogInv'
  <2>1. /\ h[2] \in 1..Len(constructed) /\ h[1] \in DOMAIN wanted
        /\ h[2] = IF h[1] = Default THEN 1 ELSE loggers_[h[1]]
    BY <1>0 DEF HandlesAreNamed, HandlesAreCurrent
  <2> QED
    BY <1>4, <1>5, <2>1 DEF SetLevel
<1>6. ASSUME NEW name \in Names, NEW level \in Levels, SetLoggerLevel(name, level)
      PROVE  LogInv'
  <2>1. /\ name # Default /\ name \in DOMAIN wanted
        /\ loggers_[name] \in 1..Len(constructed)
    <3>1. name \in DOMAIN loggers_
      BY <1>6 DEF SetLoggerLevel
    <3> HIDE DEF LogInv
    <3> QED
      BY <1>0, <3>1
  <2> QED
    BY <1>4, <1>6, <2>1 DEF SetLoggerLevel
<1>7. ASSUME NEW level \in Levels, SetAllLevels(level)
      PROVE  LogInv'
  <2>1. \A i \in 1..Len(constructed) :
          Set(constructed[i], level) \in AnyLogger /\ Set(constructed[i], level).level = level
    BY <1>0, LoggerType
  <2>2. /\ constructed' \in Seq(AnyLogger) /\ Len(constructed') = Len(constructed)
        /\ \A n \in DOMAIN loggers_ : constructed'[loggers_[n]].level = level
        /\ constructed'[1] = constructed[1]
    <3> HIDE DEF LogInv
    <3>1. DOMAIN constructed = 1..Len(constructed)
      BY <1>0
    <3>2. constructed' = [i \in 1..Len(constructed) |->
            IF \E n \in DOMAIN loggers_ : loggers_[n] = i THEN Set(constructed[i], level)
                                                          ELSE constructed[i]]
      BY <1>7, <3>1 DEF SetAllLevels
    <3>3. \A i \in 1..Len(constructed) : constructed[i] \in AnyLogger
      BY <1>0
    <3>4. \A i \in 1..Len(constructed) : constructed'[i] \in AnyLogger
      BY <2>1, <3>2, <3>3
    <3>5. constructed' \in Seq(AnyLogger) /\ Len(constructed') = Len(constructed)
      BY <1>0, <3>2, <3>4
    <3>6. \A n \in DOMAIN loggers_ : constructed'[loggers_[n]].level = level
      BY <1>0, <2>1, <3>2
    <3>7. constructed'[1] = constructed[1]
      BY <1>0, <3>2
    <3> QED
      BY <3>5, <3>6, <3>7
  <2>3. TypeOK'
    BY <1>0, <1>7, <2>2, AskedType DEF TypeOK, SetAllLevels, AnyLogger, AnyWish
  <2>4. LevelsAreWanted'
    <3>1. constructed' # <<>>
      BY <1>0, <2>2
    <3>2. /\ wanted'[Default].ofAll
          /\ \A n \in DOMAIN loggers_ : wanted'[n].level = level
      BY <1>0, <1>7, AskedType DEF SetAllLevels
    <3>3. loggers_' = loggers_
      BY <1>7 DEF SetAllLevels
    <3> HIDE DEF LogInv
    <3> QED
      BY <2>2, <3>1, <3>2, <3>3 DEF LevelsAreWanted
  <2> QED
    BY <1>7, <2>3, <2>4
       DEF SetAllLevels, HandlesAreNamed, HandlesAreCurrent, NamesAreApart
<1>8. CASE UNCHANGED vars
  BY <1>8 DEF vars, TypeOK, HandlesAreNamed, HandlesAreCurrent, NamesAreApart,
     LevelsAreWanted
<1> QED
  BY <1>1, <1>2, <1>3, <1>5, <1>6, <1>7, <1>8 DEF Next

\* The type invariant, for any names, levels and number of loggers.
THEOREM TypeCorrect == Spec => []TypeOK
<1>1. LogInv => TypeOK
  BY DEF LogInv
<1> QED
  BY InitInv, NextInv, <1>1, PTL DEF Spec

\* A level asked of a logger is the level of every logger somebody has under its
\* name, with one exception: the default logger misses what is asked of all.
THEOREM LevelsReachAll == Spec => []LevelReaches
<1>1. LogInv => LevelReaches
  BY DEF LogInv, HandlesAreNamed, HandlesAreCurrent, LevelsAreWanted, LevelReaches
<1> QED
  BY InitInv, NextInv, <1>1, PTL DEF Spec

=============================================================================
