---------------------------- MODULE GbridgeProofs ----------------------------
(***************************************************************************)
(* The server process as a user of the factory and of the command line:    *)
(* what is proved of the factory holds of the one that start owns, main    *)
(* goes on with the globals that the command line asks for, and the        *)
(* documented levels of the logs are applied.                              *)
(***************************************************************************)
EXTENDS Gbridge, MSSpeechSessionFactoryRefinement, CommandLineProofs

-----------------------------------------------------------------------------
(* The factory in the server *)

\* The main thread starts the factory, kills the process, or leaves the
\* factory alone; every other step is the factory's.
LEMMA ServerStep ==
  ASSUME [ServerNext]_serverVars
  PROVE  [Next]_vars \/ \E reason \in {"level", "server"} : Kill(reason)
<1>1. CASE ServerNext
  <2>1. CASE Startup
    <3>1. crash = "none"
      BY <1>1 DEF ServerNext
    <3>2. Start \/ Kill("level") \/ Kill("server") \/ UNCHANGED vars
      BY <2>1 DEF Startup, ParseOptions, OptionsParsed, CheckOptions, SetLevel, LevelUnknown,
                  StartFactory, Listen, ListenFails
    <3> QED  BY <3>1, <3>2 DEF Next
  <2>2. CASE RunloopStep \/ Service
    BY <1>1, <2>2 DEF ServerNext, Next
  <2> QED  BY <1>1, <2>1, <2>2 DEF ServerNext
<1>2. CASE UNCHANGED serverVars
  BY <1>2 DEF serverVars
<1> QED  BY <1>1, <1>2

\* A process that is killed keeps the factory's invariant and its callers
\* without a session, and the pool does not see it.
LEMMA ServerStepIInv ==
  ASSUME IInv, Unheld, [ServerNext]_serverVars
  PROVE  IInv' /\ Unheld' /\ [Pool!Next]_(Pool!vars)
<1>1. CASE [Next]_vars
  BY <1>1, NextIInv, UnheldStep, StepSimulates
<1>2. ASSUME NEW reason \in {"level", "server"}, Kill(reason)
      PROVE  IInv' /\ Unheld' /\ UNCHANGED Pool!vars
  <2>1. IInv'
    BY <1>2, KillIInv
  <2>2. Unheld'
    BY <1>2 DEF Kill, callers, Unheld, Holds
  <2>3. UNCHANGED Pool!vars
    BY <1>2, OthersStutter
  <2> QED  BY <2>1, <2>2, <2>3
<1> QED  BY <1>1, <1>2, ServerStep

\* The factory's inductive invariant holds in the server.
LEMMA ServerInductive == ServerSpec => [](IInv /\ Unheld)
<1>1. ServerInit => IInv /\ Unheld
  BY InitIInv, InitSimulates DEF ServerInit
<1>2. IInv /\ Unheld /\ [ServerNext]_serverVars => IInv' /\ Unheld'
  BY ServerStepIInv
<1> QED  BY <1>1, <1>2, PTL DEF ServerSpec

\* In the server, too, the factory is a pool of exclusive leases, whatever
\* main and start do around it and wherever the process is killed.
THEOREM ServerLendsSessions == ServerSpec => ImplementsPool
<1>1. ServerInit => Pool!Init
  BY InitSimulates DEF ServerInit
<1>2. IInv /\ Unheld /\ [ServerNext]_serverVars => [Pool!Next]_(Pool!vars)
  BY ServerStepIInv
<1> QED  BY <1>1, <1>2, ServerInductive, PTL
         DEF ServerSpec, ImplementsPool, Pool!Spec

\* In the server, a session is used by one call at a time.
THEOREM ServerSessionsAreExclusive == ServerSpec => []ExclusiveUse
<1>1. IInv => ExclusiveUse
  BY IInvExclusive
<1> QED  BY <1>1, ServerInductive, PTL

\* In the server, too, a session stays with its call until putSession and is
\* never lent once it was withdrawn from the pool.
THEOREM ServerSessionsStay == ServerSpec => LentUntilPut
<1>1. ServerInit => Theory!PoolInv
  BY InitTheory DEF ServerInit
<1>2. IInv /\ Unheld /\ Theory!PoolInv /\ [ServerNext]_serverVars =>
        /\ Theory!PoolInv'
        /\ [\A s \in Sessions : Pool!SessionHistory(s)]_(Pool!vars)
  BY ServerStepIInv, TheoryStep
<1> QED
  BY <1>1, <1>2, ServerInductive, PTL
  DEF ServerSpec, LentUntilPut, Pool!LentUntilReturned

\* The deaths that start adds are none of those that have a cause in the
\* factory, so that the server tracks its sessions as the factory does.
LEMMA ServerTracking == ServerSpec => []Tracking
<1>1. ServerInit => Tracking
  BY InitTracking DEF ServerInit
<1>2. IInv /\ Tracking /\ [ServerNext]_serverVars => Tracking'
  <2> SUFFICES ASSUME IInv, Tracking, [ServerNext]_serverVars
               PROVE  Tracking'
    OBVIOUS
  <2>1. ASSUME NEW reason \in {"level", "server"}, Kill(reason)
        PROVE  Tracking'
    <3>1. CrashesHaveCauses'
      BY <2>1 DEF Kill, CrashesHaveCauses
    <3> QED  BY <2>1, <3>1, KillTracking
  <2> QED  BY <2>1, ServerStep, NextTracking
<1> QED  BY <1>1, <1>2, ServerInductive, PTL DEF ServerSpec

\* No notification of client_ready or putSession is lost in the server,
\* whatever main and start do around its factory.
THEOREM ServerWaitersHaveASession == ServerSpec => []WaitersAreProvided
<1>1. IInv /\ Tracking => WaitersAreProvided
  BY TrackingProvides
<1> QED  BY <1>1, ServerTracking, ServerInductive, PTL

\* In the server, no open connection leaks out of the factory, a turn keeps
\* its call from returning, and the process dies for the stated causes only.
THEOREM ServerSessionsAreTracked ==
  ServerSpec =>
    [](OpenSessionsAreKept /\ TurnsHoldTheirCalls /\ CrashesHaveCauses)
<1>1. IInv /\ Tracking =>
        OpenSessionsAreKept /\ TurnsHoldTheirCalls /\ CrashesHaveCauses
  BY DEF IInv, Connections, Tracking, Kept, OpenSessionsAreKept, Available
<1> QED  BY <1>1, ServerTracking, ServerInductive, PTL

-----------------------------------------------------------------------------
(* The command line and the places of the main thread *)

\* parse_opt runs by itself, and nothing else writes what it has left.
LEMMA ServerCommandLineInv == ServerSpec => []CommandLineInv
<1>1. CommandLineInv /\ [ServerNext]_serverVars => CommandLineInv'
  <2> SUFFICES ASSUME CommandLineInv, [ServerNext]_serverVars
               PROVE  CommandLineInv'
    OBVIOUS
  <2>1. CASE ParseOptions
    BY <2>1, ParseStepInv DEF ParseOptions
  <2>2. CASE Listen
    <3>1. /\ environment' = <<>> /\ argv' = <<>> /\ Len(argv') = 0
          /\ optind' = 1 /\ parse' = "getenv" /\ globals' = Defaults
      BY <2>2 DEF Listen
    <3>2. DOMAIN environment' = {} /\ argv' \in Seq(Words)
      BY <3>1
    <3>3. CommandLineTypeOK'
      BY <3>1, <3>2, GlobalFacts DEF CommandLineTypeOK
    <3>4. Started' /\ Parsing'
      BY <3>1 DEF Started, Parsing, OptionsAsWritten, Returned
    <3> QED  BY <3>3, <3>4 DEF CommandLineInv
  <2>3. CASE UNCHANGED commandLine
    BY <2>3, CommandLineStutters
  <2>4. ServerNext => ParseOptions \/ Listen \/ UNCHANGED commandLine
    BY DEF ServerNext, Startup, OptionsParsed, CheckOptions, SetLevel,
           LevelUnknown, StartFactory, ListenFails, process
  <2>5. UNCHANGED serverVars => UNCHANGED commandLine
    BY DEF serverVars, process
  <2> QED  BY <2>1, <2>2, <2>3, <2>4, <2>5
<1>2. ServerInit => CommandLineInv
  BY InitCommandLineInv DEF ServerInit
<1> QED  BY <1>1, <1>2, PTL DEF ServerSpec

\* For every environment and every sequence of arguments, main goes on with
\* the globals that the command line asks for, and with usage() if and only
\* if it is not a command line of the usage text.
THEOREM OptionsAreRead == ServerSpec => []OptionsAsWritten
<1>1. CommandLineInv => OptionsAsWritten
  BY DEF CommandLineInv, Parsing
<1> QED  BY <1>1, ServerCommandLineInv, PTL

\* Only start creates the factory, and a step of the factory does not undo
\* that.
LEMMA FactoryStaysStarted ==
  ASSUME RunloopStep \/ Service
  PROVE  mpc' = "new" <=> mpc = "new"
<1>1. RunloopStep => UNCHANGED mpc
  BY DEF RunloopStep, RunloopStarts, RunloopTest, StepReturns, NothingPending,
     SomePending, BeginLoop, ConnectFails, ConnectSucceeds, LockTwice,
     NextAfterErase, CloseAvailable, CloseBySession, CloseSession,
     RunloopMove, Kill
<1>2. Service => UNCHANGED mpc \/ Destroy \/ Join
  BY DEF Service, GetSession, GetSessionCreate, CheckOut, SpuriousWakeup,
     CallerStep, GetSessionResume, GetSessionWaitAgain, RecognizeStream,
     LockCompletion, PutSession, PutSessionAsserts, Callback, ClientReady, TurnEnd,
     ConnectionError, ConnectionClosed, ContainerRace, DestroyTooEarly, Kill
<1> QED  BY <1>1, <1>2 DEF Destroy, Join

ServerPlaces ==
  /\ main \in {"parse_opt", "checking", "set_level", "start", "listen",
               "serving", "exited"}
  /\ level \in 0 .. Len(LevelNames) - 1 \cup {Garbage}
  /\ mpc = "new" <=> main \notin {"listen", "serving"}

\* The main thread goes from place to place in the order of the source, the
\* level is one of spdlog's or what was found behind them, and the factory
\* exists from start on.
THEOREM ServerTypeCorrect == ServerSpec => []ServerTypeOK
<1>1. ServerInit => ServerPlaces
  <2>1. 2 \in 0 .. Len(LevelNames) - 1
    BY DEF LevelNames
  <2> QED  BY <2>1 DEF ServerInit, Init, ServerPlaces
<1>2. ServerPlaces /\ [ServerNext]_serverVars => ServerPlaces'
  <2> SUFFICES ASSUME ServerPlaces, [ServerNext]_serverVars
               PROVE  ServerPlaces'
    OBVIOUS
  <2>1. CASE ParseOptions \/ OptionsParsed \/ CheckOptions
    BY <2>1 DEF ServerPlaces, ParseOptions, OptionsParsed, CheckOptions, vars
  <2>2. CASE SetLevel
    <3>1. level' \in 0 .. Len(LevelNames) - 1
      BY <2>2 DEF SetLevel, Found
    <3> QED  BY <2>2, <3>1 DEF ServerPlaces, SetLevel, vars
  <2>3. CASE LevelUnknown
    BY <2>3 DEF ServerPlaces, LevelUnknown, Kill, process, vars
  <2>4. CASE StartFactory
    BY <2>4 DEF ServerPlaces, StartFactory, Start
  <2>5. CASE Listen \/ ListenFails
    <3>1. 2 \in 0 .. Len(LevelNames) - 1
      BY DEF LevelNames
    <3> QED  BY <2>5, <3>1
             DEF ServerPlaces, Listen, ListenFails, Kill, process, vars
  <2>6. CASE (RunloopStep \/ Service) /\ UNCHANGED process
    BY <2>6, FactoryStaysStarted DEF ServerPlaces, process
  <2>7. CASE UNCHANGED serverVars
    BY <2>7 DEF ServerPlaces, serverVars, vars, process
  <2> QED  BY <2>1, <2>2, <2>3, <2>4, <2>5, <2>6, <2>7 DEF ServerNext, Startup
<1>3. CommandLineInv /\ ServerPlaces => ServerTypeOK
  BY DEF CommandLineInv, ServerPlaces, ServerTypeOK
<1> QED  BY <1>1, <1>2, <1>3, ServerCommandLineInv, PTL DEF ServerSpec

-----------------------------------------------------------------------------
(* The level of the logs *)

\* No step of the factory ends the process the way LevelUnknown does.
LEMMA FactoryKeepsLevel ==
  ASSUME RunloopStep \/ Service, crash = "none"
  PROVE  crash' # "level"
<1>1. ASSUME NEW reason \in {"putSession", "lock", "iterator", "race", "thread"},
             Kill(reason)
      PROVE  crash' # "level"
  BY <1>1 DEF Kill
<1>2. CASE RunloopStep
  <2>1. \/ UNCHANGED crash
        \/ Kill("lock")
        \/ Kill("iterator")
    BY <1>2 DEF RunloopStep, RunloopStarts, RunloopTest, StepReturns,
       NothingPending, SomePending, BeginLoop, ConnectFails, ConnectSucceeds,
       LockTwice, NextAfterErase, CloseAvailable, CloseBySession,
       CloseSession, RunloopMove
  <2> QED  BY <1>1, <2>1
<1>3. CASE Service
  <2>1. \/ UNCHANGED crash
        \/ Kill("putSession")
        \/ Kill("race")
        \/ Kill("thread")
    BY <1>3 DEF Service, GetSession, GetSessionCreate, CheckOut,
       SpuriousWakeup, CallerStep, GetSessionResume, GetSessionWaitAgain,
       RecognizeStream, LockCompletion, PutSession, PutSessionAsserts,
       Callback, ClientReady, TurnEnd, ConnectionError, ConnectionClosed, ContainerRace, Destroy,
       DestroyTooEarly, Join
  <2> QED  BY <1>1, <2>1
<1> QED  BY <1>2, <1>3

\* An entry that is found is in the table.
LEMMA FoundIsEntry ==
  ASSUME NEW name, NEW i \in Found(name)
  PROVE  /\ i + 1 \in DOMAIN LevelNames
         /\ LevelNames[i + 1] = name
         /\ i = (i + 1) - 1
<1>1. DOMAIN LevelNames = 1 .. 10 /\ Len(LevelNames) = 10
  BY DEF LevelNames
<1>2. i \in 0 .. 10 - 1 /\ LevelNames[i + 1] = name
  BY <1>1 DEF Found
<1> QED  BY <1>1, <1>2

\* Every documented level is one of spdlog's.
LEMMA DocumentedAreFound ==
  ASSUME NEW name \in DocumentedLevels
  PROVE  Found(name) # {}
<1>1. /\ LevelNames[1] = "trace"
      /\ LevelNames[2] = "debug"
      /\ LevelNames[3] = "info"
      /\ LevelNames[4] = "notice"
      /\ LevelNames[6] = "error"
      /\ Len(LevelNames) = 10
  BY DEF LevelNames
<1>2. \E i \in 0 .. 9 : LevelNames[i + 1] = name
  <2>1. CASE name = "trace"
    BY <1>1, <2>1, 0 + 1 = 1
  <2>2. CASE name = "debug"
    BY <1>1, <2>2, 1 + 1 = 2
  <2>3. CASE name = "info"
    BY <1>1, <2>3, 2 + 1 = 3
  <2>4. CASE name = "notice"
    BY <1>1, <2>4, 3 + 1 = 4
  <2>5. CASE name = "error"
    BY <1>1, <2>5, 5 + 1 = 6
  <2> QED  BY <2>1, <2>2, <2>3, <2>4, <2>5 DEF DocumentedLevels
<1>3. Len(LevelNames) - 1 = 9
  BY <1>1
<1> QED  BY <1>2, <1>3 DEF Found

\* A level that usage() names is in force when the server starts, and the
\* search for it does not leave the table.
THEOREM DocumentedLevelsAreSet == ServerSpec => []DocumentedLevelsApply
<1>1. ServerInit => DocumentedLevelsApply
  BY DEF ServerInit, Init, DocumentedLevelsApply
<1>2. DocumentedLevelsApply /\ [ServerNext]_serverVars => DocumentedLevelsApply'
  <2> SUFFICES ASSUME DocumentedLevelsApply, [ServerNext]_serverVars,
                      globals'.logLevel \in DocumentedLevels
               PROVE  /\ crash' # "level"
                      /\ main' \in {"start", "listen"} =>
                           \E i \in DOMAIN LevelNames :
                             /\ LevelNames[i] = globals'.logLevel
                             /\ level' = i - 1
    BY DEF DocumentedLevelsApply
  <2>1. CASE ServerNext /\ (ParseOptions \/ OptionsParsed \/ CheckOptions)
    BY <2>1 DEF ServerNext, ParseOptions, OptionsParsed, CheckOptions, vars
  <2>2. CASE ServerNext /\ SetLevel
    <3>1. globals' = globals /\ crash' = "none" /\ level' \in Found(globals.logLevel)
      BY <2>2 DEF ServerNext, SetLevel, commandLine, vars
    <3> QED  BY <3>1, FoundIsEntry
  <2>3. CASE ServerNext /\ LevelUnknown
    <3>1. globals' = globals /\ Found(globals.logLevel) = {}
      BY <2>3 DEF LevelUnknown, process, commandLine
    <3> QED  BY <3>1, DocumentedAreFound
  <2>4. CASE ServerNext /\ StartFactory
    BY <2>4 DEF ServerNext, StartFactory, Start, commandLine,
                DocumentedLevelsApply
  <2>5. CASE ServerNext /\ (Listen \/ ListenFails)
    BY <2>5 DEF ServerNext, Listen, ListenFails, Kill, process, vars,
                commandLine, DocumentedLevelsApply
  <2>6. CASE ServerNext /\ (RunloopStep \/ Service) /\ UNCHANGED process
    BY <2>6, FactoryKeepsLevel DEF ServerNext, process, commandLine,
                                  DocumentedLevelsApply
  <2>7. CASE UNCHANGED serverVars
    BY <2>7 DEF serverVars, vars, process, commandLine, DocumentedLevelsApply
  <2> QED  BY <2>1, <2>2, <2>3, <2>4, <2>5, <2>6, <2>7 DEF ServerNext, Startup
<1> QED  BY <1>1, <1>2, PTL DEF ServerSpec

=============================================================================
