------------------------------ MODULE Gbridge ------------------------------
(***************************************************************************)
(* The server process (src/src/msspeech-gbridge.cpp): main and start, and  *)
(* the factory that start owns.  The main thread reads the command line,   *)
(* checks it, sets the level of the logs, starts the factory and then the  *)
(* gRPC server; calls come once the server listens.                        *)
(*                                                                         *)
(* The factory is created with the global maxSessions, stores it and does  *)
(* not look at it.                                                         *)
(***************************************************************************)
EXTENDS MSSpeechSessionFactory, CommandLine

CONSTANT
  Garbage   \* a level out of the range of spdlog's levels

VARIABLES
  main,     \* where the main thread is, before it waits for the server
  level     \* the level of spdlog

process == <<commandLine, main, level>>
serverVars == <<vars, process>>

\* spdlog::level::level_names, in the order of level_enum.
LevelNames == <<"trace", "debug", "info", "notice", "warning", "error",
                "critical", "alert", "emerg", "off">>

ServerInit ==
  /\ Init
  /\ CommandLineInit
  /\ main = "parse_opt"
  /\ level = 2

ParseOptions ==
  /\ main = "parse_opt"
  /\ ParseStep
  /\ UNCHANGED <<vars, main, level>>

\* parse_opt has returned; usage() exits.
OptionsParsed ==
  /\ main = "parse_opt"
  /\ Returned
  /\ main' = IF parse = "parsed" THEN "checking" ELSE "exited"
  /\ UNCHANGED <<vars, commandLine, level>>

Complete == globals.listenEndpoint # Empty /\ globals.subscriptionKey # Empty

CheckOptions ==
  /\ main = "checking"
  /\ main' = IF Complete THEN "set_level" ELSE "exited"
  /\ UNCHANGED <<vars, commandLine, level>>

\* Faulty variant: the loop starts at the second name.
FoundAfterFirst(name) ==
  {i \in 1 .. Len(LevelNames) - 1 : LevelNames[i + 1] = name}

\* Where the loop over level_names would stop.
Found(name) == {i \in 0 .. Len(LevelNames) - 1 : LevelNames[i + 1] = name}

SetLevel ==
  /\ main = "set_level"
  /\ level' \in Found(globals.logLevel)
  /\ main' = "start"
  /\ UNCHANGED <<vars, commandLine>>

\* The loop is bounded by sizeof, the bytes of the table: it reads past its
\* end, where it may find a string that is equal, none, or no strings.
LevelUnknown ==
  /\ main = "set_level"
  /\ Found(globals.logLevel) = {}
  /\ \/ /\ level' \in {level, Garbage}
        /\ main' = "start"
        /\ UNCHANGED <<vars, commandLine>>
     \/ Kill("level") /\ UNCHANGED process

\* Faulty variant: the factory is created and not started.
StartForgotten ==
  /\ main = "start"
  /\ main' = "listen"
  /\ UNCHANGED <<vars, commandLine, level>>

StartFactory ==
  /\ main = "start"
  /\ main' = "listen"
  /\ Start
  /\ UNCHANGED <<commandLine, level>>

\* BuildAndStart succeeds.  The command line and the globals are not read
\* any more: the model forgets them, which makes no difference to what
\* follows.
Listen ==
  /\ main = "listen"
  /\ main' = "serving"
  /\ environment' = <<>>
  /\ argv' = <<>>
  /\ optind' = 1
  /\ parse' = "getenv"
  /\ globals' = Defaults
  /\ level' = 2
  /\ UNCHANGED vars

\* BuildAndStart returns null, as when the port is taken, and the server is
\* waited for all the same.
ListenFails ==
  /\ main = "listen"
  /\ Kill("server")
  /\ UNCHANGED process

\* The main thread up to Wait.  Nothing in the repository shuts the server
\* down, so that it is left to the factory's Destroy to say what follows if
\* Wait returns.
Startup ==
  \/ ParseOptions
  \/ OptionsParsed
  \/ CheckOptions
  \/ SetLevel
  \/ LevelUnknown
  \/ StartFactory
  \/ Listen
  \/ ListenFails

ServerNext ==
  /\ crash = "none"
  /\ \/ Startup
     \/ RunloopStep /\ UNCHANGED process
     \/ main = "serving" /\ Service /\ UNCHANGED process

ServerSpec == ServerInit /\ [][ServerNext]_serverVars

FairServerSpec == ServerSpec /\ Fairness

-----------------------------------------------------------------------------
(* Properties *)

\* The command line, the places of the main thread and the level; the
\* factory exists only after start has begun.
ServerTypeOK ==
  /\ CommandLineTypeOK
  /\ main \in {"parse_opt", "checking", "set_level", "start", "listen",
               "serving", "exited"}
  /\ level \in 0 .. Len(LevelNames) - 1 \cup {Garbage}
  /\ mpc = "new" <=> main \notin {"listen", "serving"}

\* The levels of usage's text.
DocumentedLevels == {"trace", "debug", "info", "notice", "error"}

\* A level that usage() names is the one in force when the factory and the
\* server start, and the search for it stays within level_names.
DocumentedLevelsApply ==
  globals.logLevel \in DocumentedLevels =>
    /\ crash # "level"
    /\ main \in {"start", "listen"} =>
         \E i \in DOMAIN LevelNames :
           LevelNames[i] = globals.logLevel /\ level = i - 1

=============================================================================
