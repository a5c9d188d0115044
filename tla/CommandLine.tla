---------------------------- MODULE CommandLine ----------------------------
(***************************************************************************)
(* The command line of msspeech-gbridge (src/src/msspeech-gbridge-cli.cpp):*)
(* parse_opt, from the environment and the arguments to the global         *)
(* variables that main and start read.  Each iteration of its loop, with   *)
(* the call of getopt in it, is a step.                                    *)
(*                                                                         *)
(* The environment is a function from the variables that are set, named    *)
(* after the globals they give a value to.  The arguments are a sequence   *)
(* of words, without the name of the program; getopt is the one of glibc,  *)
(* as the option string "+k:t:d:m:" makes it behave.  Every option has an  *)
(* argument: the next word, or the rest of its own, as in "-kKEY", so that *)
(* no word holds two options.                                              *)
(***************************************************************************)
EXTENDS Integers, Sequences

CONSTANTS
  Words,         \* the strings
  Environments,  \* environments the process is started in
  Arguments,     \* its arguments, sequences of words
  Unknown,       \* words with a dash in front that getopt does not know
  Attached,      \* words that are an option and its argument in one
  Letter(_),     \* of such a word: the option
  Rest(_),       \* of such a word: the argument
  Number(_),     \* strtoul of a word, as an int
  Empty          \* the word "", and a std::string's first value

Flags == {"-k", "-t", "-d", "-m"}

\* The globals that getenv gives a value to.
Names == {"subscriptionKey", "gstTransformerEndpoint", "logLevel",
          "listenEndpoint"}

ASSUME CommandLineAssumption ==
  /\ {Empty, "info"} \subseteq Words
  /\ \A env \in Environments :
       /\ DOMAIN env \subseteq Names
       /\ \A g \in DOMAIN env : env[g] \in Words
  /\ Arguments \subseteq Seq(Words)
  /\ Unknown \cap (Flags \cup {"--"}) = {}
  /\ Attached \cap (Unknown \cup Flags \cup {"--"}) = {}
  /\ \A words \in Arguments : \A i \in DOMAIN words :
       /\ Number(words[i]) \in Int
       /\ words[i] \in Attached =>
            /\ Letter(words[i]) \in Flags
            /\ Rest(words[i]) \in Words
            /\ Number(Rest(words[i])) \in Int

VARIABLES
  environment, argv,  \* what the process was started with
  optind,             \* of getopt: the next word
  parse,              \* where parse_opt is, or how it has returned
  globals             \* logLevel, subscriptionKey, listenEndpoint ...

commandLine == <<environment, argv, optind, parse, globals>>

Defaults == [g \in Names \cup {"maxSessions"} |->
               CASE g = "logLevel" -> "info"
                 [] g = "maxSessions" -> 0
                 [] OTHER -> Empty]

FromEnvironment(env) ==
  [g \in DOMAIN Defaults |-> IF g \in DOMAIN env THEN env[g] ELSE Defaults[g]]

\* The global that an option sets.
Global(flag) ==
  CASE flag = "-k" -> "subscriptionKey"
    [] flag = "-t" -> "gstTransformerEndpoint"
    [] flag = "-d" -> "logLevel"
    [] flag = "-m" -> "maxSessions"

Value(flag, word) == IF flag = "-m" THEN Number(word) ELSE word

Options == Flags \cup Attached

\* The option that the word at a position is or begins with, its argument,
\* and the position behind them.
Option(i) == IF argv[i] \in Attached THEN Letter(argv[i]) ELSE argv[i]

Argument(i) == IF argv[i] \in Attached THEN Rest(argv[i]) ELSE argv[i + 1]

Behind(i) == IF argv[i] \in Attached THEN i + 1 ELSE i + 2

\* An option that has its argument is at the position.
Setting(i) ==
  /\ i \in 1 .. Len(argv)
  /\ argv[i] \in Options
  /\ Behind(i) <= Len(argv) + 1

CommandLineInit ==
  /\ environment \in Environments
  /\ argv \in Arguments
  /\ optind = 1
  /\ parse = "getenv"
  /\ globals = Defaults

ReadEnvironment ==
  /\ parse = "getenv"
  /\ parse' = "getopt"
  /\ globals' = FromEnvironment(environment)
  /\ UNCHANGED <<environment, argv, optind>>

\* Faulty variant: an option that was set is not set again.
SetOnce(flag, word) ==
  IF globals[Global(flag)] # Defaults[Global(flag)] THEN globals
  ELSE [globals EXCEPT ![Global(flag)] = Value(flag, word)]

\* The cases of the switch.
Set(flag, word) == [globals EXCEPT ![Global(flag)] = Value(flag, word)]

\* getopt finds an option; if it has to take the next word for the argument,
\* it does so whatever that looks like.
TakeOption ==
  /\ parse = "getopt"
  /\ Setting(optind)
  /\ globals' = Set(Option(optind), Argument(optind))
  /\ optind' = Behind(optind)
  /\ UNCHANGED <<environment, argv, parse>>

\* getopt returns '?': an unknown option, or one without its argument.
RefuseOption ==
  /\ parse = "getopt"
  /\ \/ optind <= Len(argv) /\ argv[optind] \in Unknown
     \/ optind = Len(argv) /\ argv[optind] \in Flags
  /\ parse' = "refused"
  /\ UNCHANGED <<environment, argv, optind, globals>>

\* getopt returns -1: no word is left, or "--", which it passes over, or an
\* operand ends the options.
EndOptions ==
  /\ parse = "getopt"
  /\ optind <= Len(argv) => argv[optind] \notin Options \cup Unknown
  /\ parse' = "operands"
  /\ optind' = IF optind <= Len(argv) /\ argv[optind] = "--"
                 THEN optind + 1 ELSE optind
  /\ UNCHANGED <<environment, argv, globals>>

\* argc - optind
OperandsLeft == Len(argv) + 1 - optind

\* The operand is looked at only if there is no listen endpoint.
TakeOperand ==
  /\ parse = "operands"
  /\ IF globals.listenEndpoint # Empty
       THEN parse' = "parsed" /\ UNCHANGED globals
     ELSE IF OperandsLeft # 1
       THEN parse' = "refused" /\ UNCHANGED globals
     ELSE /\ parse' = "parsed"
          /\ globals' = [globals EXCEPT !.listenEndpoint = argv[optind]]
  /\ UNCHANGED <<environment, argv, optind>>

ParseStep ==
  \/ ReadEnvironment
  \/ TakeOption
  \/ RefuseOption
  \/ EndOptions
  \/ TakeOperand

\* parse_opt has returned: 0 or -1.
Returned == parse \in {"parsed", "refused"}

-----------------------------------------------------------------------------
(* Properties *)

CommandLineTypeOK ==
  /\ DOMAIN environment \subseteq Names
  /\ argv \in Seq(Words)
  /\ optind \in 1 .. Len(argv) + 1
  /\ parse \in {"getenv", "getopt", "operands", "parsed", "refused"}
  /\ DOMAIN globals = DOMAIN Defaults
  /\ \A g \in Names : globals[g] \in Words
  /\ globals.maxSessions \in Int

\* The arguments begin with settings at the positions of S, one behind the
\* other, and nothing but these up to position e.
Settings(S, e) ==
  /\ 1 \in S \cup {e}
  /\ \A p \in S : Setting(p) /\ Behind(p) \in S \cup {e}
  /\ \A p \in S \cup {e} : p = 1 \/ \E q \in S : p = Behind(q)

\* What these settings say of an option: the last of its settings counts,
\* else the environment, else the default.
Says(S, flag, value) ==
  \/ /\ \A p \in S : Option(p) # flag
     /\ value = FromEnvironment(environment)[Global(flag)]
  \/ \E p \in S :
       /\ Option(p) = flag
       /\ \A q \in S : q > p => Option(q) # flag
       /\ value = Value(flag, Argument(p))

\* The word behind the settings is an option that is unknown or has lost its
\* argument.
Misused(e) == e <= Len(argv) /\ argv[e] \in Flags \cup Unknown

FirstOperand(e) == IF e <= Len(argv) /\ argv[e] = "--" THEN e + 1 ELSE e

\* When parse_opt returns, it has read the whole command line: of all the
\* settings in front, in one word or in two, the last one of an option goes
\* before the environment and that before the default, and an argument is
\* taken whatever it looks like.  -1 is returned if and only if an option is
\* unknown or has lost its argument, or the environment has no endpoint and
\* there is not exactly one operand, which is the endpoint otherwise.
OptionsAsWritten ==
  Returned =>
    \E e \in 1 .. Len(argv) + 1 : \E S \in SUBSET (1 .. e - 1) :
      LET endpoint == FromEnvironment(environment).listenEndpoint
          operands == Len(argv) + 1 - FirstOperand(e)
      IN /\ Settings(S, e) /\ ~Setting(e)
         /\ \A flag \in Flags : Says(S, flag, globals[Global(flag)])
         /\ parse = "refused" <=> Misused(e) \/ (endpoint = Empty /\ operands # 1)
         /\ parse = "parsed" =>
              globals.listenEndpoint =
                IF endpoint = Empty THEN argv[FirstOperand(e)] ELSE endpoint

=============================================================================
