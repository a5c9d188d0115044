------------------------- MODULE CommandLineProofs -------------------------
(***************************************************************************)
(* Proofs about CommandLine, for every environment and every sequence of   *)
(* arguments, options that are written in one word with their argument     *)
(* included.  The loop's invariant: the words before optind are whole      *)
(* settings, and the globals are what these settings say.                  *)
(***************************************************************************)
EXTENDS CommandLine, TLAPS

\* What the globals are when the settings at the positions of S, up to e,
\* have been read.
Follow(S, e) ==
  /\ Settings(S, e)
  /\ \A flag \in Flags : Says(S, flag, globals[Global(flag)])

EndpointOfEnvironment ==
  globals.listenEndpoint = FromEnvironment(environment).listenEndpoint

Parsing ==
  /\ parse = "getenv" => optind = 1
  /\ parse = "getopt" =>
       /\ EndpointOfEnvironment
       /\ \E S \in SUBSET (1 .. optind - 1) : Follow(S, optind)
  /\ parse = "operands" =>
       /\ EndpointOfEnvironment
       /\ \E e \in 1 .. Len(argv) + 1 : \E S \in SUBSET (1 .. e - 1) :
            /\ Follow(S, e) /\ ~Setting(e) /\ ~Misused(e)
            /\ optind = FirstOperand(e)
  /\ OptionsAsWritten

\* The arguments are words, and those that can be a number are one.
Started ==
  /\ environment \in Environments \cup {<<>>}
  /\ argv \in Arguments \cup {<<>>}

CommandLineInv == CommandLineTypeOK /\ Started /\ Parsing

LEMMA GlobalFacts ==
  /\ \A flag \in Flags : Global(flag) \in DOMAIN Defaults \ {"listenEndpoint"}
  /\ \A flag \in Flags : Global(flag) = "maxSessions" <=> flag = "-m"
  /\ \A f, g \in Flags : Global(f) = Global(g) => f = g
  /\ DOMAIN Defaults = Names \cup {"maxSessions"}
  /\ \A g \in Names : Defaults[g] \in Words
  /\ Defaults.maxSessions = 0
<1>1. /\ Global("-k") = "subscriptionKey"
      /\ Global("-t") = "gstTransformerEndpoint"
      /\ Global("-d") = "logLevel"
      /\ Global("-m") = "maxSessions"
  BY DEF Global
<1>2. DOMAIN Defaults = Names \cup {"maxSessions"}
  BY DEF Defaults
<1>3. ASSUME NEW g \in Names
      PROVE  Defaults[g] \in Words
  <2>1. Defaults[g] = "info" \/ Defaults[g] = Empty
    BY DEF Defaults, Names
  <2>2. Empty \in Words /\ "info" \in Words
    BY CommandLineAssumption
  <2> QED  BY <2>1, <2>2
<1>4. Defaults.maxSessions = 0
  BY DEF Defaults, Names
<1>5. /\ \A flag \in Flags : Global(flag) \in DOMAIN Defaults \ {"listenEndpoint"}
      /\ \A flag \in Flags : Global(flag) = "maxSessions" <=> flag = "-m"
      /\ \A f, g \in Flags : Global(f) = Global(g) => f = g
  BY <1>1, <1>2 DEF Flags, Names
<1> QED  BY <1>2, <1>3, <1>4, <1>5

\* getenv: the globals keep their types, whatever is set.
LEMMA FromEnvironmentFacts ==
  ASSUME NEW env \in Environments \cup {<<>>}
  PROVE  /\ DOMAIN FromEnvironment(env) = DOMAIN Defaults
         /\ \A g \in Names : FromEnvironment(env)[g] \in Words
         /\ FromEnvironment(env).maxSessions = 0
<1>1. DOMAIN env \subseteq Names /\ \A g \in DOMAIN env : env[g] \in Words
  BY CommandLineAssumption
<1>2. "maxSessions" \notin Names
  BY DEF Names
<1> QED  BY <1>1, <1>2, GlobalFacts DEF FromEnvironment

\* What is said of the words does not change with the rest of the state.
LEMMA WordsFrame ==
  ASSUME UNCHANGED <<environment, argv>>, NEW S, NEW e
  PROVE  /\ Settings(S, e)' <=> Settings(S, e)
         /\ Setting(e)' <=> Setting(e)
         /\ Misused(e)' <=> Misused(e)
         /\ FirstOperand(e)' = FirstOperand(e)
         /\ \A flag, value : Says(S, flag, value)' <=> Says(S, flag, value)
<1>1. /\ \A i : Option(i)' = Option(i)
      /\ \A i : Argument(i)' = Argument(i)
      /\ \A i : Behind(i)' = Behind(i)
  BY DEF Option, Argument, Behind
<1>2. \A i : Setting(i)' <=> Setting(i)
  BY <1>1 DEF Setting
<1> QED  BY <1>1, <1>2 DEF Settings, Misused, FirstOperand, Says

LEMMA InitCommandLineInv == CommandLineInit => CommandLineInv
<1> SUFFICES ASSUME CommandLineInit PROVE CommandLineInv
  OBVIOUS
<1>1. Started /\ argv \in Seq(Words) /\ DOMAIN environment \subseteq Names
  BY CommandLineAssumption DEF CommandLineInit, Started
<1>2. CommandLineTypeOK
  BY <1>1, GlobalFacts DEF CommandLineInit, CommandLineTypeOK
<1>3. Parsing
  BY DEF CommandLineInit, Parsing, OptionsAsWritten, Returned
<1> QED  BY <1>1, <1>2, <1>3 DEF CommandLineInv

\* getenv gives every global its value before any option is looked at.
LEMMA ReadEnvironmentInv ==
  ASSUME CommandLineInv, ReadEnvironment
  PROVE  CommandLineInv'
<1>1. /\ parse' = "getopt"
      /\ globals' = FromEnvironment(environment)
      /\ UNCHANGED <<environment, argv, optind>>
      /\ optind \in 1 .. Len(argv) + 1
      /\ argv \in Seq(Words)
  BY DEF ReadEnvironment, CommandLineInv, CommandLineTypeOK
<1>2. CommandLineTypeOK' /\ Started'
  BY <1>1, FromEnvironmentFacts, CommandLineAssumption
     DEF CommandLineInv, CommandLineTypeOK, Started
<1>3. Parsing'
  <2>1. optind = 1 /\ EndpointOfEnvironment'
    BY <1>1 DEF ReadEnvironment, CommandLineInv, Parsing, EndpointOfEnvironment
  <2>2. Settings({}, 1) /\ {} \in SUBSET (1 .. 1 - 1)
    BY DEF Settings
  <2>3. \A flag \in Flags : Says({}, flag, FromEnvironment(environment)[Global(flag)])
    BY DEF Says
  <2>4. Follow({}, 1)'
    BY <1>1, <2>2, <2>3, WordsFrame DEF Follow
  <2> QED  BY <1>1, <2>1, <2>2, <2>4 DEF Parsing, OptionsAsWritten, Returned
<1> QED  BY <1>2, <1>3 DEF CommandLineInv

\* An iteration of the loop adds a setting to those that were read.
LEMMA TakeOptionInv ==
  ASSUME CommandLineInv, TakeOption
  PROVE  CommandLineInv'
<1> DEFINE option == Option(optind)
           word == Argument(optind)
           e == Behind(optind)
<1>1. /\ Setting(optind)
      /\ globals' = [globals EXCEPT ![Global(option)] = Value(option, word)]
      /\ optind' = e
      /\ parse = "getopt"
      /\ UNCHANGED <<environment, argv, parse>>
      /\ argv \in Seq(Words) /\ Len(argv) \in Nat
  BY DEF TakeOption, Set, CommandLineInv, CommandLineTypeOK
<1>2. PICK S \in SUBSET (1 .. optind - 1) : Follow(S, optind)
  BY <1>1 DEF CommandLineInv, Parsing
<1>3. /\ optind \in 1 .. Len(argv)
      /\ e \in optind + 1 .. Len(argv) + 1
  BY <1>1 DEF Setting, Behind
<1>4. option \in Flags /\ word \in Words /\ Number(word) \in Int
  <2>1. argv \in Arguments
    BY <1>1, <1>3 DEF CommandLineInv, Started
  <2>2. CASE argv[optind] \in Attached
    <3>1. optind \in DOMAIN argv
      BY <1>1, <1>3
    <3> QED  BY <2>1, <2>2, <3>1, CommandLineAssumption DEF Option, Argument
  <2>3. CASE argv[optind] \notin Attached
    <3>1. argv[optind] \in Flags /\ e = optind + 2
      BY <1>1, <2>3 DEF Setting, Options, Behind
    <3>2. optind + 1 \in DOMAIN argv
      BY <1>1, <1>3, <3>1
    <3> QED  BY <1>1, <2>1, <2>3, <3>1, <3>2, CommandLineAssumption
             DEF Option, Argument
  <2> QED  BY <2>2, <2>3
<1>5. /\ DOMAIN globals' = DOMAIN globals
      /\ globals'[Global(option)] = Value(option, word)
      /\ \A g \in DOMAIN globals \ {Global(option)} : globals'[g] = globals[g]
  BY <1>1, <1>4, GlobalFacts DEF CommandLineInv, CommandLineTypeOK
<1>6. CommandLineTypeOK' /\ Started'
  <2>1. DOMAIN globals' = DOMAIN Defaults
    BY <1>5 DEF CommandLineInv, CommandLineTypeOK
  <2>2. ASSUME NEW g \in Names PROVE globals'[g] \in Words
    <3>1. CASE g = Global(option)
      <4>1. option # "-m"
        BY <1>4, <3>1, GlobalFacts DEF Names
      <4> QED  BY <1>4, <1>5, <3>1, <4>1 DEF Value
    <3>2. CASE g # Global(option)
      BY <1>5, <3>2, GlobalFacts DEF CommandLineInv, CommandLineTypeOK
    <3> QED  BY <3>1, <3>2
  <2>3. globals'.maxSessions \in Int
    <3>1. CASE Global(option) = "maxSessions"
      BY <1>4, <1>5, <3>1, GlobalFacts DEF Value
    <3>2. CASE Global(option) # "maxSessions"
      BY <1>5, <3>2, GlobalFacts DEF CommandLineInv, CommandLineTypeOK
    <3> QED  BY <3>1, <3>2
  <2>4. optind' \in 1 .. Len(argv) + 1
    BY <1>1, <1>3
  <2> QED  BY <1>1, <2>1, <2>2, <2>3, <2>4
           DEF CommandLineInv, CommandLineTypeOK, Started
<1> DEFINE T == S \cup {optind}
<1>7. T \in SUBSET (1 .. e - 1) /\ Settings(T, e)
  <2>1. Settings(S, optind)
    BY <1>2 DEF Follow
  <2>2. T \in SUBSET (1 .. e - 1)
    BY <1>3
  <2>3. 1 \in T \cup {e}
    BY <2>1 DEF Settings
  <2>4. \A p \in T : Setting(p) /\ Behind(p) \in T \cup {e}
    BY <1>1, <2>1 DEF Settings
  <2>5. \A p \in T \cup {e} : p = 1 \/ \E q \in T : p = Behind(q)
    BY <2>1 DEF Settings
  <2> QED  BY <2>2, <2>3, <2>4, <2>5 DEF Settings
<1>8. ASSUME NEW flag \in Flags
      PROVE  Says(T, flag, globals'[Global(flag)])
  <2>1. CASE flag = option
    <3>1. \A q \in T : ~(q > optind)
      BY <1>3
    <3> QED  BY <1>5, <2>1, <3>1 DEF Says
  <2>2. CASE flag # option
    <3>1. globals'[Global(flag)] = globals[Global(flag)]
      BY <1>4, <1>5, <2>2, GlobalFacts DEF CommandLineInv, CommandLineTypeOK
    <3>2. Says(S, flag, globals[Global(flag)])
      BY <1>2 DEF Follow
    <3> HIDE DEF option, word
    <3>3. \A q \in T : q \in S \/ Option(q) # flag
      BY <2>2 DEF option
    <3> HIDE DEF T
    <3>4. S \subseteq T
      BY DEF T
    <3> QED  BY <3>1, <3>2, <3>3, <3>4 DEF Says
  <2> QED  BY <2>1, <2>2
<1>9. EndpointOfEnvironment'
  BY <1>1, <1>4, <1>5, GlobalFacts
     DEF CommandLineInv, CommandLineTypeOK, Parsing, EndpointOfEnvironment, Names
<1>10. Parsing'
  <2>1. PICK b \in 1 .. Len(argv) + 1 : b = e
    BY <1>1, <1>3
  <2>2. PICK R \in SUBSET (1 .. b - 1) : R = T
    BY <1>7, <2>1
  <2> HIDE DEF T, e
  <2>3. Follow(R, b)'
    <3>1. Settings(R, b) /\ \A flag \in Flags : Says(R, flag, globals'[Global(flag)])
      BY <1>7, <1>8, <2>1, <2>2
    <3> QED  BY <1>1, <3>1, WordsFrame DEF Follow
  <2>4. optind' = b
    BY <1>1, <2>1
  <2>5. R \in SUBSET (1 .. optind' - 1) /\ Follow(R, optind)'
    BY <2>3, <2>4 DEF Follow, Settings
  <2> QED  BY <1>1, <1>9, <2>5 DEF Parsing, OptionsAsWritten, Returned
<1> QED  BY <1>6, <1>10 DEF CommandLineInv

\* getopt refuses a word: it is the one behind the settings.
LEMMA RefuseOptionInv ==
  ASSUME CommandLineInv, RefuseOption
  PROVE  CommandLineInv'
<1>1. /\ \/ optind <= Len(argv) /\ argv[optind] \in Unknown
         \/ optind = Len(argv) /\ argv[optind] \in Flags
      /\ parse = "getopt"
      /\ parse' = "refused"
      /\ UNCHANGED <<environment, argv, optind, globals>>
      /\ argv \in Seq(Words) /\ Len(argv) \in Nat
      /\ optind \in 1 .. Len(argv) + 1
  BY DEF RefuseOption, CommandLineInv, CommandLineTypeOK
<1>2. PICK S \in SUBSET (1 .. optind - 1) : Follow(S, optind)
  BY <1>1 DEF CommandLineInv, Parsing
<1>3. Misused(optind)
  BY <1>1 DEF Misused
<1>4. ~Setting(optind)
  <2>1. CASE argv[optind] \in Unknown
    BY <2>1, CommandLineAssumption DEF Setting, Options
  <2>2. CASE optind = Len(argv) /\ argv[optind] \in Flags
    <3>1. Behind(optind) = optind + 2
      BY <2>2, CommandLineAssumption DEF Behind
    <3> QED  BY <1>1, <2>2, <3>1 DEF Setting
  <2> QED  BY <1>1, <2>1, <2>2
<1>5. OptionsAsWritten'
  <2>1. (Settings(S, optind) /\ ~Setting(optind) /\ Misused(optind))'
    BY <1>1, <1>2, <1>3, <1>4
       DEF Follow, Settings, Setting, Misused, Options, Behind
  <2>2. \A flag \in Flags : Says(S, flag, globals[Global(flag)])'
    BY <1>1, <1>2, WordsFrame DEF Follow
  <2> QED  BY <1>1, <2>1, <2>2 DEF OptionsAsWritten
<1> QED  BY <1>1, <1>5 DEF CommandLineInv, CommandLineTypeOK, Started, Parsing

\* getopt finds the end of the options.
LEMMA EndOptionsInv ==
  ASSUME CommandLineInv, EndOptions
  PROVE  CommandLineInv'
<1>1. /\ optind <= Len(argv) => argv[optind] \notin Options \cup Unknown
      /\ optind' = IF optind <= Len(argv) /\ argv[optind] = "--"
                     THEN optind + 1 ELSE optind
      /\ parse = "getopt"
      /\ parse' = "operands"
      /\ UNCHANGED <<environment, argv, globals>>
      /\ argv \in Seq(Words) /\ Len(argv) \in Nat
      /\ optind \in 1 .. Len(argv) + 1
  BY DEF EndOptions, CommandLineInv, CommandLineTypeOK
<1>2. PICK e \in 1 .. Len(argv) + 1 : e = optind
  BY <1>1
<1>3. PICK S \in SUBSET (1 .. e - 1) : Follow(S, e)
  BY <1>1, <1>2 DEF CommandLineInv, Parsing
<1>4. ~Misused(e) /\ ~Setting(e)
  BY <1>1, <1>2 DEF Misused, Setting, Options
<1>5. optind' = FirstOperand(e) /\ optind' \in 1 .. Len(argv) + 1
  BY <1>1, <1>2 DEF FirstOperand
<1>6. Parsing'
  <2>1. Follow(S, e)'
    BY <1>1, <1>3, WordsFrame DEF Follow
  <2>2. ~Setting(e)' /\ ~Misused(e)' /\ optind' = FirstOperand(e)'
    BY <1>1, <1>4, <1>5, WordsFrame
  <2>3. EndpointOfEnvironment'
    BY <1>1 DEF EndpointOfEnvironment, CommandLineInv, Parsing
  <2> QED  BY <1>1, <2>1, <2>2, <2>3 DEF Parsing, OptionsAsWritten, Returned
<1> QED  BY <1>1, <1>5, <1>6 DEF CommandLineInv, CommandLineTypeOK, Started

\* The operand is taken if it is needed, and nothing else is changed.
LEMMA TakeOperandInv ==
  ASSUME CommandLineInv, TakeOperand
  PROVE  CommandLineInv'
<1> DEFINE endpoint == FromEnvironment(environment).listenEndpoint
<1>1. /\ parse = "operands"
      /\ UNCHANGED <<environment, argv, optind>>
      /\ argv \in Seq(Words) /\ Len(argv) \in Nat
      /\ optind \in 1 .. Len(argv) + 1
      /\ globals.listenEndpoint = endpoint
  BY DEF TakeOperand, CommandLineInv, CommandLineTypeOK, Parsing,
         EndpointOfEnvironment
<1>2. PICK e \in 1 .. Len(argv) + 1 : \E S \in SUBSET (1 .. e - 1) :
        Follow(S, e) /\ ~Setting(e) /\ ~Misused(e) /\ optind = FirstOperand(e)
  BY <1>1 DEF CommandLineInv, Parsing
<1>3. PICK S \in SUBSET (1 .. e - 1) :
        Follow(S, e) /\ ~Setting(e) /\ ~Misused(e) /\ optind = FirstOperand(e)
  BY <1>2
<1>4. \/ /\ endpoint # Empty /\ parse' = "parsed" /\ globals' = globals
      \/ /\ endpoint = Empty /\ Len(argv) + 1 - optind # 1
         /\ parse' = "refused" /\ globals' = globals
      \/ /\ endpoint = Empty /\ Len(argv) + 1 - optind = 1
         /\ parse' = "parsed"
         /\ globals' = [globals EXCEPT !.listenEndpoint = argv[optind]]
  BY <1>1 DEF TakeOperand, OperandsLeft
<1>5. /\ DOMAIN globals' = DOMAIN globals
      /\ \A g \in DOMAIN globals \ {"listenEndpoint"} : globals'[g] = globals[g]
      /\ globals'.listenEndpoint =
           IF endpoint = Empty /\ parse' = "parsed" THEN argv[optind] ELSE endpoint
  <2>1. "listenEndpoint" \in DOMAIN globals
    BY GlobalFacts DEF CommandLineInv, CommandLineTypeOK, Names
  <2> QED  BY <1>1, <1>4, <2>1
<1>6. CommandLineTypeOK' /\ Started'
  <2>1. endpoint = Empty /\ parse' = "parsed" => argv[optind] \in Words
    BY <1>1, <1>4
  <2>2. \A g \in Names : globals'[g] \in Words
    BY <1>1, <1>5, <2>1, GlobalFacts DEF CommandLineInv, CommandLineTypeOK, Names
  <2>3. globals'.maxSessions \in Int
    BY <1>5, GlobalFacts DEF CommandLineInv, CommandLineTypeOK
  <2> QED  BY <1>1, <1>4, <1>5, <2>2, <2>3
           DEF CommandLineInv, CommandLineTypeOK, Started
<1>7. OptionsAsWritten'
  <2>1. /\ (Settings(S, e) /\ ~Setting(e))'
        /\ ~Misused(e)'
        /\ FirstOperand(e)' = optind
    BY <1>1, <1>3, WordsFrame DEF Follow
  <2>2. \A flag \in Flags : Says(S, flag, globals[Global(flag)])'
    <3>1. \A flag \in Flags : globals'[Global(flag)] = globals[Global(flag)]
      BY <1>5, GlobalFacts DEF CommandLineInv, CommandLineTypeOK
    <3> QED  BY <1>1, <1>3, <3>1, WordsFrame DEF Follow
  <2>3. /\ parse' = "refused" <=> endpoint = Empty /\ Len(argv) + 1 - optind # 1
        /\ parse' = "parsed" =>
             globals'.listenEndpoint = IF endpoint = Empty THEN argv[optind]
                                       ELSE endpoint
    BY <1>4, <1>5
  <2> QED  BY <1>1, <2>1, <2>2, <2>3 DEF OptionsAsWritten
<1>8. Parsing'
  BY <1>4, <1>7 DEF Parsing
<1> QED  BY <1>6, <1>8 DEF CommandLineInv

\* Every step of parse_opt keeps the invariant.
LEMMA ParseStepInv ==
  ASSUME CommandLineInv, ParseStep
  PROVE  CommandLineInv'
BY ReadEnvironmentInv, TakeOptionInv, RefuseOptionInv, EndOptionsInv,
   TakeOperandInv DEF ParseStep

LEMMA CommandLineStutters ==
  ASSUME CommandLineInv, UNCHANGED commandLine
  PROVE  CommandLineInv'
<1>1. UNCHANGED <<environment, argv, optind, parse, globals>>
  BY DEF commandLine
<1>2. CommandLineTypeOK' /\ Started' /\ (EndpointOfEnvironment' <=> EndpointOfEnvironment)
  BY <1>1 DEF CommandLineInv, CommandLineTypeOK, Started, EndpointOfEnvironment
<1>3. \A e : /\ Setting(e)' <=> Setting(e)
             /\ Misused(e)' <=> Misused(e)
             /\ FirstOperand(e)' = FirstOperand(e)
  BY <1>1, WordsFrame
<1>4. \A S, e : Settings(S, e)' <=> Settings(S, e)
  BY <1>1, WordsFrame
<1>5. \A S, flag, value : Says(S, flag, value)' <=> Says(S, flag, value)
  BY <1>1, WordsFrame
<1>6. \A S, e : Follow(S, e)' <=> Follow(S, e)
  BY <1>1, <1>4, <1>5 DEF Follow
<1>7. \A S : Follow(S, optind)' <=> Follow(S, optind)
  BY <1>1, <1>6 DEF Follow, Settings
<1>8. OptionsAsWritten'
  BY <1>1, <1>3, <1>4, <1>5
     DEF OptionsAsWritten, Returned, CommandLineInv, Parsing
<1>9. Parsing'
  BY <1>1, <1>2, <1>3, <1>6, <1>7, <1>8 DEF CommandLineInv, Parsing
<1> QED  BY <1>2, <1>9 DEF CommandLineInv

\* What holds of parse_opt by itself, before main goes on with what it
\* returned: for every environment and every sequence of arguments, when it
\* returns, the globals are those that the command line asks for.
THEOREM ParseOptReads ==
  CommandLineInit /\ [][ParseStep]_commandLine => [](CommandLineTypeOK /\ OptionsAsWritten)
<1>1. CommandLineInv /\ [ParseStep]_commandLine => CommandLineInv'
  BY ParseStepInv, CommandLineStutters
<1>2. CommandLineInv => CommandLineTypeOK /\ OptionsAsWritten
  BY DEF CommandLineInv, Parsing
<1> QED  BY <1>1, <1>2, InitCommandLineInv, PTL

=============================================================================
