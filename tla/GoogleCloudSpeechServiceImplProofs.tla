----------------- MODULE GoogleCloudSpeechServiceImplProofs -----------------
(***************************************************************************)
(* Proofs about GoogleCloudSpeechServiceImpl, for all requests and bounds. *)
(*                                                                         *)
(* A call is first shown to take only steps of the session it runs on, so  *)
(* that what MSSpeechSessionProofs proves of a session holds of it here.   *)
(* The rest of the invariant says where the gRPC thread is when the        *)
(* session is new, in use, or done with.                                   *)
(***************************************************************************)
EXTENDS GoogleCloudSpeechServiceImpl, SequenceTheorems, TLAPS

P == INSTANCE MSSpeechSessionProofs

\* Where the gRPC thread is, against the session and the status.
Stage ==
  /\ pc \in {"start", "accepted", "calling", "returning", "done"}
  /\ pc \in {"start", "accepted"} => gpc = "new" /\ responses = <<>>
  /\ pc = "calling" <=> leased
  /\ pc = "done" <=> status # "none"
  /\ pc \in {"returning", "done"} => gpc \in {"new", "returned"}

\* The types of the gRPC thread's locals; the language of an accepted call is
\* the client's.
Configs ==
  [recognitionMode : {"INTERACTIVE", "DICTATION"},
   profanityFilterMode : {"NONE", "MASK"},
   language : Languages \cup {""},
   enableIntermediateResults : BOOLEAN]

Urls == {"interactive", "dictation"} \X Languages \X {"mask", "raw"}

ThreadTypes ==
  /\ method \in Methods
  /\ request \in Request
  /\ msspeechRecoConfig \in Configs
  /\ pc = "accepted" => msspeechRecoConfig.language \in Languages
  /\ url \in {<<>>} \cup Urls
  /\ leased \in BOOLEAN
  /\ fed \in BOOLEAN
  /\ status \in {"none", "OK", "INVALID_ARGUMENT", "FAILED_PRECONDITION",
                 "UNIMPLEMENTED"}
  /\ endDetected \in BOOLEAN

Kinds == Results \cup {"hypothesis", "fragment"}

\* The types of what the handler keeps and writes; there is room for the
\* message that is being handled.
HandlerTypes ==
  /\ currentDictationPhrase \in Transcripts
  /\ responses \in Seq(Answer)
  /\ heard \in Seq(Kinds)
  /\ Len(heard) <= MaxMessages
  /\ rpc = "inHandler" => Len(heard) < MaxMessages

\* The configuration an accepted call was given, and what came of it.
Configured ==
  /\ pc = "accepted" =>
       /\ method # "LongRunningRecognize"
       /\ msspeechRecoConfig = IF method = "Recognize" THEN Load(request)
                                                      ELSE LoadStreaming(request)
  /\ UrlIsAsAsked

IInv == P!IInv /\ Configured /\ Stage /\ ThreadTypes /\ HandlerTypes

-----------------------------------------------------------------------------
(* The session of the call *)

LEMMA SessionInit == Init => P!Init
BY DEF Init, Session!Init, P!Init, Session!AudioQueue!Init, P!AudioQueue!Init

LEMMA SameGrpcStep == Session!GrpcStep => P!GrpcStep
BY DEF Session!GrpcStep, P!GrpcStep, Session!RecognizeStream,
       P!RecognizeStream, Session!LockCompletion, P!LockCompletion,
       Session!NoPendingAudio, P!NoPendingAudio, Session!ClearPendingAudio,
       P!ClearPendingAudio, Session!ResumeStream, P!ResumeStream,
       Session!WaitForCompletion, P!WaitForCompletion, Session!queue,
       P!queue, Session!members, P!members, Session!library, P!library

LEMMA SameAudio ==
  /\ \A n \in Chunks : Session!SendAudio(n) => P!SendAudio(n)
  /\ Session!EndAudio => P!EndAudio
BY DEF Session!SendAudio, P!SendAudio, Session!EndAudio, P!EndAudio,
       Session!AudioQueue!Write, P!AudioQueue!Write, Session!AudioQueue!Close,
       P!AudioQueue!Close, Session!members, P!members, Session!library,
       P!library

LEMMA SameCallback == Session!AudioCallback => P!AudioCallback
BY DEF Session!AudioCallback, P!AudioCallback, Session!AudioBytes,
       P!AudioBytes, Session!AudioEnd, P!AudioEnd, Session!AudioEmpty,
       P!AudioEmpty, Session!SetPendingAudio, P!SetPendingAudio,
       Session!Poll, P!Poll, Session!AudioQueue!Read, P!AudioQueue!Read,
       Session!AudioQueue!ReadEnd, P!AudioQueue!ReadEnd,
       Session!AudioQueue!ReadEmpty, P!AudioQueue!ReadEmpty,
       Session!AudioQueue!svars, P!AudioQueue!svars, Session!queue, P!queue,
       Session!members, P!members, Session!library, P!library

LEMMA SameTurn ==
  /\ Session!Message => P!Message
  /\ Session!MessageDone => P!MessageDone
  /\ Session!TurnEnd => P!TurnEnd
BY DEF Session!Message, P!Message, Session!MessageDone, P!MessageDone,
       Session!TurnEnd, P!TurnEnd, Session!queue, P!queue, Session!members,
       P!members, Session!library, P!library

\* The steps of a call are steps of its session, or leave it alone.
LEMMA SessionStep == [Next]_vars => [P!Next]_P!vars
<1> SUFFICES ASSUME [Next]_vars PROVE P!Next \/ UNCHANGED P!vars
  OBVIOUS
<1>1. UNCHANGED session => UNCHANGED P!vars
  BY DEF session, P!vars, P!queue, P!members, P!library
<1>2. CASE CallSession
  BY <1>2, SameGrpcStep DEF CallSession, P!Next
<1>3. ASSUME NEW n \in Chunks, SendAudio(n)
      PROVE  P!Next
  BY <1>3, SameAudio DEF SendAudio, P!Next
<1>4. CASE EndAudio
  BY <1>4, SameAudio DEF EndAudio, P!Next
<1>5. CASE LibraryStep
  BY <1>5, SameCallback, SameTurn DEF LibraryStep, P!Next
<1>6. CASE Message
  BY <1>6, SameTurn DEF Message, P!Next
<1>7. CASE \/ StreamingHypothesis
           \/ StreamingFragment
           \/ \E kind \in Results : StreamingResult(kind) \/ SyncResult(kind)
           \/ \E kind \in {"hypothesis", "fragment"} : SyncIgnored(kind)
  BY <1>7, SameTurn DEF StreamingHypothesis, StreamingFragment,
     StreamingResult, SyncResult, SyncIgnored, Handled, P!Next
<1>8. CASE \/ LongRunningRecognize \/ RecognizeRefused \/ ConfigMissing
           \/ StreamingRefused \/ Accept \/ GetSession \/ PutSession
           \/ ReturnOK \/ SpeechEnd
  BY <1>1, <1>8 DEF LongRunningRecognize, RecognizeRefused, ConfigMissing,
     StreamingRefused, Accept, GetSession, PutSession, ReturnOK, SpeechEnd,
     Return
<1>9. CASE UNCHANGED vars
  BY <1>1, <1>9 DEF vars
<1> QED  BY <1>2, <1>3, <1>4, <1>5, <1>6, <1>7, <1>8, <1>9 DEF Next

\* What MSSpeechSessionProofs proves of each step of a session.
LEMMA SessionKeepsInv ==
  ASSUME P!IInv, [Next]_vars
  PROVE  P!IInv'
<1>1. P!Next \/ UNCHANGED P!vars
  BY SessionStep
<1>2. CASE P!GrpcStep \/ (\E n \in Chunks : P!SendAudio(n)) \/ P!EndAudio
  BY <1>2, P!GrpcIInv, CallAssumption
<1>3. CASE P!AudioCallback
  BY <1>3, P!CallbackIInv, CallAssumption
<1>4. CASE P!Message \/ P!MessageDone \/ P!TurnEnd
  BY <1>4, P!MessageIInv, CallAssumption
<1>5. CASE UNCHANGED P!vars
  BY <1>5, P!StutterIInv, CallAssumption
<1> QED  BY <1>1, <1>2, <1>3, <1>4, <1>5 DEF P!Next

-----------------------------------------------------------------------------
(* The invariant *)

LEMMA InitIInv == Init => IInv
<1> SUFFICES ASSUME Init PROVE IInv
  OBVIOUS
<1>1. P!IInv
  BY SessionInit, P!InitIInv, CallAssumption
<1>2. Stage
  BY DEF Init, Session!Init, Stage
<1>3. ThreadTypes
  BY DEF Init, Default, Configs, ThreadTypes
<1>4. HandlerTypes
  BY CallAssumption, EmptySeq DEF Init, Session!Init, Transcripts, HandlerTypes
<1>5. Configured
  BY DEF Init, Configured, UrlIsAsAsked
<1> QED  BY <1>1, <1>2, <1>3, <1>4, <1>5 DEF IInv

LEMMA StageNext ==
  ASSUME IInv, [Next]_vars
  PROVE  Stage'
<1> USE DEF IInv, Stage
<1>1. CASE \/ LongRunningRecognize \/ RecognizeRefused \/ ConfigMissing
           \/ StreamingRefused \/ ReturnOK
  BY <1>1 DEF LongRunningRecognize, RecognizeRefused, ConfigMissing,
     StreamingRefused, ReturnOK, Return, session, asked, handler
<1>2. CASE Accept \/ GetSession \/ PutSession \/ SpeechEnd
  BY <1>2 DEF Accept, GetSession, PutSession, SpeechEnd, session, asked,
     thread, handler
<1>3. CASE CallSession \/ EndAudio \/ \E n \in Chunks : SendAudio(n)
  BY <1>3 DEF CallSession, EndAudio, SendAudio, asked, thread, handler
<1>4. CASE LibraryStep \/ Message
  <2>1. UNCHANGED gpc
    BY <1>4 DEF LibraryStep, Message, Session!AudioCallback,
       Session!AudioBytes, Session!AudioEnd, Session!AudioEmpty,
       Session!SetPendingAudio, Session!TurnEnd, Session!Message,
       Session!members
  <2> QED  BY <1>4, <2>1 DEF LibraryStep, Message, thread, handler
<1>5. CASE \/ StreamingHypothesis
           \/ StreamingFragment
           \/ \E kind \in Results : StreamingResult(kind) \/ SyncResult(kind)
           \/ \E kind \in {"hypothesis", "fragment"} : SyncIgnored(kind)
  <2>1. PICK kind : Handled(kind)
    BY <1>5 DEF StreamingHypothesis, StreamingFragment, StreamingResult,
       SyncResult, SyncIgnored
  <2>2. rpc = "inHandler" /\ UNCHANGED <<thread, gpc>>
    BY <2>1 DEF Handled, Session!MessageDone
  <2>3. gpc # "new"
    BY <2>2 DEF P!IInv, P!LibraryInsideTurn, P!LockGuardsTurn
  <2> QED  BY <2>2, <2>3 DEF thread
<1>6. CASE UNCHANGED vars
  BY <1>6 DEF vars, session, thread, handler
<1> QED  BY <1>1, <1>2, <1>3, <1>4, <1>5, <1>6 DEF Next

LEMMA ThreadTypesNext ==
  ASSUME IInv, [Next]_vars
  PROVE  ThreadTypes'
<1> USE DEF IInv, Stage, ThreadTypes
<1>1. CASE \/ LongRunningRecognize \/ RecognizeRefused \/ ConfigMissing
           \/ StreamingRefused \/ ReturnOK
  BY <1>1 DEF LongRunningRecognize, RecognizeRefused, ConfigMissing,
     StreamingRefused, ReturnOK, Return, asked
<1>2. CASE Accept
  <2>1. msspeechRecoConfig' \in {Load(request), LoadStreaming(request)}
    BY <1>2 DEF Accept
  <2>2. Load(request) \in Configs /\ Load(request).language \in Languages
    BY DEF Load, Default, Configs, Request
  <2>3. /\ LoadStreaming(request) \in Configs
        /\ LoadStreaming(request).language \in Languages
    BY <2>2 DEF LoadStreaming, Configs, Request
  <2> QED  BY <1>2, <2>1, <2>2, <2>3 DEF Accept, asked
<1>3. CASE GetSession
  <2>1. url' \in Urls
    BY <1>3 DEF GetSession, MSSpeechUrl, Urls
  <2> QED  BY <1>3, <2>1 DEF GetSession, asked
<1>4. CASE PutSession \/ SpeechEnd
  BY <1>4 DEF PutSession, SpeechEnd, asked, thread
<1>5. CASE \E n \in Chunks : SendAudio(n)
  BY <1>5 DEF SendAudio, asked
<1>6. CASE \/ CallSession \/ EndAudio \/ LibraryStep \/ Message
           \/ StreamingHypothesis \/ StreamingFragment
           \/ \E kind \in Results : StreamingResult(kind) \/ SyncResult(kind)
           \/ \E kind \in {"hypothesis", "fragment"} : SyncIgnored(kind)
           \/ UNCHANGED vars
  <2>1. UNCHANGED <<asked, thread>> /\ endDetected' = endDetected
    BY <1>6 DEF CallSession, EndAudio, LibraryStep, Message,
       StreamingHypothesis, StreamingFragment, StreamingResult, SyncResult,
       SyncIgnored, Handled, vars
  <2> QED  BY <2>1 DEF asked, thread
<1> QED  BY <1>1, <1>2, <1>3, <1>4, <1>5, <1>6 DEF Next

\* The text of a message that is being handled is a transcript.
LEMMA TextType ==
  ASSUME HandlerTypes, rpc = "inHandler"
  PROVE  Text \in Transcripts
<1>1. Len(heard) + 1 \in 1 .. MaxMessages
  BY CallAssumption, LenProperties DEF HandlerTypes
<1> QED  BY <1>1 DEF Text, Transcripts

\* What the handler does to the phrase, and to the responses.
LEMMA PhraseType ==
  ASSUME HandlerTypes, rpc = "inHandler",
         \/ StreamingHypothesis
         \/ StreamingFragment
         \/ \E kind \in Results : StreamingResult(kind) \/ SyncResult(kind)
         \/ \E kind \in {"hypothesis", "fragment"} : SyncIgnored(kind)
  PROVE  currentDictationPhrase' \in Transcripts
<1>1. /\ currentDictationPhrase \in Transcripts
      /\ currentDictationPhrase \o Text \in Transcripts
      /\ <<>> \in Transcripts
  BY TextType, ConcatProperties, EmptySeq DEF HandlerTypes, Transcripts
<1>2. currentDictationPhrase' \in
        {currentDictationPhrase, currentDictationPhrase \o Text, <<>>}
  BY DEF StreamingHypothesis, StreamingFragment, StreamingResult, SyncResult,
     SyncIgnored, Cleared
<1> QED  BY <1>1, <1>2

LEMMA WrittenType ==
  ASSUME HandlerTypes, rpc = "inHandler",
         \/ StreamingHypothesis
         \/ StreamingFragment
         \/ \E kind \in Results : StreamingResult(kind) \/ SyncResult(kind)
         \/ \E kind \in {"hypothesis", "fragment"} : SyncIgnored(kind)
  PROVE  UNCHANGED responses \/ \E a \in Answer : Write(a)
<1>1. \A words \in Transcripts :
        Interim(words) \in Answer /\ Final(words) \in Answer
  BY DEF Interim, Final, Answer
<1>2. \/ UNCHANGED responses
      \/ Write(Interim(Text))
      \/ Write(Final(Text))
      \/ Write(Interim(currentDictationPhrase'))
  BY DEF StreamingHypothesis, StreamingFragment, StreamingResult, SyncResult,
     SyncIgnored, WriteResult
<1> QED  BY <1>1, <1>2, TextType, PhraseType

LEMMA HandlerTypesNext ==
  ASSUME IInv, [Next]_vars
  PROVE  HandlerTypes'
<1>0. HandlerTypes
  BY DEF IInv
<1>1. CASE \/ LongRunningRecognize \/ RecognizeRefused \/ ConfigMissing
           \/ StreamingRefused \/ ReturnOK \/ Accept \/ GetSession
           \/ PutSession \/ SpeechEnd \/ CallSession \/ EndAudio
           \/ \E n \in Chunks : SendAudio(n)
           \/ UNCHANGED vars
  <2>1. UNCHANGED handler
    BY <1>1 DEF LongRunningRecognize, RecognizeRefused, ConfigMissing,
       StreamingRefused, ReturnOK, Return, Accept, GetSession, PutSession,
       SpeechEnd, CallSession, EndAudio, SendAudio, vars
  <2>2. CASE UNCHANGED session
    BY <1>0, <2>1, <2>2 DEF session, handler, HandlerTypes
  <2>3. CASE Session!GrpcStep \/ Session!EndAudio \/ \E n \in Chunks : Session!SendAudio(n)
    <3>1. UNCHANGED rpc
      BY <2>3 DEF Session!GrpcStep, Session!RecognizeStream,
         Session!LockCompletion, Session!NoPendingAudio,
         Session!ClearPendingAudio, Session!ResumeStream,
         Session!WaitForCompletion, Session!SendAudio, Session!EndAudio,
         Session!library
    <3> QED  BY <1>0, <2>1, <3>1 DEF handler, HandlerTypes
  <2> QED  BY <1>1, <2>2, <2>3 DEF LongRunningRecognize, RecognizeRefused,
              ConfigMissing, StreamingRefused, ReturnOK, Return, Accept,
              GetSession, PutSession, SpeechEnd, CallSession, EndAudio,
              SendAudio, vars
<1>2. CASE LibraryStep \/ Message
  <2>1. rpc' = "inHandler" => Len(heard) < MaxMessages
    <3>1. CASE LibraryStep
      BY <1>0, <3>1 DEF LibraryStep, HandlerTypes, Session!AudioCallback,
         Session!AudioBytes, Session!AudioEnd, Session!AudioEmpty,
         Session!SetPendingAudio, Session!TurnEnd, Session!members
    <3>2. CASE Message
      BY <3>2 DEF Message
    <3> QED  BY <1>2, <3>1, <3>2
  <2>2. UNCHANGED handler
    BY <1>2 DEF LibraryStep, Message
  <2> QED  BY <1>0, <2>1, <2>2 DEF handler, HandlerTypes
<1>3. CASE \/ StreamingHypothesis
           \/ StreamingFragment
           \/ \E kind \in Results : StreamingResult(kind) \/ SyncResult(kind)
           \/ \E kind \in {"hypothesis", "fragment"} : SyncIgnored(kind)
  <2>1. PICK kind \in Kinds : Handled(kind)
    BY <1>3 DEF StreamingHypothesis, StreamingFragment, StreamingResult,
       SyncResult, SyncIgnored, Kinds
  <2>2. rpc = "inHandler" /\ rpc' = "idle" /\ heard' = Append(heard, kind)
    BY <2>1 DEF Handled, Session!MessageDone
  <2>3. heard' \in Seq(Kinds) /\ Len(heard') <= MaxMessages
    BY <1>0, <2>1, <2>2, CallAssumption, AppendProperties, LenProperties
       DEF HandlerTypes
  <2>4. responses' \in Seq(Answer)
    BY <1>0, <1>3, <2>2, WrittenType, AppendProperties DEF Write, HandlerTypes
  <2>5. currentDictationPhrase' \in Transcripts
    BY <1>0, <1>3, <2>2, PhraseType
  <2> QED  BY <2>2, <2>3, <2>4, <2>5 DEF HandlerTypes
<1> QED  BY <1>1, <1>2, <1>3 DEF Next

\* What MSSpeechUrl makes of a configuration.
LEMMA UrlOfConfig ==
  ASSUME request \in Request, method \in Methods \ {"LongRunningRecognize"}
  PROVE  MSSpeechUrl(IF method = "Recognize" THEN Load(request)
                                             ELSE LoadStreaming(request))
           = <<IF method = "StreamingRecognize" /\ ~request.singleUtterance
               THEN "dictation" ELSE "interactive",
               request.languageCode,
               IF request.profanityFilter THEN "mask" ELSE "raw">>
<1>1. /\ Load(request).recognitionMode = "INTERACTIVE"
      /\ Load(request).language = request.languageCode
      /\ Load(request).profanityFilterMode =
           IF request.profanityFilter THEN "MASK" ELSE "NONE"
  BY DEF Load, Default
<1>2. /\ LoadStreaming(request).recognitionMode =
           IF request.singleUtterance THEN "INTERACTIVE" ELSE "DICTATION"
      /\ LoadStreaming(request).language = request.languageCode
      /\ LoadStreaming(request).profanityFilterMode =
           IF request.profanityFilter THEN "MASK" ELSE "NONE"
  BY DEF LoadStreaming, Load, Default
<1>3. CASE method = "Recognize"
  BY <1>1, <1>3 DEF MSSpeechUrl
<1>4. CASE method = "StreamingRecognize"
  BY <1>2, <1>4 DEF MSSpeechUrl
<1> QED  BY <1>3, <1>4 DEF Methods

LEMMA ConfiguredNext ==
  ASSUME IInv, [Next]_vars
  PROVE  Configured'
<1> USE DEF IInv, Configured, UrlIsAsAsked
<1>1. CASE Accept
  BY <1>1 DEF Accept, asked
<1>2. CASE GetSession
  <2>1. url' = MSSpeechUrl(msspeechRecoConfig) /\ pc = "accepted" /\ pc' = "calling"
    BY <1>2 DEF GetSession
  <2>2. request \in Request /\ method \in Methods \ {"LongRunningRecognize"}
    BY <2>1 DEF ThreadTypes
  <2> QED  BY <1>2, <2>1, <2>2, UrlOfConfig DEF GetSession, asked
<1>3. CASE PutSession
  BY <1>3 DEF PutSession, asked
<1>4. CASE \/ LongRunningRecognize \/ RecognizeRefused \/ ConfigMissing
           \/ StreamingRefused \/ ReturnOK
  BY <1>4 DEF LongRunningRecognize, RecognizeRefused, ConfigMissing,
     StreamingRefused, ReturnOK, Return, asked
<1>5. CASE \/ CallSession \/ EndAudio \/ LibraryStep \/ Message \/ SpeechEnd
           \/ (\E n \in Chunks : SendAudio(n))
           \/ StreamingHypothesis \/ StreamingFragment
           \/ \E kind \in Results : StreamingResult(kind) \/ SyncResult(kind)
           \/ \E kind \in {"hypothesis", "fragment"} : SyncIgnored(kind)
           \/ UNCHANGED vars
  <2>1. UNCHANGED <<asked, pc, msspeechRecoConfig, url>>
    BY <1>5 DEF CallSession, EndAudio, LibraryStep, Message, SpeechEnd,
       SendAudio, StreamingHypothesis, StreamingFragment, StreamingResult,
       SyncResult, SyncIgnored, Handled, thread, vars
  <2> QED  BY <2>1 DEF asked
<1> QED  BY <1>1, <1>2, <1>3, <1>4, <1>5 DEF Next

LEMMA NextIInv ==
  ASSUME IInv, [Next]_vars
  PROVE  IInv'
BY SessionKeepsInv, StageNext, ConfiguredNext, ThreadTypesNext,
   HandlerTypesNext DEF IInv

\* The session's invariant and the position of the gRPC thread, in every
\* state of a call.
THEOREM Inductive == Spec => []IInv
BY InitIInv, NextIInv, PTL DEF Spec

\* A session is given back by every call that returns, and never while a
\* turn runs on its connection.
THEOREM LeasesCoverTurns == Spec => []LeaseCoversTurn
<1>1. IInv => LeaseCoversTurn
  BY DEF IInv, Stage, LeaseCoversTurn, P!IInv, P!TypeOK, P!LockGuardsTurn
<1> QED  BY <1>1, Inductive, PTL

\* A call uses its session as MSSpeechSession expects: what the three methods
\* and the handlers do to it is a behaviour of that module.
LEMMA CallUsesSession == Spec => P!Spec
BY SessionInit, SessionStep, PTL DEF Spec, P!Spec

\* In a call of any method, too, waitForCompletion returns only when the turn
\* is over and no callback can reach the handler on the stack any more, a
\* stalled stream is known to be stalled, and once the audio has drained the
\* end of the turn releases the call.
THEOREM CallsStayInSession ==
  Spec => []( /\ Session!CallbacksInsideCall
              /\ Session!StallIsRecorded
              /\ Session!DrainedCallsAreReleased )
<1>1. P!CallbacksInsideCall => Session!CallbacksInsideCall
  BY DEF P!CallbacksInsideCall, Session!CallbacksInsideCall
<1>2. P!StallIsRecorded => Session!StallIsRecorded
  BY DEF P!StallIsRecorded, Session!StallIsRecorded
<1>3. P!DrainedCallsAreReleased => Session!DrainedCallsAreReleased
  BY DEF P!DrainedCallsAreReleased, Session!DrainedCallsAreReleased
<1>4. /\ P!Spec => []P!CallbacksInsideCall
      /\ P!Spec => []P!StallIsRecorded
      /\ P!Spec => []P!DrainedCallsAreReleased
  BY CallAssumption, P!CallbacksStayInside, P!StallsAreRecorded,
     P!DrainedCallsReturn
<1> QED  BY <1>1, <1>2, <1>3, <1>4, CallUsesSession, PTL

\* The locals of a call and the members of its handler keep their types.
THEOREM TypeCorrect == Spec => []TypeOK
<1>1. ASSUME IInv
      PROVE  TypeOK
  <2>1. Session!TypeOK
    BY <1>1 DEF IInv, P!IInv, P!TypeOK, Session!TypeOK
  <2>2. Stage /\ ThreadTypes /\ HandlerTypes
    BY <1>1 DEF IInv
  <2> QED  BY <2>1, <2>2 DEF Stage, ThreadTypes, HandlerTypes, TypeOK,
              Configs, Urls, Kinds
<1> QED  BY <1>1, Inductive, PTL

\* The session of a call is on a connection for the mode, the language and the
\* filter the client asked for, whichever overloads of load they went through.
THEOREM UrlsAsAsked == Spec => []UrlIsAsAsked
<1>1. IInv => UrlIsAsAsked
  BY DEF IInv, Configured
<1> QED  BY <1>1, Inductive, PTL

-----------------------------------------------------------------------------
(* What is written *)

\* The phrase that StreamingRpcRequestHandler has so far, and what there is
\* before the first message.
PhraseSoFar ==
  /\ pc \in {"start", "accepted"} => heard = <<>> /\ currentDictationPhrase = <<>>
  /\ (method = "StreamingRecognize"
        /\ msspeechRecoConfig.enableIntermediateResults) =>
       Tells(currentDictationPhrase, FragmentsOf(Len(heard)))

Written == FinalsAreThePhrases /\ InterimsAreOfOnePhrase

\* A step of a handler.
Handling ==
  \/ StreamingHypothesis
  \/ StreamingFragment
  \/ \E kind \in Results : StreamingResult(kind) \/ SyncResult(kind)
  \/ \E kind \in {"hypothesis", "fragment"} : SyncIgnored(kind)

\* One more message changes nothing of those before it.
LEMMA HeardGrows ==
  ASSUME heard \in Seq(Kinds), NEW kind \in Kinds, heard' = Append(heard, kind)
  PROVE  /\ Len(heard) \in Nat /\ Len(heard') = Len(heard) + 1
         /\ heard'[Len(heard) + 1] = kind
         /\ \A n \in 1 .. Len(heard) : heard'[n] = heard[n]
         /\ \A n \in 1 .. Len(heard) : FragmentsOf(n)' = FragmentsOf(n)
<1>1. /\ Len(heard) \in Nat /\ Len(heard') = Len(heard) + 1
      /\ heard'[Len(heard) + 1] = kind
      /\ \A n \in 1 .. Len(heard) : heard'[n] = heard[n]
  BY AppendProperties, LenProperties
<1>2. ASSUME NEW n \in 1 .. Len(heard)
      PROVE  FragmentsOf(n)' = FragmentsOf(n)
  <2>1. \A i \in 1 .. n : \A k \in i .. n : k \in 1 .. Len(heard)
    BY <1>1
  <2>2. \A i \in 1 .. n : i \in 1 .. Len(heard)
    BY <1>1
  <2>3. \A i \in 1 .. n :
          (\A k \in i .. n : heard'[k] \notin Results)
            <=> (\A k \in i .. n : heard[k] \notin Results)
    BY <1>1, <2>1
  <2> QED  BY <1>1, <2>2, <2>3 DEF FragmentsOf
<1> QED  BY <1>1, <1>2

\* The fragments of the phrase after one more message.
LEMMA FragmentsGrow ==
  ASSUME heard \in Seq(Kinds), NEW kind \in Kinds, heard' = Append(heard, kind)
  PROVE  FragmentsOf(Len(heard))' =
           IF kind \in Results THEN {}
           ELSE IF kind = "fragment"
                THEN FragmentsOf(Len(heard)) \cup {Len(heard) + 1}
                ELSE FragmentsOf(Len(heard))
<1> DEFINE m == Len(heard) + 1
<1>1. /\ Len(heard) \in Nat /\ Len(heard') = m
      /\ heard'[m] = kind
      /\ \A n \in 1 .. Len(heard) : heard'[n] = heard[n]
  BY HeardGrows
<1>2. CASE kind \in Results
  <2>1. \A i \in 1 .. m : m \in i .. m
    BY <1>1
  <2> QED  BY <1>1, <1>2, <2>1 DEF FragmentsOf
<1>3. CASE kind \notin Results
  <2>1. \A i \in 1 .. Len(heard) :
          /\ heard'[i] = heard[i]
          /\ (\A k \in i .. m : heard'[k] \notin Results)
               <=> (\A k \in i .. Len(heard) : heard[k] \notin Results)
    <3> SUFFICES ASSUME NEW i \in 1 .. Len(heard)
                 PROVE  (\A k \in i .. m : heard'[k] \notin Results)
                          <=> (\A k \in i .. Len(heard) : heard[k] \notin Results)
      BY <1>1
    <3>1. i .. m = (i .. Len(heard)) \cup {m}
      BY <1>1
    <3>2. \A k \in i .. Len(heard) : heard'[k] = heard[k]
      BY <1>1
    <3> QED  BY <1>1, <1>3, <3>1, <3>2
  <2>2. \A k \in m .. m : heard'[k] \notin Results
    BY <1>1, <1>3
  <2>3. 1 .. m = (1 .. Len(heard)) \cup {m}
    BY <1>1
  <2>4. FragmentsOf(Len(heard))' =
          {i \in 1 .. m : heard'[i] = "fragment"
                            /\ \A k \in i .. m : heard'[k] \notin Results}
    BY <1>1 DEF FragmentsOf
  <2>5. \A i : i \in FragmentsOf(Len(heard))' <=>
          \/ i \in FragmentsOf(Len(heard))
          \/ i = m /\ kind = "fragment"
    BY <1>1, <2>1, <2>2, <2>3, <2>4 DEF FragmentsOf
  <2> QED  BY <1>3, <2>5
<1> QED  BY <1>2, <1>3

\* A step handles one message.
LEMMA OneKind ==
  ASSUME HandlerTypes, NEW kind \in Kinds, Handled(kind)
  PROVE  \A k \in Kinds : Handled(k) => k = kind
<1>1. heard \in Seq(Kinds) /\ heard' = Append(heard, kind)
  BY DEF HandlerTypes, Handled
<1> SUFFICES ASSUME NEW k \in Kinds, Handled(k) PROVE k = kind
  OBVIOUS
<1>2. heard' = Append(heard, k)
  BY DEF Handled
<1>3. heard'[Len(heard) + 1] = k /\ heard'[Len(heard) + 1] = kind
  BY <1>1, <1>2, HeardGrows
<1> QED  BY <1>3

\* A phrase with one more message.
LEMMA TellsMore ==
  ASSUME NEW words \in Seq(Nat), NEW messages, NEW n \in Nat,
         Tells(words, messages), \A i \in messages : i < n
  PROVE  Tells(words \o <<n>>, messages \cup {n})
<1> DEFINE more == words \o <<n>>
<1>1. /\ Len(words) \in Nat /\ Len(more) = Len(words) + 1
      /\ more[Len(words) + 1] = n
      /\ \A i \in 1 .. Len(words) : more[i] = words[i]
  BY ConcatProperties, LenProperties
<1> HIDE DEF more
<1>2. \A i \in 1 .. Len(words) : words[i] \in messages
  BY DEF Tells
<1>3. \A i, j \in 1 .. Len(more) : i < j => more[i] < more[j]
  <2> SUFFICES ASSUME NEW i \in 1 .. Len(more), NEW j \in 1 .. Len(more), i < j
               PROVE  more[i] < more[j]
    OBVIOUS
  <2>1. i \in 1 .. Len(words) /\ more[i] = words[i]
    BY <1>1
  <2>2. CASE j = Len(words) + 1
    BY <1>1, <1>2, <2>1, <2>2
  <2>3. CASE j # Len(words) + 1
    <3>1. j \in 1 .. Len(words) /\ more[j] = words[j]
      BY <1>1, <2>3
    <3> QED  BY <2>1, <3>1 DEF Tells
  <2> QED  BY <2>2, <2>3
<1>4. {more[i] : i \in 1 .. Len(more)} = messages \cup {n}
  <2>1. 1 .. Len(more) = (1 .. Len(words)) \cup {Len(words) + 1}
    BY <1>1
  <2>2. {words[i] : i \in 1 .. Len(words)} = messages
    BY DEF Tells
  <2> QED  BY <1>1, <2>1, <2>2
<1> QED  BY <1>3, <1>4 DEF Tells, more

\* The phrase after a message was handled.
LEMMA PhraseNext ==
  ASSUME HandlerTypes, PhraseSoFar, Handling, NEW kind \in Kinds, Handled(kind),
         pc \notin {"start", "accepted"}
  PROVE  PhraseSoFar'
<1>1. /\ heard \in Seq(Kinds)
      /\ heard' = Append(heard, kind)
      /\ UNCHANGED <<asked, thread>>
  BY DEF HandlerTypes, Handled
<1>2. UNCHANGED <<pc, method, msspeechRecoConfig>>
  BY <1>1 DEF asked, thread
<1> SUFFICES ASSUME method = "StreamingRecognize",
                    msspeechRecoConfig.enableIntermediateResults
             PROVE  Tells(currentDictationPhrase, FragmentsOf(Len(heard)))'
  BY <1>2 DEF PhraseSoFar, Tells
<1>3. Tells(currentDictationPhrase, FragmentsOf(Len(heard)))
  BY DEF PhraseSoFar
<1>4. \A k \in Kinds : Handled(k) => k = kind
  BY OneKind
<1>5. CASE StreamingHypothesis
  <2>1. kind = "hypothesis" /\ UNCHANGED currentDictationPhrase
    BY <1>4, <1>5 DEF StreamingHypothesis, Kinds
  <2> QED  BY <1>1, <1>3, <2>1, FragmentsGrow DEF Results
<1>6. CASE StreamingFragment
  <2>1. kind = "fragment" /\ currentDictationPhrase' = currentDictationPhrase \o Text
    BY <1>4, <1>6 DEF StreamingFragment, Kinds
  <2>2. FragmentsOf(Len(heard))' = FragmentsOf(Len(heard)) \cup {Len(heard) + 1}
    BY <1>1, <2>1, FragmentsGrow DEF Results
  <2>3. Len(heard) \in Nat /\ \A i \in FragmentsOf(Len(heard)) : i < Len(heard) + 1
    BY <1>1, LenProperties DEF FragmentsOf
  <2>4. currentDictationPhrase \in Seq(Nat)
    BY CallAssumption DEF HandlerTypes, Transcripts
  <2>5. Tells(currentDictationPhrase \o <<Len(heard) + 1>>,
              FragmentsOf(Len(heard)) \cup {Len(heard) + 1})
    <3> DEFINE n == Len(heard) + 1
    <3>1. n \in Nat /\ \A i \in FragmentsOf(Len(heard)) : i < n
      BY <2>3
    <3> HIDE DEF n
    <3>2. Tells(currentDictationPhrase \o <<n>>, FragmentsOf(Len(heard)) \cup {n})
      BY <1>3, <2>4, <3>1, TellsMore
    <3> QED  BY <3>2 DEF n
  <2> QED  BY <2>1, <2>2, <2>5 DEF Text
<1>7. CASE \E k \in Results : StreamingResult(k)
  <2>1. kind \in Results /\ currentDictationPhrase' = <<>>
    BY <1>4, <1>7 DEF StreamingResult, Kinds, Cleared
  <2>2. FragmentsOf(Len(heard))' = {}
    BY <1>1, <2>1, FragmentsGrow
  <2> QED  BY <2>1, <2>2 DEF Tells
<1> QED  BY <1>5, <1>6, <1>7 DEF Handling, SyncResult, SyncIgnored

\* A handler writes the phrase that was recognized, or nothing.
LEMMA FinalWritten ==
  ASSUME HandlerTypes, Handling, NEW kind \in Kinds, Handled(kind)
  PROVE  /\ kind = "RECO_SUCCESS" => Write(Final(Text))
         /\ kind # "RECO_SUCCESS" =>
              \/ UNCHANGED responses
              \/ \E words : Write(Interim(words))
<1>2. \A k \in Kinds : Handled(k) => k = kind
  BY OneKind
<1>3. CASE StreamingHypothesis
  <2>1. kind = "hypothesis"
    BY <1>2, <1>3 DEF StreamingHypothesis, Kinds
  <2> QED  BY <1>3, <2>1 DEF StreamingHypothesis
<1>4. CASE StreamingFragment
  <2>1. kind = "fragment"
    BY <1>2, <1>4 DEF StreamingFragment, Kinds
  <2> QED  BY <1>4, <2>1 DEF StreamingFragment
<1>5. ASSUME NEW k \in Results, StreamingResult(k) \/ SyncResult(k)
      PROVE  WriteResult(kind)
  <2>1. k = kind
    BY <1>2, <1>5 DEF StreamingResult, SyncResult, Kinds
  <2> QED  BY <1>5, <2>1 DEF StreamingResult, SyncResult
<1>6. ASSUME NEW k \in {"hypothesis", "fragment"}, SyncIgnored(k)
      PROVE  kind # "RECO_SUCCESS" /\ UNCHANGED responses
  <2>1. k = kind
    BY <1>2, <1>6 DEF SyncIgnored, Kinds
  <2> QED  BY <1>6, <2>1 DEF SyncIgnored
<1> QED  BY <1>3, <1>4, <1>5, <1>6 DEF Handling, WriteResult

LEMMA ResponsesGrow ==
  ASSUME HandlerTypes, NEW a, Write(a)
  PROVE  /\ Len(responses) \in Nat /\ Len(responses') = Len(responses) + 1
         /\ responses'[Len(responses) + 1] = a
         /\ \A i \in 1 .. Len(responses) : responses'[i] = responses[i]
BY AppendProperties, LenProperties DEF HandlerTypes, Write

\* Every phrase gets one final result, in order.
LEMMA FinalsNext ==
  ASSUME HandlerTypes, FinalsAreThePhrases, Handling, NEW kind \in Kinds,
         Handled(kind)
  PROVE  FinalsAreThePhrases'
<1> DEFINE R == Len(responses)
           N == Len(heard)
<1>1. /\ N \in Nat /\ Len(heard') = N + 1 /\ heard'[N + 1] = kind
      /\ \A n \in 1 .. N : heard'[n] = heard[n]
  BY HeardGrows DEF HandlerTypes, Handled
<1>2. R \in Nat
  BY LenProperties DEF HandlerTypes
<1>3. /\ \A i \in 1 .. R : responses[i].kind = "final" =>
           \E n \in 1 .. N :
             heard[n] = "RECO_SUCCESS" /\ responses[i].transcript = <<n>>
      /\ \A n \in 1 .. N : heard[n] = "RECO_SUCCESS" =>
           \E i \in 1 .. R : responses[i] = Final(<<n>>)
      /\ \A i, j \in 1 .. R :
           (i < j /\ responses[i].kind = "final" /\ responses[j].kind = "final")
             => responses[i].transcript[1] < responses[j].transcript[1]
  BY DEF FinalsAreThePhrases
<1>4. CASE kind = "RECO_SUCCESS"
  <2>1. /\ Len(responses') = R + 1
        /\ responses'[R + 1] = Final(<<N + 1>>)
        /\ \A i \in 1 .. R : responses'[i] = responses[i]
    BY <1>4, FinalWritten, ResponsesGrow DEF Text
  <2> HIDE DEF R, N
  <2>2. ASSUME NEW i \in 1 .. R + 1, responses'[i].kind = "final"
        PROVE  \E n \in 1 .. N + 1 : /\ heard'[n] = "RECO_SUCCESS"
                                     /\ responses'[i].transcript = <<n>>
    <3>1. CASE i = R + 1
      BY <1>1, <1>4, <2>1, <3>1 DEF Final
    <3>2. CASE i # R + 1
      <4>1. i \in 1 .. R /\ responses'[i] = responses[i]
        BY <1>2, <2>1, <3>2
      <4>2. PICK n \in 1 .. N : /\ heard[n] = "RECO_SUCCESS"
                                /\ responses[i].transcript = <<n>>
        BY <1>3, <2>2, <4>1
      <4> QED  BY <1>1, <4>1, <4>2
    <3> QED  BY <3>1, <3>2
  <2>3. ASSUME NEW n \in 1 .. N + 1, heard'[n] = "RECO_SUCCESS"
        PROVE  \E i \in 1 .. R + 1 : responses'[i] = Final(<<n>>)
    <3>1. CASE n = N + 1
      BY <1>2, <2>1, <3>1
    <3>2. CASE n # N + 1
      <4>1. n \in 1 .. N /\ heard[n] = "RECO_SUCCESS"
        BY <1>1, <2>3, <3>2
      <4>2. PICK i \in 1 .. R : responses[i] = Final(<<n>>)
        BY <1>3, <4>1
      <4> QED  BY <1>2, <2>1, <4>2
    <3> QED  BY <3>1, <3>2
  <2>4. ASSUME NEW i \in 1 .. R + 1, NEW j \in 1 .. R + 1, i < j,
               responses'[i].kind = "final", responses'[j].kind = "final"
        PROVE  responses'[i].transcript[1] < responses'[j].transcript[1]
    <3>1. i \in 1 .. R /\ responses'[i] = responses[i]
      BY <1>2, <2>1, <2>4
    <3>2. CASE j = R + 1
      <4>1. PICK n \in 1 .. N : responses[i].transcript = <<n>>
        BY <1>3, <2>4, <3>1
      <4>2. responses'[j].transcript = <<N + 1>>
        BY <2>1, <3>2 DEF Final
      <4> QED  BY <1>1, <3>1, <4>1, <4>2
    <3>3. CASE j # R + 1
      <4>1. j \in 1 .. R /\ responses'[j] = responses[j]
        BY <1>2, <2>1, <3>3
      <4> QED  BY <1>3, <2>4, <3>1, <4>1
    <3> QED  BY <3>2, <3>3
  <2> QED  BY <1>1, <2>1, <2>2, <2>3, <2>4 DEF FinalsAreThePhrases, Final
<1>5. CASE kind # "RECO_SUCCESS"
  <2> DEFINE NoFinal ==
        /\ Len(responses') \in Nat
        /\ R <= Len(responses')
        /\ \A i \in 1 .. R : responses'[i] = responses[i]
        /\ \A i \in 1 .. Len(responses') :
             responses'[i].kind = "final" => i \in 1 .. R
  <2>1. NoFinal
    <3>1. CASE UNCHANGED responses
      BY <1>2, <3>1
    <3>2. ASSUME NEW words, Write(Interim(words))
          PROVE  NoFinal
      <4>1. /\ Len(responses') = R + 1
            /\ responses'[R + 1].kind = "interim"
            /\ \A i \in 1 .. R : responses'[i] = responses[i]
        BY <3>2, ResponsesGrow DEF Interim
      <4> QED  BY <1>2, <4>1
    <3> QED  BY <1>5, <3>1, <3>2, FinalWritten
  <2> HIDE DEF R, N
  <2>2. ASSUME NEW i \in 1 .. Len(responses'), responses'[i].kind = "final"
        PROVE  \E n \in 1 .. N + 1 : /\ heard'[n] = "RECO_SUCCESS"
                                     /\ responses'[i].transcript = <<n>>
    <3>1. i \in 1 .. R /\ responses'[i] = responses[i]
      BY <2>1, <2>2
    <3>2. PICK n \in 1 .. N : /\ heard[n] = "RECO_SUCCESS"
                              /\ responses[i].transcript = <<n>>
      BY <1>3, <2>2, <3>1
    <3> QED  BY <1>1, <3>1, <3>2
  <2>3. ASSUME NEW n \in 1 .. N + 1, heard'[n] = "RECO_SUCCESS"
        PROVE  \E i \in 1 .. Len(responses') : responses'[i] = Final(<<n>>)
    <3>1. n \in 1 .. N /\ heard[n] = "RECO_SUCCESS"
      BY <1>1, <1>5, <2>3
    <3>2. PICK i \in 1 .. R : responses[i] = Final(<<n>>)
      BY <1>3, <3>1
    <3> QED  BY <1>2, <2>1, <3>2
  <2>4. ASSUME NEW i \in 1 .. Len(responses'), NEW j \in 1 .. Len(responses'),
               i < j,
               responses'[i].kind = "final", responses'[j].kind = "final"
        PROVE  responses'[i].transcript[1] < responses'[j].transcript[1]
    BY <1>3, <2>1, <2>4
  <2> QED  BY <1>1, <2>2, <2>3, <2>4 DEF FinalsAreThePhrases, Final
<1> QED  BY <1>4, <1>5

\* What a handler writes as an interim result.
LEMMA InterimWritten ==
  ASSUME HandlerTypes, PhraseSoFar, Handling, NEW kind \in Kinds, Handled(kind),
         pc \notin {"start", "accepted"}
  PROVE  \/ UNCHANGED responses
         \/ \E words : Write(Final(words))
         \/ kind = "hypothesis" /\ Write(Interim(<<Len(heard) + 1>>))
         \/ /\ kind = "fragment"
            /\ \E words : /\ Write(Interim(words))
                          /\ Tells(words, FragmentsOf(Len(heard))')
<1>1. \A k \in Kinds : Handled(k) => k = kind
  BY OneKind
<1>2. CASE StreamingHypothesis
  <2>1. kind = "hypothesis"
    BY <1>1, <1>2 DEF StreamingHypothesis, Kinds
  <2> QED  BY <1>2, <2>1 DEF StreamingHypothesis, Text
<1>3. CASE StreamingFragment
  <2>1. kind = "fragment" /\ UNCHANGED <<asked, thread>>
    BY <1>1, <1>3 DEF StreamingFragment, Handled, Kinds
  <2>2. CASE msspeechRecoConfig.enableIntermediateResults
    <3>1. Write(Interim(currentDictationPhrase'))
      BY <1>3, <2>2 DEF StreamingFragment
    <3>2. PhraseSoFar'
      BY PhraseNext
    <3>3. Tells(currentDictationPhrase', FragmentsOf(Len(heard))')
      BY <1>3, <2>1, <2>2, <3>2 DEF PhraseSoFar, StreamingFragment, asked, thread
    <3> QED  BY <2>1, <3>1, <3>3
  <2>3. CASE ~msspeechRecoConfig.enableIntermediateResults
    BY <1>3, <2>3 DEF StreamingFragment
  <2> QED  BY <2>2, <2>3
<1>4. CASE \/ \E k \in Results : StreamingResult(k) \/ SyncResult(k)
           \/ \E k \in {"hypothesis", "fragment"} : SyncIgnored(k)
  BY <1>4 DEF StreamingResult, SyncResult, SyncIgnored, WriteResult
<1> QED  BY <1>2, <1>3, <1>4 DEF Handling

\* Every interim result of a dictation is the phrase it is about.
LEMMA InterimsNext ==
  ASSUME HandlerTypes, PhraseSoFar, InterimsAreOfOnePhrase, Handling,
         NEW kind \in Kinds, Handled(kind), pc \notin {"start", "accepted"}
  PROVE  InterimsAreOfOnePhrase'
<1>0. PICK N \in Nat : N = Len(heard)
  BY LenProperties DEF HandlerTypes
<1> DEFINE R == Len(responses)
           Fits(r, n) == \/ heard[n] = "hypothesis" /\ r.transcript = <<n>>
                         \/ /\ heard[n] = "fragment"
                            /\ Tells(r.transcript, FragmentsOf(n))
           FitsNext(r, n) == \/ heard'[n] = "hypothesis" /\ r.transcript = <<n>>
                             \/ /\ heard'[n] = "fragment"
                                /\ Tells(r.transcript, FragmentsOf(n)')
<1>1. /\ N \in Nat /\ Len(heard') = N + 1 /\ heard'[N + 1] = kind
      /\ \A n \in 1 .. N : heard'[n] = heard[n] /\ FragmentsOf(n)' = FragmentsOf(n)
  BY <1>0, HeardGrows DEF HandlerTypes, Handled
<1>2. R \in Nat
  BY LenProperties DEF HandlerTypes
<1>3. \A i \in 1 .. R : responses[i].kind = "interim" =>
        \E n \in 1 .. N + 1 : FitsNext(responses[i], n)
  <2> SUFFICES ASSUME NEW i \in 1 .. R, responses[i].kind = "interim"
               PROVE  \E n \in 1 .. N + 1 : FitsNext(responses[i], n)
    OBVIOUS
  <2>1. PICK n \in 1 .. N : Fits(responses[i], n)
    BY <1>0 DEF InterimsAreOfOnePhrase
  <2>2. n \in 1 .. N + 1 /\ FitsNext(responses[i], n)
    BY <1>1, <2>1
  <2> QED  BY <2>2
<1>4. FragmentsOf(N + 1)' = FragmentsOf(Len(heard))'
  BY <1>1 DEF FragmentsOf
<1> SUFFICES ASSUME NEW i \in 1 .. Len(responses'), responses'[i].kind = "interim"
             PROVE  \E n \in 1 .. N + 1 : FitsNext(responses'[i], n)
  BY <1>1 DEF InterimsAreOfOnePhrase
<1>5. CASE UNCHANGED responses
  BY <1>3, <1>5
<1>6. ASSUME NEW a, Write(a), a.kind = "interim" => FitsNext(a, N + 1)
      PROVE  \E n \in 1 .. N + 1 : FitsNext(responses'[i], n)
  <2>1. /\ Len(responses') = R + 1
        /\ responses'[R + 1] = a
        /\ \A k \in 1 .. R : responses'[k] = responses[k]
    BY <1>6, ResponsesGrow
  <2>2. CASE i = R + 1
    BY <1>1, <1>6, <2>1, <2>2
  <2>3. CASE i # R + 1
    <3>1. i \in 1 .. R /\ responses'[i] = responses[i]
      BY <1>2, <2>1, <2>3
    <3> HIDE DEF FitsNext, R
    <3> QED  BY <1>3, <3>1
  <2> QED  BY <2>2, <2>3
<1>7. ASSUME NEW words, Write(Final(words))
      PROVE  \E n \in 1 .. N + 1 : FitsNext(responses'[i], n)
  BY <1>6, <1>7 DEF Final
<1>8. CASE kind = "hypothesis" /\ Write(Interim(<<N + 1>>))
  BY <1>1, <1>6, <1>8 DEF Interim
<1>9. ASSUME kind = "fragment", NEW words, Write(Interim(words)),
             Tells(words, FragmentsOf(Len(heard))')
      PROVE  \E n \in 1 .. N + 1 : FitsNext(responses'[i], n)
  BY <1>1, <1>4, <1>6, <1>9 DEF Interim
<1> QED  BY <1>0, <1>5, <1>7, <1>8, <1>9, InterimWritten

WInv == PhraseSoFar /\ Written

\* A step that handles no message.
LEMMA WrittenFrame ==
  ASSUME WInv, UNCHANGED handler, ~Handling, [Next]_vars, IInv
  PROVE  WInv'
<1>1. UNCHANGED <<heard, responses, currentDictationPhrase>>
  BY DEF handler
<1>2. \A n : FragmentsOf(n)' = FragmentsOf(n)
  BY <1>1 DEF FragmentsOf
<1>3. FinalsAreThePhrases' /\ InterimsAreOfOnePhrase'
  BY <1>1, <1>2 DEF WInv, Written, FinalsAreThePhrases, InterimsAreOfOnePhrase
<1>4. CASE UNCHANGED <<pc, method, msspeechRecoConfig>>
  BY <1>1, <1>2, <1>3, <1>4 DEF WInv, Written, PhraseSoFar
<1>5. CASE pc' \notin {"start", "accepted"} /\ UNCHANGED <<method, msspeechRecoConfig>>
  BY <1>1, <1>2, <1>3, <1>5 DEF WInv, Written, PhraseSoFar
<1>6. CASE Accept
  <2>1. heard = <<>> /\ currentDictationPhrase = <<>>
    BY <1>6 DEF Accept, WInv, PhraseSoFar
  <2>2. FragmentsOf(Len(heard)) = {}
    BY <2>1 DEF FragmentsOf
  <2>3. Tells(currentDictationPhrase, FragmentsOf(Len(heard)))
    BY <2>1, <2>2 DEF Tells
  <2> QED  BY <1>1, <1>2, <1>3, <2>1, <2>3 DEF WInv, Written, PhraseSoFar
<1>7. \/ UNCHANGED <<pc, method, msspeechRecoConfig>>
      \/ pc' \notin {"start", "accepted"} /\ UNCHANGED <<method, msspeechRecoConfig>>
      \/ Accept
  BY DEF Next, Handling, LongRunningRecognize, RecognizeRefused,
     ConfigMissing, StreamingRefused, ReturnOK, Return, GetSession,
     PutSession, SpeechEnd, CallSession, EndAudio, SendAudio, LibraryStep,
     Message, thread, asked, vars
<1> QED  BY <1>3, <1>4, <1>5, <1>6, <1>7 DEF WInv, Written

LEMMA WrittenStep ==
  ASSUME IInv, WInv, [Next]_vars
  PROVE  WInv'
<1>1. CASE Handling
  <2>1. PICK kind \in Kinds : Handled(kind)
    BY <1>1 DEF Handling, StreamingHypothesis, StreamingFragment,
       StreamingResult, SyncResult, SyncIgnored, Kinds
  <2>2. rpc = "inHandler"
    BY <2>1 DEF Handled, Session!MessageDone
  <2>3. pc \notin {"start", "accepted"}
    BY <2>2 DEF IInv, Stage, P!IInv, P!LibraryInsideTurn, P!LockGuardsTurn
  <2>4. HandlerTypes
    BY DEF IInv
  <2> QED  BY <1>1, <2>1, <2>3, <2>4, PhraseNext, FinalsNext, InterimsNext
              DEF WInv, Written
<1>2. CASE ~Handling
  <2>1. UNCHANGED handler
    BY <1>2 DEF Next, Handling, LongRunningRecognize, RecognizeRefused,
       ConfigMissing, StreamingRefused, ReturnOK, Return, Accept, GetSession,
       PutSession, SpeechEnd, CallSession, EndAudio, SendAudio, LibraryStep,
       Message, vars
  <2> QED  BY <1>2, <2>1, WrittenFrame
<1> QED  BY <1>1, <1>2

LEMMA WrittenAlways == Spec => []WInv
<1>1. Init => WInv
  <2> SUFFICES ASSUME Init PROVE WInv
    OBVIOUS
  <2>1. heard = <<>> /\ responses = <<>> /\ currentDictationPhrase = <<>>
    BY DEF Init
  <2>2. FragmentsOf(Len(heard)) = {}
    BY <2>1 DEF FragmentsOf
  <2> QED  BY <2>1, <2>2 DEF WInv, Written, PhraseSoFar, Tells,
              FinalsAreThePhrases, InterimsAreOfOnePhrase
<1> QED  BY <1>1, Inductive, WrittenStep, PTL DEF Spec

\* The final results that the two handlers write are the phrases that were
\* recognized, each once and in order.
THEOREM PhrasesAreFinal == Spec => []FinalsAreThePhrases
<1>1. WInv => FinalsAreThePhrases
  BY DEF WInv, Written
<1> QED  BY <1>1, WrittenAlways, PTL

\* currentDictationPhrase, and what streamingrpcrequesthandler.cpp writes of
\* it, holds all the fragments of the current phrase and of no other.
THEOREM InterimsHaveOnePhrase == Spec => []InterimsAreOfOnePhrase
<1>1. WInv => InterimsAreOfOnePhrase
  BY DEF WInv, Written
<1> QED  BY <1>1, WrittenAlways, PTL

-----------------------------------------------------------------------------
(* The refinement *)

LEMMA WriteResponds ==
  ASSUME NEW a, responses \in Seq(Answer), a \in Answer, Write(a),
         status = "none", UNCHANGED status
  PROVE  Call!Respond
<1>1. /\ responses' \in Seq(Answer)
      /\ Len(responses') = Len(responses) + 1
      /\ \A i \in 1 .. Len(responses) : responses'[i] = responses[i]
      /\ Len(responses) \in Nat
  BY AppendProperties DEF Write
<1>2. SubSeq(responses', 1, Len(responses)) = responses
  BY <1>1
<1> QED  BY <1>1, <1>2 DEF Call!Respond

\* The steps of a call map to the abstract call's: a Return to Complete or
\* Refuse, what a handler writes to Respond, and the rest to none.
LEMMA CallStep ==
  ASSUME IInv, [Next]_vars
  PROVE  [Call!Next]_Call!cvars
<1>0. responses \in Seq(Answer)
  BY DEF IInv, HandlerTypes
<1>1. CASE \/ LongRunningRecognize \/ RecognizeRefused \/ ConfigMissing
           \/ StreamingRefused
  BY <1>1 DEF LongRunningRecognize, RecognizeRefused, ConfigMissing,
     StreamingRefused, Return, handler, IInv, Stage, Call!Next, Call!Refuse
<1>2. CASE ReturnOK
  BY <1>2 DEF ReturnOK, Return, handler, IInv, Stage, Call!Next,
     Call!Complete
<1>3. CASE \/ Accept \/ GetSession \/ PutSession \/ SpeechEnd \/ CallSession
           \/ EndAudio \/ \E n \in Chunks : SendAudio(n)
           \/ LibraryStep \/ Message
  BY <1>3 DEF Accept, GetSession, PutSession, SpeechEnd, CallSession,
     EndAudio, SendAudio, LibraryStep, Message, thread, handler, Call!cvars
<1>4. CASE \/ StreamingHypothesis
           \/ StreamingFragment
           \/ \E kind \in Results : StreamingResult(kind) \/ SyncResult(kind)
           \/ \E kind \in {"hypothesis", "fragment"} : SyncIgnored(kind)
  <2>1. PICK kind : Handled(kind)
    BY <1>4 DEF StreamingHypothesis, StreamingFragment, StreamingResult,
       SyncResult, SyncIgnored
  <2>2. rpc = "inHandler" /\ UNCHANGED status
    BY <2>1 DEF Handled, Session!MessageDone, thread
  <2>3. status = "none"
    BY <2>2 DEF IInv, Stage, P!IInv, P!TypeOK, P!LibraryInsideTurn,
       P!LockGuardsTurn
  <2>4. UNCHANGED responses \/ \E a \in Answer : Write(a)
    BY <1>4, <2>2, WrittenType DEF IInv
  <2> QED  BY <1>0, <2>2, <2>3, <2>4, WriteResponds DEF Call!Next, Call!cvars
<1>5. CASE UNCHANGED vars
  BY <1>5 DEF vars, thread, handler, Call!cvars
<1> QED  BY <1>1, <1>2, <1>3, <1>4, <1>5 DEF Next

\* Every method is a recognition call: one status, no response after it, and
\* none at all in a call that is refused.
THEOREM Refinement == Spec => ImplementsCall
<1>1. Init => Call!Init
  BY DEF Init, Call!Init
<1> QED
  BY <1>1, Inductive, CallStep, PTL DEF Spec, ImplementsCall, Call!Spec

=============================================================================
