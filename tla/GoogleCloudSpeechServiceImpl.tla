-------------------- MODULE GoogleCloudSpeechServiceImpl --------------------
(***************************************************************************)
(* GoogleCloudSpeechServiceImpl with the handlers of its calls             *)
(* (src/src/googlecloudspeechserviceimpl.cpp,                              *)
(* streamingrpcrequesthandler.cpp, syncrpcrequesthandler.cpp): one call,   *)
(* from the request to its status, composed with the MSSpeechSession it    *)
(* runs on.                                                                *)
(*                                                                         *)
(* The gRPC thread loads the configuration, takes a session from the       *)
(* factory, feeds it, waits for it and gives it back.  Meanwhile the run   *)
(* loop thread hands the messages of the turn to the call's handler, which *)
(* writes the responses.  getSession and putSession are what               *)
(* MSSpeechSessionFactory does in full: here they take and return a lease. *)
(*                                                                         *)
(* The text of the n-th message is <<n>>, so that a transcript is the      *)
(* sequence of the messages it was made of.  The alternatives of a phrase, *)
(* copied in a loop, are one.  Whether the client is still there to read   *)
(* changes nothing, as the result of Write is ignored and a client that    *)
(* has gone is one that sends no more.                                     *)
(***************************************************************************)
EXTENDS MSSpeechRecoConfig, Sequences

CONSTANTS
  Languages,    \* language codes
  Chunks, Buffers, MaxBytes,  \* those of MSSpeechSession
  MaxMessages   \* bound: messages of the turn

ASSUME CallAssumption ==
  /\ Chunks \subseteq Nat
  /\ Buffers \subseteq Nat \ {0}
  /\ MaxBytes \in Nat
  /\ MaxMessages \in Nat

VARIABLES
  \* MSSpeechSession
  sent, received, closed, eos, recognitionStarted, pendingAudio,
  completionLock, gpc, rpc, streaming, writable, turn,
  \* the request
  method, request,
  \* locals of the gRPC thread: where it is, the configuration, the URL of
  \* its session, whether it has a session, whether it has sent audio
  pc, msspeechRecoConfig, url, leased, fed,
  \* StreamingRpcRequestHandler
  currentDictationPhrase,
  \* what the client gets
  responses, status,
  \* history: the messages handled so far, speech.end was received
  heard, endDetected

Session == INSTANCE MSSpeechSession

session == <<sent, received, closed, eos, recognitionStarted, pendingAudio,
             completionLock, gpc, rpc, streaming, writable, turn>>
asked == <<method, request>>
thread == <<pc, msspeechRecoConfig, url, leased, fed, status>>
handler == <<currentDictationPhrase, responses, heard>>

vars == <<session, asked, thread, handler, endDetected>>

Methods == {"Recognize", "StreamingRecognize", "LongRunningRecognize"}

\* What load and the two methods look at; complete says that a streaming
\* call begins with its configuration, and that the audio of another is in
\* the request.
Request ==
  [complete : BOOLEAN, encoding : {"LINEAR16", "FLAC"},
   maxAlternatives : {5, 6}, speechContexts : BOOLEAN,
   languageCode : Languages, profanityFilter : BOOLEAN,
   singleUtterance : BOOLEAN, interimResults : BOOLEAN]

Init ==
  /\ Session!Init
  /\ method \in Methods
  /\ request \in Request
  /\ pc = "start"
  /\ msspeechRecoConfig = Default
  /\ url = <<>>
  /\ leased = FALSE
  /\ fed = FALSE
  /\ currentDictationPhrase = <<>>
  /\ responses = <<>>
  /\ status = "none"
  /\ heard = <<>>
  /\ endDetected = FALSE

-----------------------------------------------------------------------------
(* The gRPC thread: before the session *)

Return(st) ==
  /\ pc' = "done"
  /\ status' = st
  /\ UNCHANGED <<session, asked, msspeechRecoConfig, url, leased, fed,
                 handler, endDetected>>

LongRunningRecognize ==
  /\ pc = "start"
  /\ method = "LongRunningRecognize"
  /\ Return("UNIMPLEMENTED")

\* Recognize looks at the configuration first, then for the audio.
RecognizeRefused ==
  /\ pc = "start"
  /\ method = "Recognize"
  /\ ~Supported(request) \/ ~request.complete
  /\ Return("INVALID_ARGUMENT")

\* The first message of a stream, if any, has no configuration.
ConfigMissing ==
  /\ pc = "start"
  /\ method = "StreamingRecognize"
  /\ ~request.complete
  /\ Return("FAILED_PRECONDITION")

StreamingRefused ==
  /\ pc = "start"
  /\ method = "StreamingRecognize"
  /\ request.complete
  /\ ~Supported(request)
  /\ Return("INVALID_ARGUMENT")

Accept ==
  /\ pc = "start"
  /\ method # "LongRunningRecognize"
  /\ request.complete
  /\ Supported(request)
  /\ pc' = "accepted"
  /\ msspeechRecoConfig' = IF method = "Recognize" THEN Load(request)
                                                   ELSE LoadStreaming(request)
  /\ UNCHANGED <<session, asked, url, leased, fed, status, handler,
                 endDetected>>

GetSession ==
  /\ pc = "accepted"
  /\ pc' = "calling"
  /\ url' = MSSpeechUrl(msspeechRecoConfig)
  /\ leased' = TRUE
  /\ UNCHANGED <<session, asked, msspeechRecoConfig, fed, status,
                 handler, endDetected>>

-----------------------------------------------------------------------------
(* The gRPC thread: the session, fed with the messages of the stream or    *)
(* with the audio of the request, all at once.                             *)

CallSession ==
  /\ pc = "calling"
  /\ Session!GrpcStep
  /\ UNCHANGED <<asked, thread, handler, endDetected>>

SendAudio(n) ==
  /\ pc = "calling"
  /\ method = "Recognize" => ~fed
  /\ Session!SendAudio(n)
  /\ fed' = TRUE
  /\ UNCHANGED <<asked, pc, msspeechRecoConfig, url, leased, status, handler,
                 endDetected>>

EndAudio ==
  /\ pc = "calling"
  /\ method = "Recognize" => fed
  /\ Session!EndAudio
  /\ UNCHANGED <<asked, thread, handler, endDetected>>

\* Faulty variant: the status is returned without putSession.
ReturnAtOnce ==
  /\ pc = "calling"
  /\ gpc = "returned"
  /\ pc' = "returning"
  /\ UNCHANGED <<session, asked, msspeechRecoConfig, url, leased, fed,
                 status, handler, endDetected>>

PutSession ==
  /\ pc = "calling"
  /\ gpc = "returned"
  /\ pc' = "returning"
  /\ leased' = FALSE
  /\ UNCHANGED <<session, asked, msspeechRecoConfig, url, fed, status,
                 handler, endDetected>>

ReturnOK ==
  /\ pc = "returning"
  /\ Return("OK")

-----------------------------------------------------------------------------
(* The run loop thread *)

LibraryStep ==
  /\ Session!AudioCallback \/ Session!TurnEnd
  /\ UNCHANGED <<asked, thread, handler, endDetected>>

\* A message reaches the session's handler.
Message ==
  /\ Len(heard) < MaxMessages
  /\ Session!Message
  /\ UNCHANGED <<asked, thread, handler, endDetected>>

\* speech.end goes to MSSpeechSession::msspeechEndDetected, which is empty:
\* the handler's speechEnddetected has no caller.
SpeechEnd ==
  /\ rpc = "idle"
  /\ turn = "active"
  /\ endDetected' = TRUE
  /\ UNCHANGED <<session, asked, thread, handler>>

\* What a response holds: speechEnddetected's event, or a transcript.
Event == [kind |-> "END_OF_SINGLE_UTTERANCE", transcript |-> <<>>]
Interim(words) == [kind |-> "interim", transcript |-> words]
Final(words) == [kind |-> "final", transcript |-> words]

\* The text of the message that is being handled.
Text == <<Len(heard) + 1>>

Handled(kind) ==
  /\ Session!MessageDone
  /\ heard' = Append(heard, kind)
  /\ UNCHANGED <<asked, thread, endDetected>>

Write(response) == responses' = Append(responses, response)

StreamingHypothesis ==
  /\ method = "StreamingRecognize"
  /\ Handled("hypothesis")
  /\ IF msspeechRecoConfig.enableIntermediateResults
     THEN Write(Interim(Text))
     ELSE UNCHANGED responses
  /\ UNCHANGED currentDictationPhrase

\* A first fragment begins the phrase, others are appended to it.
StreamingFragment ==
  /\ method = "StreamingRecognize"
  /\ Handled("fragment")
  /\ IF msspeechRecoConfig.enableIntermediateResults
     THEN /\ currentDictationPhrase' = currentDictationPhrase \o Text
          /\ Write(Interim(currentDictationPhrase'))
     ELSE UNCHANGED <<currentDictationPhrase, responses>>

\* Faulty variant: the phrase is cleared only when it was recognized.
NotCleared(kind) == IF kind = "RECO_SUCCESS" THEN <<>> ELSE currentDictationPhrase

\* currentDictationPhrase.clear(), after the switch
Cleared(kind) == <<>>

\* Faulty variant: every result is written.
WriteAlways(kind) == Write(Final(Text))

\* The switch on the status of a result.
WriteResult(kind) ==
  IF kind = "RECO_SUCCESS" THEN Write(Final(Text)) ELSE UNCHANGED responses

\* Statuses of a result: recognized, the end of a dictation, and errors, no
\* match and timeouts, which are all ignored alike.
Results == {"RECO_SUCCESS", "DICTATION_END", "ERROR"}

StreamingResult(kind) ==
  /\ method = "StreamingRecognize"
  /\ Handled(kind)
  /\ WriteResult(kind)
  /\ currentDictationPhrase' = Cleared(kind)

\* SyncRpcRequestHandler ignores hypotheses and fragments, and adds the
\* phrases that were recognized to the one response.
SyncIgnored(kind) ==
  /\ method = "Recognize"
  /\ Handled(kind)
  /\ UNCHANGED <<currentDictationPhrase, responses>>

SyncResult(kind) ==
  /\ method = "Recognize"
  /\ Handled(kind)
  /\ WriteResult(kind)
  /\ UNCHANGED currentDictationPhrase

-----------------------------------------------------------------------------

Next ==
  \/ LongRunningRecognize
  \/ RecognizeRefused
  \/ ConfigMissing
  \/ StreamingRefused
  \/ Accept
  \/ GetSession
  \/ CallSession
  \/ \E n \in Chunks : SendAudio(n)
  \/ EndAudio
  \/ PutSession
  \/ ReturnOK
  \/ LibraryStep
  \/ Message
  \/ SpeechEnd
  \/ StreamingHypothesis
  \/ StreamingFragment
  \/ \E kind \in Results : StreamingResult(kind) \/ SyncResult(kind)
  \/ \E kind \in {"hypothesis", "fragment"} : SyncIgnored(kind)

Spec == Init /\ [][Next]_vars

-----------------------------------------------------------------------------
(* Properties *)

Transcripts == Seq(1 .. MaxMessages)

Answer ==
  [kind : {"interim", "final", "END_OF_SINGLE_UTTERANCE"},
   transcript : Transcripts]

\* Types of the locals of the call and of the members of its handler.
TypeOK ==
  /\ Session!TypeOK
  /\ method \in Methods
  /\ request \in Request
  /\ pc \in {"start", "accepted", "calling", "returning", "done"}
  /\ msspeechRecoConfig \in
       [recognitionMode : {"INTERACTIVE", "DICTATION"},
        profanityFilterMode : {"NONE", "MASK"},
        language : Languages \cup {""},
        enableIntermediateResults : BOOLEAN]
  /\ url \in {<<>>} \cup
       ({"interactive", "dictation"} \X Languages \X {"mask", "raw"})
  /\ leased \in BOOLEAN
  /\ fed \in BOOLEAN
  /\ currentDictationPhrase \in Transcripts
  /\ responses \in Seq(Answer)
  /\ status \in {"none", "OK", "INVALID_ARGUMENT", "FAILED_PRECONDITION",
                 "UNIMPLEMENTED"}
  /\ heard \in Seq(Results \cup {"hypothesis", "fragment"})
  /\ Len(heard) <= MaxMessages
  /\ endDetected \in BOOLEAN

\* Every phrase the service recognized is in one final result, once and in
\* order, of both methods: speechResult and the switch in it neither lose,
\* repeat nor invent one.
FinalsAreThePhrases ==
  /\ \A i \in 1 .. Len(responses) : responses[i].kind = "final" =>
       \E n \in 1 .. Len(heard) :
         heard[n] = "RECO_SUCCESS" /\ responses[i].transcript = <<n>>
  /\ \A n \in 1 .. Len(heard) : heard[n] = "RECO_SUCCESS" =>
       \E i \in 1 .. Len(responses) : responses[i] = Final(<<n>>)
  /\ \A i, j \in 1 .. Len(responses) :
       (i < j /\ responses[i].kind = "final" /\ responses[j].kind = "final") =>
         responses[i].transcript[1] < responses[j].transcript[1]

\* The fragments, up to message n, of the phrase that message n is part of.
FragmentsOf(n) ==
  {i \in 1 .. n : heard[i] = "fragment" /\ \A k \in i .. n : heard[k] \notin Results}

\* A transcript of just these messages, in order.
Tells(transcript, messages) ==
  /\ {transcript[i] : i \in 1 .. Len(transcript)} = messages
  /\ \A i, j \in 1 .. Len(transcript) : i < j => transcript[i] < transcript[j]

\* An interim result of a dictation is made of the fragments of the phrase
\* it is about, all of them so far and in order: nothing of an earlier
\* phrase is left in currentDictationPhrase, whatever became of that phrase.
InterimsAreOfOnePhrase ==
  \A i \in 1 .. Len(responses) : responses[i].kind = "interim" =>
    \E n \in 1 .. Len(heard) :
      \/ heard[n] = "hypothesis" /\ responses[i].transcript = <<n>>
      \/ heard[n] = "fragment" /\ Tells(responses[i].transcript, FragmentsOf(n))

\* A call has given its session back when it returns, and gives none back
\* while a turn is running on its connection: the factory would offer it to
\* the next call with a turn under way.
LeaseCoversTurn ==
  /\ turn = "active" => leased
  /\ status # "none" => ~leased

\* The session a call runs on is of a connection for what the client asked:
\* the mode, the language and the filter, although the configuration is
\* assembled by the constructor and two overloads of load.
UrlIsAsAsked ==
  pc \in {"calling", "returning"} =>
    url = <<IF method = "StreamingRecognize" /\ ~request.singleUtterance
            THEN "dictation" ELSE "interactive",
            request.languageCode,
            IF request.profanityFilter THEN "mask" ELSE "raw">>

Call == INSTANCE RecognitionCall

\* Each method is a recognition call: in particular nothing is written to a
\* call that has returned, although the responses are written by another
\* thread, and a call that is refused has none.
ImplementsCall == Call!Spec

\* "Called when speech.end received" (msspeechsessionhandler.h:36): a client
\* that asked for a single utterance is told that it is over.
UtteranceEndIsReported ==
  (status = "OK" /\ endDetected /\ method = "StreamingRecognize"
     /\ request.singleUtterance)
    => \E i \in 1 .. Len(responses) : responses[i] = Event

=============================================================================
