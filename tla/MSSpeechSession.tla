-------------------------- MODULE MSSpeechSession --------------------------
(***************************************************************************)
(* MSSpeechSession (src/src/msspeechsession.h, .cpp): one recognition call *)
(* on one connection, from recognizeStream to waitForCompletion.           *)
(*                                                                         *)
(* Two threads share it.  The gRPC thread runs StreamingRecognize or       *)
(* SyncRpcRequestHandler::recognize: recognizeStream, sendAudio for every  *)
(* chunk the client sends, endAudio, waitForCompletion.  The run loop      *)
(* thread runs the library, which polls msspeech_audio_callback for audio  *)
(* and delivers the messages of the turn.  The audio queue is the          *)
(* ByteStream that AudioQueue implements; its get and put are atomic.      *)
(*                                                                         *)
(* The library is outside the repository.  It is modelled as kindly as the *)
(* code's use of it allows: a resume is never lost, even when it overtakes *)
(* the -EAGAIN it answers, and a turn that has ended is never polled or    *)
(* reported on again.                                                      *)
(***************************************************************************)
EXTENDS Integers

CONSTANTS
  Chunks,    \* lengths of the audio payloads the client sends
  Buffers,   \* buffer_len values the library passes to the audio callback
  MaxBytes   \* bound: bytes the client sends in all

ASSUME MSSpeechSessionAssumption ==
  /\ Chunks \subseteq Nat
  /\ Buffers \subseteq Nat \ {0}
  /\ MaxBytes \in Nat

VARIABLES
  sent, received, closed, eos,  \* the audio queue
  \* the members of MSSpeechSession
  recognitionStarted, pendingAudio, completionLock,
  gpc,       \* the gRPC thread
  rpc,       \* the run loop thread
  \* the library's view of the connection
  streaming, \* the audio callback is installed and the stream is not over
  writable,  \* the library will poll the audio callback
  turn       \* the turn at the service: "none", "active" or "over"

queue == <<sent, received, closed, eos>>
members == <<recognitionStarted, pendingAudio, completionLock>>
library == <<streaming, writable, turn>>

vars == <<queue, members, gpc, rpc, library>>

AudioQueue == INSTANCE ByteStream WITH Capacity <- MaxBytes

\* pendingAudio is not initialised by the constructor.
Init ==
  /\ AudioQueue!Init
  /\ recognitionStarted = FALSE
  /\ pendingAudio \in BOOLEAN
  /\ completionLock = FALSE
  /\ gpc = "new"
  /\ rpc = "idle"
  /\ streaming = FALSE
  /\ writable = FALSE
  /\ turn = "none"

-----------------------------------------------------------------------------
(* The gRPC thread *)

\* recognizeStream, up to and including ms_speech_start_stream.
RecognizeStream ==
  /\ gpc = "new"
  /\ ~recognitionStarted
  /\ gpc' = "started"
  /\ pendingAudio' = FALSE
  /\ streaming' = TRUE
  /\ writable' = TRUE
  /\ turn' = "active"
  /\ UNCHANGED <<queue, recognitionStarted, completionLock, rpc>>

\* Faulty variant: the completion lock is not taken.
LockForgotten ==
  /\ gpc = "started"
  /\ gpc' = "reading"
  /\ recognitionStarted' = TRUE
  /\ UNCHANGED <<queue, pendingAudio, completionLock, rpc, library>>

\* The rest of recognizeStream.
LockCompletion ==
  /\ gpc = "started"
  /\ ~completionLock
  /\ gpc' = "reading"
  /\ recognitionStarted' = TRUE
  /\ completionLock' = TRUE
  /\ UNCHANGED <<queue, pendingAudio, rpc, library>>

\* sendAudio(buffer, n) for the next message of the client: the audio is
\* queued, then pendingAudio is looked at, then the stream is resumed.
SendAudio(n) ==
  /\ gpc = "reading"
  /\ recognitionStarted
  /\ AudioQueue!Write(n)
  /\ gpc' = "queued"
  /\ UNCHANGED <<members, rpc, library>>

NoPendingAudio ==
  /\ gpc = "queued"
  /\ ~pendingAudio
  /\ gpc' = "reading"
  /\ UNCHANGED <<queue, members, rpc, library>>

\* Faulty variant: pendingAudio is cleared, but no resume follows.
ClearWithoutResume ==
  /\ gpc = "queued"
  /\ pendingAudio
  /\ gpc' = "reading"
  /\ pendingAudio' = FALSE
  /\ UNCHANGED <<queue, recognitionStarted, completionLock, rpc, library>>

ClearPendingAudio ==
  /\ gpc = "queued"
  /\ pendingAudio
  /\ gpc' = "resume"
  /\ pendingAudio' = FALSE
  /\ UNCHANGED <<queue, recognitionStarted, completionLock, rpc, library>>

ResumeStream ==
  /\ gpc = "resume"
  /\ gpc' = "reading"
  /\ writable' = streaming
  /\ UNCHANGED <<queue, members, rpc, streaming, turn>>

\* endAudio: the client has no more messages.
EndAudio ==
  /\ gpc = "reading"
  /\ recognitionStarted
  /\ AudioQueue!Close
  /\ gpc' = "completing"
  /\ UNCHANGED <<members, rpc, library>>

\* waitForCompletion returns when it has locked completionLock a second time.
WaitForCompletion ==
  /\ gpc = "completing"
  /\ ~completionLock
  /\ completionLock' = TRUE
  /\ gpc' = "returned"
  /\ UNCHANGED <<queue, recognitionStarted, pendingAudio, rpc, library>>

-----------------------------------------------------------------------------
(* The run loop thread: msspeech_audio_callback *)

Poll ==
  /\ rpc = "idle"
  /\ streaming
  /\ writable

\* Faulty variant: the whole buffer is taken to be filled.
AudioBytesWhole(bufferLen) ==
  /\ Poll
  /\ sent > received
  /\ received' = received + bufferLen
  /\ UNCHANGED <<sent, closed, eos, members, gpc, rpc, library>>

\* get returns bytes: they are sent and the library asks again.
AudioBytes(bufferLen) ==
  /\ Poll
  /\ sent > received
  /\ AudioQueue!Read(IF bufferLen < sent - received THEN bufferLen
                                                    ELSE sent - received)
  /\ UNCHANGED <<members, gpc, rpc, library>>

\* Faulty variant: the end of the queue is taken for an empty queue.
EndTakenForEmpty ==
  /\ Poll
  /\ received = sent
  /\ closed
  /\ rpc' = "empty"
  /\ writable' = FALSE
  /\ UNCHANGED <<queue, members, gpc, streaming, turn>>

\* get returns -1, the callback 0: the service is told the audio is over.
AudioEnd ==
  /\ Poll
  /\ AudioQueue!ReadEnd
  /\ streaming' = FALSE
  /\ writable' = FALSE
  /\ UNCHANGED <<members, gpc, rpc, turn>>

\* get returns 0: pendingAudio is set and -EAGAIN returned, in a later step.
AudioEmpty ==
  /\ Poll
  /\ AudioQueue!ReadEmpty
  /\ rpc' = "empty"
  /\ writable' = FALSE
  /\ UNCHANGED <<members, gpc, streaming, turn>>

SetPendingAudio ==
  /\ rpc = "empty"
  /\ rpc' = "idle"
  /\ pendingAudio' = TRUE
  /\ UNCHANGED <<queue, recognitionStarted, completionLock, gpc, library>>

-----------------------------------------------------------------------------
(* The run loop thread: messages of the turn *)

\* A hypothesis, fragment or phrase is passed on to the session's handler,
\* which lives on the stack of the gRPC call.
Message ==
  /\ rpc = "idle"
  /\ turn = "active"
  /\ rpc' = "inHandler"
  /\ UNCHANGED <<queue, members, gpc, library>>

MessageDone ==
  /\ rpc = "inHandler"
  /\ rpc' = "idle"
  /\ UNCHANGED <<queue, members, gpc, library>>

\* Faulty variant: the completion lock stays locked.
TurnEndSilent ==
  /\ rpc = "idle"
  /\ turn = "active"
  /\ turn' = "over"
  /\ streaming' = FALSE
  /\ writable' = FALSE
  /\ UNCHANGED <<queue, members, gpc, rpc>>

\* msspeechTurnEnd unlocks completionLock, from a thread that does not own
\* it and whether or not it is locked: a glibc mutex ends up unlocked.
TurnEnd ==
  /\ rpc = "idle"
  /\ turn = "active"
  /\ turn' = "over"
  /\ completionLock' = FALSE
  /\ streaming' = FALSE
  /\ writable' = FALSE
  /\ UNCHANGED <<queue, recognitionStarted, pendingAudio, gpc, rpc>>

-----------------------------------------------------------------------------

GrpcStep ==
  \/ RecognizeStream
  \/ LockCompletion
  \/ NoPendingAudio
  \/ ClearPendingAudio
  \/ ResumeStream
  \/ WaitForCompletion

AudioCallback ==
  \/ \E n \in Buffers : AudioBytes(n)
  \/ AudioEnd
  \/ AudioEmpty
  \/ SetPendingAudio

Next ==
  \/ GrpcStep
  \/ \E n \in Chunks : SendAudio(n)
  \/ EndAudio
  \/ AudioCallback
  \/ Message
  \/ MessageDone
  \/ TurnEnd

Spec == Init /\ [][Next]_vars

\* Both threads keep running, and neither messages nor audio of a connection
\* starve the other in the library's service step.  The client need not send
\* anything or stop, and the service owes the end of the turn only after it
\* has got the end of the audio.
Fairness ==
  /\ WF_vars(GrpcStep)
  /\ SF_vars(AudioCallback)
  /\ WF_vars(MessageDone)
  /\ SF_vars(eos /\ TurnEnd)

FairSpec == Spec /\ Fairness

-----------------------------------------------------------------------------
(* Properties *)

\* Types of the members of MSSpeechSession and of the two threads; the
\* library never gets more audio than was sent.
TypeOK ==
  /\ sent \in 0 .. MaxBytes
  /\ received \in 0 .. sent
  /\ closed \in BOOLEAN
  /\ eos \in BOOLEAN
  /\ recognitionStarted \in BOOLEAN
  /\ pendingAudio \in BOOLEAN
  /\ completionLock \in BOOLEAN
  /\ gpc \in {"new", "started", "reading", "queued", "resume", "completing",
              "returned"}
  /\ rpc \in {"idle", "empty", "inHandler"}
  /\ streaming \in BOOLEAN
  /\ writable \in BOOLEAN
  /\ turn \in {"none", "active", "over"}

\* waitForCompletion returns only when the turn is over.  Since the handler
\* and the session go away with the gRPC call, no callback of the library
\* may still be using them then.
CallbacksInsideCall ==
  /\ gpc = "returned" => turn = "over"
  /\ rpc # "idle" => gpc \notin {"new", "returned"}

\* Whenever the library has stopped polling a stream that is not over,
\* pendingAudio says so (or sendAudio is about to resume the stream), so
\* that the next chunk of audio restarts it.
StallIsRecorded ==
  (streaming /\ ~writable /\ rpc = "idle") => (pendingAudio \/ gpc = "resume")

\* Once the audio has got through to its end and the turn is over,
\* waitForCompletion is not blocked, or has returned: the lock that
\* msspeechTurnEnd released is the one recognizeStream had taken, and no
\* later step of the call takes it again.
DrainedCallsAreReleased ==
  (eos /\ turn = "over") => (~completionLock \/ gpc = "returned")

\* Audio that ends while the library is still polling gets through to its
\* end.
PolledStreamEnds ==
  (closed /\ streaming /\ writable) ~> (eos \/ turn = "over")

\* A call whose audio has got through to its end returns: the completion
\* lock was taken before the turn could end.
DrainedCallReturns == eos ~> (gpc = "returned")

\* "It also supports marking the queue as completed and notifying
\* consumers" (audioqueue.h:33): the consumer of a session's audio, the
\* service, learns that endAudio was called.
EndReachesService == closed ~> (eos \/ turn = "over")

\* waitForCompletion is to "block the caller until speech recognition has
\* been completed" (streamingrpcrequesthandler.h:52): a caller that waits
\* when the turn is over returns.
TurnEndReleases == (turn = "over" /\ gpc = "completing") ~> (gpc = "returned")

=============================================================================
