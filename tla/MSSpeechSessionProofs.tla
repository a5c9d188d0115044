----------------------- MODULE MSSpeechSessionProofs -----------------------
(***************************************************************************)
(* Proofs about MSSpeechSession, for all chunk and buffer lengths.         *)
(*                                                                         *)
(* What the two safety properties rest on is the completion lock: while a  *)
(* turn is active the lock is held from recognizeStream on, so that        *)
(* waitForCompletion cannot get it; and the library streams, calls the     *)
(* audio callback and delivers messages only while the turn is active.     *)
(***************************************************************************)
EXTENDS MSSpeechSession, TLAPS

LockGuardsTurn ==
  /\ gpc = "new" <=> turn = "none"
  /\ gpc \in {"new", "started"} => ~completionLock
  /\ (gpc \notin {"new", "started"} /\ turn # "over") =>
       turn = "active" /\ completionLock /\ gpc # "returned"

LibraryInsideTurn ==
  /\ streaming => turn = "active"
  /\ rpc # "idle" => turn = "active"

\* StallIsRecorded, also while a message is being handled.
StallKnown ==
  (streaming /\ ~writable /\ rpc # "empty") => (pendingAudio \/ gpc = "resume")

IInv == TypeOK /\ LockGuardsTurn /\ LibraryInsideTurn /\ StallKnown

LEMMA InitIInv == Init => IInv
<1> SUFFICES ASSUME Init PROVE IInv
  OBVIOUS
<1>1. TypeOK
  <2>1. sent \in 0 .. MaxBytes /\ received \in 0 .. sent
    BY MSSpeechSessionAssumption DEF Init, AudioQueue!Init
  <2> QED  BY <2>1 DEF Init, AudioQueue!Init, TypeOK
<1>2. LockGuardsTurn /\ LibraryInsideTurn /\ StallKnown
  BY DEF Init, LockGuardsTurn, LibraryInsideTurn, StallKnown
<1> QED  BY <1>1, <1>2 DEF IInv

\* The gRPC thread.
LEMMA GrpcIInv ==
  ASSUME IInv,
         \/ GrpcStep
         \/ \E n \in Chunks : SendAudio(n)
         \/ EndAudio
  PROVE  IInv'
<1> USE MSSpeechSessionAssumption
    DEF IInv, LockGuardsTurn, LibraryInsideTurn, StallKnown, queue,
        members, library
<1>1. CASE RecognizeStream
  <2>1. TypeOK'
    BY <1>1 DEF RecognizeStream, TypeOK
  <2>2. (LockGuardsTurn /\ LibraryInsideTurn)'
    BY <1>1 DEF RecognizeStream, TypeOK
  <2>3. StallKnown'
    BY <1>1 DEF RecognizeStream, TypeOK
  <2> QED  BY <2>1, <2>2, <2>3
<1>2. CASE LockCompletion
  <2>1. TypeOK'
    BY <1>2 DEF LockCompletion, TypeOK
  <2>2. (LockGuardsTurn /\ LibraryInsideTurn)'
    BY <1>2 DEF LockCompletion, TypeOK
  <2>3. StallKnown'
    BY <1>2 DEF LockCompletion, TypeOK
  <2> QED  BY <2>1, <2>2, <2>3
<1>3. CASE NoPendingAudio
  BY <1>3 DEF NoPendingAudio, TypeOK
<1>4. CASE ClearPendingAudio
  BY <1>4 DEF ClearPendingAudio, TypeOK
<1>5. CASE ResumeStream
  BY <1>5 DEF ResumeStream, TypeOK
<1>6. CASE WaitForCompletion
  BY <1>6 DEF WaitForCompletion, TypeOK
<1>7. ASSUME NEW n \in Chunks, SendAudio(n)
      PROVE  IInv'
  BY <1>7 DEF SendAudio, AudioQueue!Write, TypeOK
<1>8. CASE EndAudio
  BY <1>8 DEF EndAudio, AudioQueue!Close, TypeOK
<1> QED
  BY <1>1, <1>2, <1>3, <1>4, <1>5, <1>6, <1>7, <1>8 DEF GrpcStep

\* The audio callback.
LEMMA CallbackIInv ==
  ASSUME IInv, AudioCallback
  PROVE  IInv'
<1> USE MSSpeechSessionAssumption
    DEF IInv, LockGuardsTurn, LibraryInsideTurn, StallKnown, queue,
        members, library, Poll
<1>1. ASSUME NEW n \in Buffers, AudioBytes(n)
      PROVE  IInv'
  BY <1>1 DEF AudioBytes, AudioQueue!Read, TypeOK
<1>2. CASE AudioEnd
  BY <1>2 DEF AudioEnd, AudioQueue!ReadEnd, TypeOK
<1>3. CASE AudioEmpty
  BY <1>3 DEF AudioEmpty, AudioQueue!ReadEmpty, AudioQueue!svars, TypeOK
<1>4. CASE SetPendingAudio
  BY <1>4 DEF SetPendingAudio, TypeOK
<1> QED
  BY <1>1, <1>2, <1>3, <1>4 DEF AudioCallback

\* The messages of the turn.
LEMMA MessageIInv ==
  ASSUME IInv, Message \/ MessageDone \/ TurnEnd
  PROVE  IInv'
<1> USE DEF IInv, LockGuardsTurn, LibraryInsideTurn, StallKnown, queue,
            members, library
<1>1. CASE Message
  BY <1>1 DEF Message, TypeOK
<1>2. CASE MessageDone
  <2>1. TypeOK'
    BY <1>2 DEF MessageDone, TypeOK
  <2>2. (LockGuardsTurn /\ LibraryInsideTurn)'
    BY <1>2 DEF MessageDone, TypeOK
  <2>3. StallKnown'
    BY <1>2 DEF MessageDone, TypeOK
  <2> QED  BY <2>1, <2>2, <2>3
<1>3. CASE TurnEnd
  <2>1. TypeOK'
    BY <1>3 DEF TurnEnd, TypeOK
  <2>2. (LockGuardsTurn /\ LibraryInsideTurn)'
    BY <1>3 DEF TurnEnd, TypeOK
  <2>3. StallKnown'
    BY <1>3 DEF TurnEnd, TypeOK
  <2> QED  BY <2>1, <2>2, <2>3
<1> QED  BY <1>1, <1>2, <1>3

LEMMA StutterIInv ==
  ASSUME IInv, UNCHANGED vars
  PROVE  IInv'
BY DEF IInv, TypeOK, LockGuardsTurn, LibraryInsideTurn, StallKnown, vars,
       queue, members, library

\* The inductive invariant holds of every behaviour of a session.
THEOREM Inductive == Spec => []IInv
<1>1. IInv /\ [Next]_vars => IInv'
  BY GrpcIInv, CallbackIInv, MessageIInv, StutterIInv DEF Next
<1> QED  BY <1>1, InitIInv, PTL DEF Spec

\* The members of MSSpeechSession keep their types, and the audio callback
\* never hands out more audio than sendAudio queued.
THEOREM TypeCorrect == Spec => []TypeOK
BY Inductive, PTL DEF IInv

\* waitForCompletion returns only when the turn is over, and no callback
\* runs in a session whose call has returned.
THEOREM CallbacksStayInside == Spec => []CallbacksInsideCall
<1>1. IInv => CallbacksInsideCall
  BY DEF IInv, TypeOK, LockGuardsTurn, LibraryInsideTurn, CallbacksInsideCall
<1> QED  BY <1>1, Inductive, PTL

\* A stalled stream is always marked as such in pendingAudio, whichever way
\* sendAudio and the audio callback interleave.
THEOREM StallsAreRecorded == Spec => []StallIsRecorded
<1>1. IInv => StallIsRecorded
  BY DEF IInv, StallKnown, StallIsRecorded
<1> QED  BY <1>1, Inductive, PTL

-----------------------------------------------------------------------------
(* A drained call is released *)

\* The end of the audio comes after endAudio, so the lock the end of the
\* turn releases is not one that recognizeStream has still to take.
Drained ==
  /\ eos => closed
  /\ closed => gpc \in {"completing", "returned"}
  /\ DrainedCallsAreReleased

LEMMA DrainedStep ==
  ASSUME IInv, Drained, [Next]_vars
  PROVE  Drained'
<1> USE DEF Drained, DrainedCallsAreReleased, queue, members, library
<1>1. CASE GrpcStep
  BY <1>1 DEF GrpcStep, RecognizeStream, LockCompletion, NoPendingAudio,
              ClearPendingAudio, ResumeStream, WaitForCompletion
<1>2. ASSUME NEW n \in Chunks, SendAudio(n)
      PROVE  Drained'
  BY <1>2 DEF SendAudio, AudioQueue!Write
<1>3. CASE EndAudio
  BY <1>3 DEF EndAudio, AudioQueue!Close
<1>4. ASSUME NEW n \in Buffers, AudioBytes(n)
      PROVE  Drained'
  BY <1>4 DEF AudioBytes, AudioQueue!Read
<1>5. CASE AudioEnd
  \* The library polls only while the turn is active.
  <2>1. turn' = "active"
    BY <1>5 DEF AudioEnd, Poll, IInv, LibraryInsideTurn
  <2> QED  BY <1>5, <2>1 DEF AudioEnd, AudioQueue!ReadEnd
<1>6. CASE AudioEmpty
  BY <1>6 DEF AudioEmpty, AudioQueue!ReadEmpty, AudioQueue!svars
<1>7. CASE SetPendingAudio
  BY <1>7 DEF SetPendingAudio
<1>8. CASE Message
  BY <1>8 DEF Message
<1>9. CASE MessageDone
  BY <1>9 DEF MessageDone
<1>10. CASE TurnEnd
  BY <1>10 DEF TurnEnd
<1>11. CASE UNCHANGED vars
  BY <1>11 DEF vars
<1> QED
  BY <1>1, <1>2, <1>3, <1>4, <1>5, <1>6, <1>7, <1>8, <1>9, <1>10, <1>11
  DEF Next, AudioCallback

\* A call whose audio has drained is never left waiting for a turn that is
\* over, whichever way the end of the audio and of the turn interleave.
THEOREM DrainedCallsReturn == Spec => []DrainedCallsAreReleased
<1>1. Init => Drained
  BY DEF Init, AudioQueue!Init, Drained, DrainedCallsAreReleased
<1>2. IInv /\ Drained /\ [Next]_vars => Drained'
  BY DrainedStep
<1>3. Spec => []Drained
  BY <1>1, <1>2, Inductive, PTL DEF Spec
<1> QED  BY <1>3, PTL DEF Drained

=============================================================================
