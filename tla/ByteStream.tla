----------------------------- MODULE ByteStream -----------------------------
(***************************************************************************)
(* What an audio queue promises to its two ends: one writer appends bytes  *)
(* and finally closes the stream, one reader takes them in order and is    *)
(* told the stream is over only when it has been closed and every byte of  *)
(* it has been read.  Bytes are numbered by their position, so the number  *)
(* of bytes written and the number read are the whole of the state.        *)
(*                                                                         *)
(* AudioQueue implements this specification (AudioQueue!Stream), and       *)
(* MSSpeechSession uses it in place of its audio queue.                    *)
(***************************************************************************)
EXTENDS Integers

CONSTANT Capacity   \* bound: bytes the writer puts in all

VARIABLES
  sent,      \* bytes the writer has put
  received,  \* bytes the reader has got
  closed,    \* the writer has marked the end
  eos        \* the reader has been told that the stream is over

svars == <<sent, received, closed, eos>>

Init ==
  /\ sent = 0
  /\ received = 0
  /\ closed = FALSE
  /\ eos = FALSE

Write(n) ==
  /\ ~closed
  /\ sent + n <= Capacity
  /\ sent' = sent + n
  /\ UNCHANGED <<received, closed, eos>>

Close ==
  /\ closed' = TRUE
  /\ UNCHANGED <<sent, received, eos>>

Read(n) ==
  /\ received + n <= sent
  /\ received' = received + n
  /\ UNCHANGED <<sent, closed, eos>>

\* The reader finds nothing to read in a stream that may still grow.
ReadEmpty ==
  /\ received = sent
  /\ ~closed
  /\ UNCHANGED svars

ReadEnd ==
  /\ received = sent
  /\ closed
  /\ eos' = TRUE
  /\ UNCHANGED <<sent, received, closed>>

Next ==
  \/ \E n \in 0 .. Capacity : Write(n) \/ Read(n)
  \/ Close
  \/ ReadEmpty
  \/ ReadEnd

Spec == Init /\ [][Next]_svars

=============================================================================
