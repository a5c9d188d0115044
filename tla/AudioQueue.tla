----------------------------- MODULE AudioQueue -----------------------------
(***************************************************************************)
(* AudioQueue (src/src/audioqueue.h, src/src/audioqueue.cpp): the queue a  *)
(* session keeps between the thread that receives audio from the client    *)
(* and the thread that sends it to the speech service.                     *)
(*                                                                         *)
(* One producer thread calls put, markEnd and terminate; one consumer      *)
(* thread calls get and blockingGet.  put, get and blockingGet run under   *)
(* queueLock; markEnd and terminate do not take it, so their two           *)
(* statements (the store and notify_all) interleave with everything.       *)
(*                                                                         *)
(* Byte i of the stream is the number i: the buffer of an entry is the     *)
(* position before its first byte, and what memcpy copies out of it is the *)
(* run of positions it covers.                                             *)
(***************************************************************************)
EXTENDS Integers, Sequences

CONSTANTS
  PutLengths,  \* lengths the producer passes to put
  GetLengths,  \* requestedLength values the consumer asks for
  MaxBytes,    \* bound: bytes the producer puts in all
  MaxEntries   \* bound: entries in the queue at any time

ASSUME AudioQueueAssumption ==
  /\ PutLengths \subseteq Nat
  /\ GetLengths \subseteq Nat
  /\ MaxBytes \in Nat
  /\ MaxEntries \in Nat

VARIABLES
  \* the members of AudioQueue
  audioQueue, dataSize, busy, ended, terminating, requestedSize,
  processedBytes,
  \* the producer thread
  ppc,
  \* the consumer thread: where it is, the call it is in, its parameter,
  \* getSize's size and remaining, and the value the last call returned
  cpc, call, requestedLength, size, remaining, result,
  \* history: bytes put, bytes copied out, end of stream reported
  produced, delivered, toldEnd

queue == <<audioQueue, dataSize>>
request == <<busy, requestedSize>>
flags == <<ended, terminating>>
locals == <<call, requestedLength, size, remaining, result>>
history == <<produced, delivered, toldEnd>>

vars == <<queue, request, flags, processedBytes, ppc, cpc, locals, history>>

Entry == [buffer : Nat, offset : Nat, length : Nat]

\* Where the consumer holds queueLock.  The producer's critical section, the
\* body of put, is a single step.
LockedAt == {"getCheck", "loop", "enterWait", "decide", "copy"}

locked == cpc \in LockedAt

\* A failed assertion aborts the process.
Running == cpc # "aborted"

Init ==
  /\ audioQueue = <<>>
  /\ dataSize = 0
  /\ busy = FALSE
  /\ ended = FALSE
  /\ terminating = FALSE
  /\ requestedSize = 0
  /\ processedBytes = 0
  /\ ppc = "ready"
  /\ cpc = "idle"
  /\ call = "none"
  /\ requestedLength = 0
  /\ size = 0
  /\ remaining = 0
  /\ result = 0
  /\ produced = 0
  /\ delivered = <<>>
  /\ toldEnd = FALSE

-----------------------------------------------------------------------------
(* The producer *)

\* Faulty variant: the consumer is woken one byte late.
SignalsLate(bytes) == requestedSize > 0 /\ bytes > requestedSize

\* put wakes the consumer when what it waits for has become available.
Signals(bytes) == requestedSize > 0 /\ bytes >= requestedSize

\* notify_one and notify_all: there is at most one waiter, the consumer.
Notify == IF cpc = "waiting" THEN "notified" ELSE cpc

\* put(buffer, length).  Its assertion holds of a producer that puts
\* nothing after markEnd or terminate.
Put(length) ==
  /\ Running
  /\ ppc = "ready"
  /\ ~locked
  /\ Len(audioQueue) < MaxEntries
  /\ produced + length <= MaxBytes
  /\ audioQueue' = Append(audioQueue, [buffer |-> produced, offset |-> 0,
                                       length |-> length])
  /\ dataSize' = dataSize + length
  /\ cpc' = IF Signals(dataSize + length) THEN Notify ELSE cpc
  /\ produced' = produced + length
  /\ UNCHANGED <<request, flags, processedBytes, ppc, locals, delivered,
                 toldEnd>>

\* markEnd() and terminate() store their flag and then notify the waiter,
\* all without the lock.
MarkEnd ==
  /\ Running
  /\ ppc = "ready"
  /\ ppc' = "endStored"
  /\ ended' = TRUE
  /\ UNCHANGED <<queue, request, terminating, processedBytes, cpc, locals,
                 history>>

Terminate ==
  /\ Running
  /\ ppc \in {"ready", "ended"}
  /\ ppc' = "terminateStored"
  /\ terminating' = TRUE
  /\ UNCHANGED <<queue, request, ended, processedBytes, cpc, locals, history>>

NotifyAll(from, to) ==
  /\ Running
  /\ ppc = from
  /\ ppc' = to
  /\ cpc' = Notify
  /\ UNCHANGED <<queue, request, flags, processedBytes, locals, history>>

MarkEndNotify == NotifyAll("endStored", "ended")

TerminateNotify == NotifyAll("terminateStored", "terminated")

-----------------------------------------------------------------------------
(* The consumer: get *)

\* A call returns r and gives the lock back.
Return(r) ==
  /\ cpc' = "idle"
  /\ result' = r
  /\ UNCHANGED <<queue, flags, ppc, call, requestedLength, size, remaining,
                 produced, delivered>>

\* getSize(buffer, n) begins.
BeginCopy(n) ==
  /\ cpc' = "copy"
  /\ size' = n
  /\ remaining' = n
  /\ UNCHANGED <<queue, request, flags, processedBytes, ppc, call,
                 requestedLength, result, history>>

\* get(buffer, n) takes the lock.
Get(n) ==
  /\ cpc = "idle"
  /\ cpc' = "getCheck"
  /\ call' = "get"
  /\ requestedLength' = n
  /\ UNCHANGED <<queue, request, flags, processedBytes, ppc, size, remaining,
                 result, history>>

GetEmpty ==
  /\ cpc = "getCheck"
  /\ dataSize = 0
  /\ Return(IF ended THEN -1 ELSE 0)
  /\ toldEnd' = (toldEnd \/ ended)
  /\ UNCHANGED <<request, processedBytes>>

GetSome ==
  /\ cpc = "getCheck"
  /\ dataSize # 0
  /\ BeginCopy(IF requestedLength < dataSize THEN requestedLength
                                             ELSE dataSize)

-----------------------------------------------------------------------------
(* The consumer: blockingGet *)

\* blockingGet(buffer, n) takes the lock and asserts that no other call of
\* it is under way; a failed assertion ends the process.
BlockingGet(n) ==
  /\ cpc = "idle"
  /\ call' = "blockingGet"
  /\ requestedLength' = n
  /\ IF busy
     THEN cpc' = "aborted" /\ UNCHANGED request
     ELSE cpc' = "loop" /\ busy' = TRUE /\ requestedSize' = n
  /\ UNCHANGED <<queue, flags, processedBytes, ppc, size, remaining, result,
                 history>>

Move(from, to) ==
  /\ cpc = from
  /\ cpc' = to
  /\ UNCHANGED <<queue, request, flags, processedBytes, ppc, locals, history>>

\* The condition of the loop is evaluated, then wait releases the lock and
\* blocks: two steps, because markEnd and terminate need no lock.
MustWait == dataSize < requestedLength /\ ~terminating /\ ~ended

LoopTest == Move("loop", IF MustWait THEN "enterWait" ELSE "decide")

EnterWait == Move("enterWait", "waiting")

\* A condition variable may wake its waiter for no reason.
SpuriousWakeup == Move("waiting", "notified")

Reacquire == Move("notified", "loop")

\* Faulty variant: the end is reported while bytes are still queued.
AtEndEarly == ended

AtEnd == ended /\ dataSize = 0

\* Both early returns leave busy and requestedSize as they are.
ReturnNothing ==
  /\ cpc = "decide"
  /\ terminating \/ AtEnd
  /\ Return(0)
  /\ toldEnd' = (toldEnd \/ ~terminating)
  /\ UNCHANGED <<request, processedBytes>>

\* Faulty variant: the rest of the queue is taken to be long enough.
RestIgnored == requestedLength

\* After the end the rest of the queue may be shorter than what was asked.
BlockingSize ==
  IF ended /\ dataSize < requestedLength THEN dataSize ELSE requestedLength

ReturnBytes ==
  /\ cpc = "decide"
  /\ ~terminating
  /\ ~AtEnd
  /\ BeginCopy(BlockingSize)

-----------------------------------------------------------------------------
(* getSize, one iteration of its loop per step, under the consumer's lock *)

Front == audioQueue[1]

\* Faulty variant: the front entry is cut by all that was asked for.
CutBySize ==
  [buffer |-> Front.buffer, offset |-> Front.offset + size,
   length |-> Front.length - size]

\* What is left of an entry longer than what remains to be copied.
CutFront ==
  [buffer |-> Front.buffer, offset |-> Front.offset + remaining,
   length |-> Front.length - remaining]

\* Such an entry is cut, any other is copied whole and removed; the length
\* of an entry may be zero.
Copy ==
  LET split == Front.length > remaining
      n == IF split THEN remaining ELSE Front.length
  IN /\ cpc = "copy"
     /\ remaining > 0
     /\ audioQueue # <<>>
     /\ delivered' = delivered \o
          [i \in 1 .. n |-> Front.buffer + Front.offset + i]
     /\ audioQueue' = IF split THEN [audioQueue EXCEPT ![1] = CutFront]
                               ELSE Tail(audioQueue)
     /\ dataSize' = dataSize - n
     /\ remaining' = remaining - n
     /\ UNCHANGED <<request, flags, processedBytes, ppc, cpc, call,
                    requestedLength, size, result, produced, toldEnd>>

\* getSize counts the bytes and its caller returns.
CopyDone ==
  /\ cpc = "copy"
  /\ remaining <= 0
  /\ processedBytes' = processedBytes + size
  /\ IF call = "blockingGet"
     THEN busy' = FALSE /\ requestedSize' = 0
     ELSE UNCHANGED request
  /\ Return(size)
  /\ UNCHANGED toldEnd

-----------------------------------------------------------------------------

ConsumerStep ==
  \/ GetEmpty
  \/ GetSome
  \/ LoopTest
  \/ EnterWait
  \/ Reacquire
  \/ ReturnNothing
  \/ ReturnBytes
  \/ Copy
  \/ CopyDone

Next ==
  \/ \E length \in PutLengths : Put(length)
  \/ MarkEnd
  \/ MarkEndNotify
  \/ Terminate
  \/ TerminateNotify
  \/ \E n \in GetLengths : Get(n) \/ BlockingGet(n)
  \/ SpuriousWakeup
  \/ ConsumerStep

Spec == Init /\ [][Next]_vars

\* A thread inside a call of the queue keeps running; nobody is obliged to
\* call, and a spurious wakeup is never owed to anybody.
Fairness ==
  /\ WF_vars(ConsumerStep)
  /\ WF_vars(MarkEndNotify)
  /\ WF_vars(TerminateNotify)

FairSpec == Spec /\ Fairness

-----------------------------------------------------------------------------
(* Properties *)

\* Types of the members of AudioQueue and of the locals of its two callers;
\* no entry length and no byte count (audioqueue.h:90-107) is ever negative.
TypeOK ==
  /\ audioQueue \in Seq(Entry)
  /\ dataSize \in Nat
  /\ busy \in BOOLEAN
  /\ ended \in BOOLEAN
  /\ terminating \in BOOLEAN
  /\ requestedSize \in Nat
  /\ processedBytes \in Nat
  /\ ppc \in {"ready", "endStored", "ended", "terminateStored", "terminated"}
  /\ cpc \in {"idle", "waiting", "notified", "aborted"} \cup LockedAt
  /\ call \in {"none", "get", "blockingGet"}
  /\ requestedLength \in Nat
  /\ size \in Nat
  /\ remaining \in Nat
  /\ result \in Nat \cup {-1}
  /\ produced \in Nat
  /\ delivered \in Seq(Nat)
  /\ toldEnd \in BOOLEAN

\* The bytes copied out by get and blockingGet are the bytes put, in order,
\* none lost and none repeated: memcpy, offset, length and pop in getSize
\* agree with one another and with put.
InOrder == \A i \in 1 .. Len(delivered) : delivered[i] = i

\* Position of an entry's first byte, less one, and of its last byte.
StartOf(e) == e.buffer + e.offset

EndOf(e) == StartOf(e) + e.length

\* The entries of q are the bytes first + 1 .. last, one after the other.
Covers(q, first, last) ==
  IF q = <<>>
  THEN first = last
  ELSE /\ StartOf(q[1]) = first
       /\ EndOf(q[Len(q)]) = last
       /\ \A k \in 1 .. (Len(q) - 1) : StartOf(q[k + 1]) = EndOf(q[k])

\* The queue holds exactly the bytes put and not yet read, contiguously, and
\* dataSize is their number: the counter that get and blockingGet trust is
\* never out of step with the entries getSize walks.
QueueHoldsTheRest ==
  /\ dataSize = produced - Len(delivered)
  /\ Covers(audioQueue, Len(delivered), produced)

\* getSize never calls front() on an empty std::queue: a copy is never
\* asked for more bytes than are queued.
FrontExists == (cpc = "copy" /\ remaining > 0) => audioQueue # <<>>

\* get returns -1, and blockingGet returns 0 for the end, only when every
\* byte has been read, although markEnd sets ended at any moment.
EndMeansDrained == toldEnd => (ended /\ Len(delivered) = produced)

\* A blockingGet that returned less than it was asked for did so because
\* the queue was terminated, or ended and is empty.
ShortOnlyAtEnd ==
  (cpc = "idle" /\ call = "blockingGet" /\ result < requestedLength)
    => (terminating \/ (ended /\ Len(delivered) = produced))

\* A consumer blocked in wait is really short of bytes: put never leaves it
\* asleep once requestedLength bytes are there.
BlockedMeansShort == cpc = "waiting" => dataSize < requestedLength

\* A blockingGet for which enough bytes are there returns.
EnoughDataReleases ==
  (cpc \in {"loop", "enterWait", "waiting", "notified", "decide", "copy"}
     /\ dataSize >= requestedLength)
    ~> (cpc = "idle")

\* The queue as a byte stream.
Stream == INSTANCE ByteStream WITH
  Capacity <- MaxBytes, sent <- produced, received <- Len(delivered),
  closed <- ended, eos <- toldEnd

\* Every step of put, get, blockingGet, markEnd and terminate is a step of
\* the byte stream, or changes nothing of it.
ImplementsStream == Stream!Spec

\* blockingGet blocks "until requestedLength is available or queue has
\* ended" (audioqueue.h:66-67): a consumer blocked when ended is set wakes.
MarkEndWakes == (ended /\ cpc = "waiting") ~> (cpc # "waiting")

=============================================================================
