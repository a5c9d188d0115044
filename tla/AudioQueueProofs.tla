-------------------------- MODULE AudioQueueProofs --------------------------
(***************************************************************************)
(* Proofs about AudioQueue, for all lengths and bounds.                    *)
(*                                                                         *)
(* The inductive invariant has four parts: the types; the contents of the  *)
(* queue against the bytes put and copied out (Contents); what the         *)
(* position of each thread says about the members (Threads); and what the  *)
(* calls have told the consumer (Answers).                                 *)
(***************************************************************************)
EXTENDS AudioQueue, SequenceTheorems, TLAPS

Contents == InOrder /\ QueueHoldsTheRest /\ produced <= MaxBytes

\* Where a blockingGet has not yet decided what to return.
BlockingAt == {"loop", "enterWait", "waiting", "notified", "decide"}

Threads ==
  /\ ppc = "ready" => ~ended /\ ~terminating
  /\ cpc = "getCheck" => call = "get"
  /\ cpc \in BlockingAt =>
       call = "blockingGet" /\ requestedSize = requestedLength
  /\ cpc \in {"enterWait", "waiting"} => dataSize < requestedLength
  /\ cpc = "decide" => terminating \/ ended \/ dataSize >= requestedLength
  /\ cpc = "copy" => call # "none" /\ remaining <= dataSize
  /\ (cpc = "copy" /\ call = "blockingGet" /\ size < requestedLength) =>
       ended /\ remaining = dataSize

Answers == EndMeansDrained /\ ShortOnlyAtEnd

IInv == TypeOK /\ Contents /\ Threads /\ Answers

-----------------------------------------------------------------------------
(* Sequences of entries *)

\* put: an entry that begins where the queue ends extends what it covers.
LEMMA CoversAppend ==
  ASSUME NEW q \in Seq(Entry), NEW first \in Nat, NEW last \in Nat,
         Covers(q, first, last), NEW e \in Entry, StartOf(e) = last
  PROVE  /\ Append(q, e) \in Seq(Entry)
         /\ Covers(Append(q, e), first, EndOf(e))
<1> DEFINE r == Append(q, e)
<1>2. /\ r \in Seq(Entry)
      /\ r # <<>>
      /\ Len(r) = Len(q) + 1
      /\ \A i \in 1 .. Len(q) : r[i] = q[i]
      /\ r[Len(q) + 1] = e
  BY AppendProperties
<1>3. Len(q) \in Nat /\ (q # <<>> => Len(q) # 0) /\ (q = <<>> => Len(q) = 0)
  BY LenProperties, EmptySeq
<1> HIDE DEF r
<1> SUFFICES Covers(r, first, EndOf(e))
  BY <1>2 DEF r
<1>5. CASE q = <<>>
  BY <1>2, <1>3, <1>5 DEF Covers
<1>6. CASE q # <<>>
  <2>1. StartOf(r[1]) = first /\ EndOf(r[Len(r)]) = EndOf(e)
    BY <1>2, <1>3, <1>6 DEF Covers
  <2>2. ASSUME NEW k \in 1 .. (Len(r) - 1)
        PROVE  StartOf(r[k + 1]) = EndOf(r[k])
    <3>1. CASE k = Len(q)
      BY <1>2, <1>3, <1>6, <3>1 DEF Covers
    <3>2. CASE k # Len(q)
      <4>1. k \in 1 .. (Len(q) - 1) /\ k \in 1 .. Len(q)
              /\ k + 1 \in 1 .. Len(q)
        BY <1>2, <1>3, <3>2
      <4>2. r[k] = q[k] /\ r[k + 1] = q[k + 1]
        BY <1>2, <4>1
      <4> QED  BY <1>6, <4>1, <4>2 DEF Covers
    <3> QED  BY <3>1, <3>2
  <2> QED  BY <1>2, <2>1, <2>2 DEF Covers
<1> QED  BY <1>5, <1>6

\* getSize, an entry copied whole: the rest of the queue begins at its end.
LEMMA CoversTail ==
  ASSUME NEW q \in Seq(Entry), NEW first \in Nat, NEW last \in Nat,
         q # <<>>, Covers(q, first, last)
  PROVE  /\ Tail(q) \in Seq(Entry)
         /\ Covers(Tail(q), first + q[1].length, last)
<1> DEFINE r == Tail(q)
<1>1. /\ r \in Seq(Entry)
      /\ Len(r) = Len(q) - 1
      /\ \A i \in 1 .. Len(r) : r[i] = q[i + 1]
  BY HeadTailProperties
<1>2. Len(q) \in Nat \ {0} /\ Len(r) \in Nat
      /\ (r # <<>> => Len(r) # 0) /\ (r = <<>> => Len(r) = 0)
  BY <1>1, LenProperties, EmptySeq
<1>3. EndOf(q[1]) = first + q[1].length
  BY DEF Covers, EndOf
<1> HIDE DEF r
<1> SUFFICES Covers(r, first + q[1].length, last)
  BY <1>1 DEF r
<1>4. CASE r = <<>>
  <2>1. Len(q) = 1
    BY <1>1, <1>2, <1>4
  <2>2. EndOf(q[1]) = last
    BY <2>1 DEF Covers
  <2> QED  BY <1>3, <1>4, <2>2 DEF Covers
<1>5. CASE r # <<>>
  <2>1. StartOf(r[1]) = first + q[1].length /\ EndOf(r[Len(r)]) = last
    BY <1>1, <1>2, <1>3, <1>5 DEF Covers
  <2>2. ASSUME NEW k \in 1 .. (Len(r) - 1)
        PROVE  StartOf(r[k + 1]) = EndOf(r[k])
    <3>1. k + 1 \in 1 .. (Len(q) - 1) /\ k \in 1 .. Len(r)
            /\ k + 1 \in 1 .. Len(r)
      BY <1>1, <1>2
    <3>2. r[k] = q[k + 1] /\ r[k + 1] = q[(k + 1) + 1]
      BY <1>1, <3>1
    <3> QED  BY <3>1, <3>2 DEF Covers
  <2> QED  BY <1>5, <2>1, <2>2 DEF Covers
<1> QED  BY <1>4, <1>5

\* getSize, an entry cut: the queue begins where the new front entry does.
LEMMA CoversCut ==
  ASSUME NEW q \in Seq(Entry), NEW first \in Nat, NEW last \in Nat,
         q # <<>>, Covers(q, first, last),
         NEW e \in Entry, EndOf(e) = EndOf(q[1])
  PROVE  /\ [q EXCEPT ![1] = e] \in Seq(Entry)
         /\ Covers([q EXCEPT ![1] = e], StartOf(e), last)
<1> DEFINE r == [q EXCEPT ![1] = e]
<1>1. Len(q) \in Nat \ {0}
  BY LenProperties, EmptySeq
<1>4. /\ r \in Seq(Entry)
      /\ Len(r) = Len(q)
      /\ \A j \in 1 .. Len(q) : r[j] = IF j = 1 THEN e ELSE q[j]
  BY <1>1, ExceptSeq
<1>5. r # <<>>
  BY <1>1, <1>4, EmptySeq
<1> HIDE DEF r
<1>6. StartOf(r[1]) = StartOf(e)
  BY <1>1, <1>4
<1>7. EndOf(r[Len(r)]) = last
  BY <1>1, <1>4 DEF Covers
<1>8. ASSUME NEW k \in 1 .. (Len(r) - 1)
      PROVE  StartOf(r[k + 1]) = EndOf(r[k])
  <2>1. k \in 1 .. (Len(q) - 1) /\ k \in 1 .. Len(q) /\ k + 1 \in 1 .. Len(q)
          /\ k + 1 # 1
    BY <1>1, <1>4
  <2>2. r[k + 1] = q[k + 1] /\ EndOf(r[k]) = EndOf(q[k])
    BY <1>4, <2>1
  <2> QED  BY <2>1, <2>2 DEF Covers
<1> QED  BY <1>4, <1>5, <1>6, <1>7, <1>8 DEF Covers, r

\* memcpy: a run of bytes that continues the delivered ones.
LEMMA DeliverInOrder ==
  ASSUME NEW d \in Seq(Nat), NEW n \in Nat, NEW b \in Nat, b = Len(d),
         \A i \in 1 .. Len(d) : d[i] = i
  PROVE  LET r == d \o [i \in 1 .. n |-> b + i]
         IN /\ r \in Seq(Nat)
            /\ Len(r) = Len(d) + n
            /\ \A i \in 1 .. Len(r) : r[i] = i
<1> DEFINE s == [i \in 1 .. n |-> b + i]
<1>1. Len(d) \in Nat
  BY LenProperties
<1>2. s \in Seq(Nat) /\ Len(s) = n
  BY <1>1, IsASeq
<1>3. \A i \in 1 .. n : s[i] = b + i
  OBVIOUS
<1> HIDE DEF s
<1>4. /\ d \o s \in Seq(Nat)
      /\ Len(d \o s) = Len(d) + Len(s)
      /\ \A i \in 1 .. Len(d) + Len(s) :
           (d \o s)[i] = IF i <= Len(d) THEN d[i] ELSE s[i - Len(d)]
  BY <1>2, ConcatProperties
<1>5. ASSUME NEW i \in 1 .. (Len(d) + n)
      PROVE  (d \o s)[i] = i
  BY <1>1, <1>2, <1>3, <1>4
<1> QED  BY <1>2, <1>4, <1>5 DEF s

-----------------------------------------------------------------------------
(* The inductive invariant *)

LEMMA InitIInv == Init => IInv
<1> SUFFICES ASSUME Init PROVE IInv
  OBVIOUS
<1>1. TypeOK
  BY EmptySeq DEF Init, TypeOK
<1>2. Contents
  <2>1. Len(delivered) = 0 /\ audioQueue = <<>> /\ produced = 0 /\ dataSize = 0
    BY DEF Init
  <2>2. MaxBytes \in Nat
    BY AudioQueueAssumption
  <2> QED  BY <2>1, <2>2 DEF Contents, InOrder, QueueHoldsTheRest, Covers
<1>3. Threads
  BY DEF Init, Threads, BlockingAt
<1>4. Answers
  BY DEF Init, Answers, EndMeansDrained, ShortOnlyAtEnd
<1> QED  BY <1>1, <1>2, <1>3, <1>4 DEF IInv

\* Steps that neither append nor copy leave the contents alone.
LEMMA ContentsUnchanged ==
  ASSUME Contents, UNCHANGED <<audioQueue, dataSize, produced, delivered>>
  PROVE  Contents'
BY DEF Contents, InOrder, QueueHoldsTheRest, Covers, StartOf, EndOf

LEMMA PutIInv ==
  ASSUME IInv, NEW n \in PutLengths, Put(n)
  PROVE  IInv'
<1>0. n \in Nat
  BY AudioQueueAssumption
<1> DEFINE e == [buffer |-> produced, offset |-> 0, length |-> n]
<1>1. e \in Entry /\ StartOf(e) = produced /\ EndOf(e) = produced + n
  BY <1>0 DEF IInv, TypeOK, Entry, StartOf, EndOf
<1>2. audioQueue' = Append(audioQueue, e)
  BY DEF Put
<1>3. Len(delivered) \in Nat
  BY LenProperties DEF IInv, TypeOK
<1> HIDE DEF e
<1>4. /\ audioQueue' \in Seq(Entry)
      /\ Covers(audioQueue', Len(delivered), produced + n)
  BY <1>1, <1>2, <1>3, CoversAppend
     DEF IInv, TypeOK, Contents, QueueHoldsTheRest
<1>5. TypeOK'
  BY <1>0, <1>4 DEF IInv, TypeOK, Put, request, flags, locals, Notify, LockedAt
<1>6. Contents'
  <2>1. InOrder' /\ produced' <= MaxBytes
    BY DEF IInv, Contents, InOrder, Put
  <2>2. dataSize' = produced' - Len(delivered')
    BY <1>0, <1>3 DEF IInv, TypeOK, Contents, QueueHoldsTheRest, Put
  <2>3. Covers(audioQueue', Len(delivered'), produced')
    BY <1>4 DEF Put
  <2> QED  BY <2>1, <2>2, <2>3 DEF Contents, QueueHoldsTheRest
<1>7. Threads'
  BY <1>0 DEF IInv, TypeOK, Threads, BlockingAt, Put, request, flags, locals,
              Notify, Signals, locked, LockedAt
<1>8. Answers'
  BY DEF IInv, Threads, Answers, EndMeansDrained, ShortOnlyAtEnd, Put,
         request, flags, locals, Notify
<1> QED  BY <1>5, <1>6, <1>7, <1>8 DEF IInv

LEMMA CopyIInv ==
  ASSUME IInv, Copy
  PROVE  IInv'
<1> DEFINE split == Front.length > remaining
           n == IF split THEN remaining ELSE Front.length
           r == delivered \o [i \in 1 .. n |-> Front.buffer + Front.offset + i]
<1>1. Len(audioQueue) \in Nat \ {0} /\ Len(delivered) \in Nat
  BY LenProperties, EmptySeq DEF IInv, TypeOK, Copy
<1>2. Front \in Entry
  BY <1>1, ElementOfSeq DEF IInv, TypeOK, Front
<1>3. n \in Nat /\ n <= remaining /\ remaining <= dataSize
  BY <1>2 DEF IInv, TypeOK, Threads, Copy, Entry
<1>4. Front.buffer + Front.offset = Len(delivered)
  BY DEF Copy, IInv, Contents, QueueHoldsTheRest, Covers, StartOf, Front
<1>5. /\ r \in Seq(Nat)
      /\ Len(r) = Len(delivered) + n
      /\ \A i \in 1 .. Len(r) : r[i] = i
  <2>1. r = delivered \o [i \in 1 .. n |-> Len(delivered) + i]
    BY <1>4
  <2> HIDE DEF n, r
  <2> QED  BY <1>1, <1>3, <2>1, DeliverInOrder DEF IInv, TypeOK, Contents, InOrder
<1>6. /\ delivered' = r
      /\ dataSize' = dataSize - n
      /\ remaining' = remaining - n
      /\ UNCHANGED <<busy, requestedSize, ended, terminating, processedBytes,
                     ppc, cpc, call, requestedLength, size, result, produced,
                     toldEnd>>
  BY DEF Copy, request, flags
<1>7. /\ audioQueue' \in Seq(Entry)
      /\ Covers(audioQueue', Len(delivered) + n, produced)
  <2>1. CASE split
    <3>0. /\ CutFront.buffer = Front.buffer
          /\ CutFront.offset = Front.offset + n
          /\ CutFront.length = Front.length - n
          /\ CutFront \in Entry
      <4>1. n = remaining /\ Front.length > n
        BY <2>1
      <4> HIDE DEF n, split, r
      <4>2. CutFront = [buffer |-> Front.buffer, offset |-> Front.offset + n,
                        length |-> Front.length - n]
        BY <4>1 DEF CutFront
      <4>3. Front.offset + n \in Nat /\ Front.length - n \in Nat
              /\ Front.buffer \in Nat
        BY <1>2, <1>3, <4>1 DEF Entry
      <4> QED  BY <4>2, <4>3 DEF Entry
    <3>1. /\ StartOf(CutFront) = Len(delivered) + n
          /\ EndOf(CutFront) = EndOf(audioQueue[1])
      <4> HIDE DEF n, split, r
      <4>1. Front.buffer \in Nat /\ Front.offset \in Nat /\ Front.length \in Nat
        BY <1>2 DEF Entry
      <4>2. EndOf(audioQueue[1]) = Front.buffer + Front.offset + Front.length
        BY DEF EndOf, StartOf, Front
      <4>3. StartOf(CutFront) = Front.buffer + (Front.offset + n)
        BY <3>0 DEF StartOf
      <4>4. EndOf(CutFront) = Front.buffer + (Front.offset + n)
                                + (Front.length - n)
        BY <3>0, <4>3 DEF EndOf
      <4>5. n \in Nat
        BY <1>3
      <4>6. StartOf(CutFront) = Len(delivered) + n
        BY <1>4, <4>1, <4>3, <4>5
      <4>7. EndOf(CutFront) = EndOf(audioQueue[1])
        BY <4>1, <4>2, <4>4, <4>5
      <4> QED  BY <4>6, <4>7
    <3>2. audioQueue' = [audioQueue EXCEPT ![1] = CutFront]
      BY <2>1 DEF Copy
    <3>3. audioQueue # <<>>
      BY DEF Copy
    <3> HIDE DEF n, split, r
    <3> QED  BY <1>1, <3>0, <3>1, <3>2, <3>3, CoversCut
                DEF IInv, TypeOK, Contents, QueueHoldsTheRest
  <2>2. CASE ~split
    <3>1. audioQueue' = Tail(audioQueue) /\ n = audioQueue[1].length
      BY <2>2 DEF Copy, Front
    <3> HIDE DEF n
    <3> QED  BY <1>1, <3>1, CoversTail
                DEF IInv, TypeOK, Contents, QueueHoldsTheRest, Copy
  <2> QED  BY <2>1, <2>2
<1> HIDE DEF split, n, r
<1>8. TypeOK'
  <2>1. dataSize' \in Nat /\ remaining' \in Nat
    BY <1>3, <1>6 DEF IInv, TypeOK
  <2>2. delivered' \in Seq(Nat)
    BY <1>5, <1>6
  <2> QED  BY <1>6, <1>7, <2>1, <2>2 DEF IInv, TypeOK
<1>9. Contents'
  <2>1. InOrder'
    BY <1>5, <1>6 DEF InOrder
  <2>2. dataSize' = produced' - Len(delivered')
    <3>1. Len(delivered') = Len(delivered) + n
      BY <1>5, <1>6
    <3> QED  BY <1>1, <1>3, <1>6, <3>1
                DEF IInv, TypeOK, Contents, QueueHoldsTheRest
  <2>3. Covers(audioQueue', Len(delivered'), produced')
    BY <1>5, <1>6, <1>7
  <2>4. produced' <= MaxBytes
    BY <1>6 DEF IInv, Contents
  <2> QED  BY <2>1, <2>2, <2>3, <2>4 DEF Contents, QueueHoldsTheRest
<1>10. Threads'
  <2>1. cpc = "copy"
    BY DEF Copy
  <2> QED  BY <1>3, <1>6, <2>1 DEF IInv, TypeOK, Threads, BlockingAt
<1>11. Answers'
  <2>1. dataSize # 0 /\ cpc = "copy"
    BY <1>3 DEF Copy, IInv, TypeOK
  <2>2. ~toldEnd
    BY <1>1, <2>1 DEF IInv, TypeOK, Contents, QueueHoldsTheRest, Answers,
                      EndMeansDrained
  <2> QED  BY <1>6, <2>1, <2>2 DEF Answers, EndMeansDrained, ShortOnlyAtEnd
<1> QED  BY <1>8, <1>9, <1>10, <1>11 DEF IInv

\* A copy only takes bytes away.
LEMMA CopyShrinks ==
  ASSUME IInv, Copy
  PROVE  dataSize' <= dataSize
<1>1. Len(audioQueue) \in Nat \ {0}
  BY LenProperties, EmptySeq DEF IInv, TypeOK, Copy
<1>2. Front \in Entry
  BY <1>1, ElementOfSeq DEF IInv, TypeOK, Front
<1> QED  BY <1>2 DEF Copy, IInv, TypeOK, Entry

\* markEnd and terminate, each of their two statements.
LEMMA FlagsIInv ==
  ASSUME IInv, MarkEnd \/ Terminate \/ MarkEndNotify \/ TerminateNotify
  PROVE  IInv'
<1> USE DEF queue, request, flags, locals, history, MarkEndNotify,
            TerminateNotify, NotifyAll, Notify, MarkEnd, Terminate
<1>1. TypeOK'
  BY DEF IInv, TypeOK
<1>2. Contents'
  BY ContentsUnchanged DEF IInv
<1>3. Threads'
  BY DEF IInv, TypeOK, Threads, BlockingAt
<1>4. Answers'
  BY DEF IInv, TypeOK, Answers, EndMeansDrained, ShortOnlyAtEnd
<1> QED  BY <1>1, <1>2, <1>3, <1>4 DEF IInv

\* The beginning of get and of blockingGet.
LEMMA CallIInv ==
  ASSUME IInv, NEW n \in GetLengths, Get(n) \/ BlockingGet(n)
  PROVE  IInv'
<1> USE DEF queue, request, flags, history, Get, BlockingGet
<1>0. n \in Nat
  BY AudioQueueAssumption
<1>1. TypeOK'
  BY <1>0 DEF IInv, TypeOK, LockedAt
<1>2. Contents'
  BY ContentsUnchanged DEF IInv
<1>3. Threads'
  BY <1>0 DEF IInv, TypeOK, Threads, BlockingAt
<1>4. Answers'
  BY DEF IInv, TypeOK, Answers, EndMeansDrained, ShortOnlyAtEnd
<1> QED  BY <1>1, <1>2, <1>3, <1>4 DEF IInv

\* The loop of blockingGet.
LEMMA LoopIInv ==
  ASSUME IInv, LoopTest \/ EnterWait \/ SpuriousWakeup \/ Reacquire
  PROVE  IInv'
<1> USE DEF queue, request, flags, locals, history, LoopTest, EnterWait,
            SpuriousWakeup, Reacquire, Move
<1>1. TypeOK'
  BY DEF IInv, TypeOK, LockedAt
<1>2. Contents'
  BY ContentsUnchanged DEF IInv
<1>3. Threads'
  BY DEF IInv, TypeOK, Threads, BlockingAt, MustWait
<1>4. Answers'
  BY DEF IInv, TypeOK, Answers, EndMeansDrained, ShortOnlyAtEnd
<1> QED  BY <1>1, <1>2, <1>3, <1>4 DEF IInv

\* get and blockingGet find bytes to copy.
LEMMA BeginCopyIInv ==
  ASSUME IInv, GetSome \/ ReturnBytes
  PROVE  IInv'
<1> USE DEF queue, request, flags, history, GetSome, ReturnBytes, BeginCopy
<1>1. TypeOK'
  BY DEF IInv, TypeOK, LockedAt, BlockingSize
<1>2. Contents'
  BY ContentsUnchanged DEF IInv
<1>3. Threads'
  BY DEF IInv, TypeOK, Threads, BlockingAt, BlockingSize, AtEnd
<1>4. Answers'
  BY DEF IInv, TypeOK, Answers, EndMeansDrained, ShortOnlyAtEnd
<1> QED  BY <1>1, <1>2, <1>3, <1>4 DEF IInv

\* get and blockingGet return.
LEMMA ReturnIInv ==
  ASSUME IInv, GetEmpty \/ ReturnNothing \/ CopyDone
  PROVE  IInv'
<1> USE DEF queue, request, flags, GetEmpty, ReturnNothing, CopyDone, Return
<1>0. Len(delivered) \in Nat /\ (dataSize = 0 => Len(delivered) = produced)
  BY LenProperties DEF IInv, TypeOK, Contents, QueueHoldsTheRest
<1>1. TypeOK'
  <2>1. toldEnd' \in BOOLEAN
    BY DEF IInv, TypeOK
  <2>2. result' \in Nat \cup {-1} /\ processedBytes' \in Nat
          /\ requestedSize' \in Nat
    BY DEF IInv, TypeOK
  <2>3. busy' \in BOOLEAN
    BY DEF IInv, TypeOK
  <2> QED  BY <2>1, <2>2, <2>3 DEF IInv, TypeOK
<1>2. Contents'
  BY ContentsUnchanged DEF IInv
<1>3. Threads'
  BY DEF IInv, TypeOK, Threads, BlockingAt
<1>4. Answers'
  <2>1. EndMeansDrained'
    BY <1>0 DEF IInv, TypeOK, Answers, EndMeansDrained, AtEnd
  <2>2. ASSUME GetEmpty PROVE ShortOnlyAtEnd'
    BY <2>2 DEF IInv, Threads, ShortOnlyAtEnd
  <2>3. ASSUME ReturnNothing PROVE ShortOnlyAtEnd'
    BY <1>0, <2>3 DEF ShortOnlyAtEnd, AtEnd
  <2>4. ASSUME CopyDone PROVE ShortOnlyAtEnd'
    <3>1. remaining = 0
      BY <2>4 DEF IInv, TypeOK
    <3> QED  BY <1>0, <2>4, <3>1 DEF IInv, Threads, ShortOnlyAtEnd
  <2> QED  BY <2>1, <2>2, <2>3, <2>4 DEF Answers
<1> QED  BY <1>1, <1>2, <1>3, <1>4 DEF IInv

LEMMA StutterIInv ==
  ASSUME IInv, UNCHANGED vars
  PROVE  IInv'
<1> USE DEF vars, queue, request, flags, locals, history
<1>1. TypeOK'
  BY DEF IInv, TypeOK
<1>2. Contents'
  BY ContentsUnchanged DEF IInv
<1>3. Threads'
  BY DEF IInv, Threads
<1>4. Answers'
  BY DEF IInv, Answers, EndMeansDrained, ShortOnlyAtEnd
<1> QED  BY <1>1, <1>2, <1>3, <1>4 DEF IInv

\* The inductive invariant holds of every behaviour of the queue.
THEOREM Inductive == Spec => []IInv
<1>1. IInv /\ [Next]_vars => IInv'
  <2> SUFFICES ASSUME IInv, [Next]_vars PROVE IInv'
    OBVIOUS
  <2>1. CASE \E length \in PutLengths : Put(length)
    BY <2>1, PutIInv
  <2>2. CASE MarkEnd \/ Terminate \/ MarkEndNotify \/ TerminateNotify
    BY <2>2, FlagsIInv
  <2>3. CASE \E n \in GetLengths : Get(n) \/ BlockingGet(n)
    BY <2>3, CallIInv
  <2>4. CASE LoopTest \/ EnterWait \/ SpuriousWakeup \/ Reacquire
    BY <2>4, LoopIInv
  <2>5. CASE GetSome \/ ReturnBytes
    BY <2>5, BeginCopyIInv
  <2>6. CASE GetEmpty \/ ReturnNothing \/ CopyDone
    BY <2>6, ReturnIInv
  <2>7. CASE Copy
    BY <2>7, CopyIInv
  <2>8. CASE UNCHANGED vars
    BY <2>8, StutterIInv
  <2> QED  BY <2>1, <2>2, <2>3, <2>4, <2>5, <2>6, <2>7, <2>8
              DEF Next, ConsumerStep
<1> QED  BY <1>1, InitIInv, PTL DEF Spec

-----------------------------------------------------------------------------
(* What it implies *)

\* The members of AudioQueue keep their types; in particular no length and
\* no count of getSize goes below zero.
THEOREM TypeCorrect == Spec => []TypeOK
BY Inductive, PTL DEF IInv

\* put, get and blockingGet lose, repeat and reorder no byte.
THEOREM BytesInOrder == Spec => []InOrder
<1>1. IInv => InOrder
  BY DEF IInv, Contents
<1> QED  BY <1>1, Inductive, PTL

\* dataSize, which get and blockingGet trust, is the number of bytes in the
\* entries that getSize walks, and they are the bytes not yet read.
THEOREM QueueIsTheRest == Spec => []QueueHoldsTheRest
<1>1. IInv => QueueHoldsTheRest
  BY DEF IInv, Contents
<1> QED  BY <1>1, Inductive, PTL

\* getSize never takes the front of an empty queue.
THEOREM FrontAlwaysExists == Spec => []FrontExists
<1>1. IInv => FrontExists
  <2> SUFFICES ASSUME IInv, cpc = "copy", remaining > 0, audioQueue = <<>>
               PROVE  FALSE
    BY DEF FrontExists
  <2>1. Len(delivered) \in Nat
    BY LenProperties DEF IInv, TypeOK
  <2>2. dataSize = 0
    BY <2>1 DEF IInv, TypeOK, Contents, QueueHoldsTheRest, Covers
  <2> QED  BY <2>2 DEF IInv, TypeOK, Threads
<1> QED  BY <1>1, Inductive, PTL

\* get and blockingGet report the end only when the stream has been drained.
THEOREM EndOnlyWhenDrained == Spec => []EndMeansDrained
<1>1. IInv => EndMeansDrained
  BY DEF IInv, Answers
<1> QED  BY <1>1, Inductive, PTL

\* blockingGet returns short only when the stream has been drained or the
\* queue was terminated.
THEOREM ShortReadsOnlyAtEnd == Spec => []ShortOnlyAtEnd
<1>1. IInv => ShortOnlyAtEnd
  BY DEF IInv, Answers
<1> QED  BY <1>1, Inductive, PTL

\* put leaves no consumer blocked for bytes that are there.
THEOREM NoMissedData == Spec => []BlockedMeansShort
<1>1. IInv => BlockedMeansShort
  BY DEF IInv, Threads, BlockedMeansShort
<1> QED  BY <1>1, Inductive, PTL

\* The audio queue implements the byte stream, for every bound.
THEOREM Refinement == Spec => ImplementsStream
<1> USE DEF Stream!svars
<1>1. Init => Stream!Init
  BY DEF Init, Stream!Init
<1>2. IInv /\ [Next]_vars => [Stream!Next]_(Stream!svars)
  <2> SUFFICES ASSUME IInv, [Next]_vars
               PROVE  Stream!Next \/ UNCHANGED Stream!svars
    OBVIOUS
  <2> USE DEF queue, request, flags, locals, history
  <2>0. /\ Len(delivered) \in Nat
        /\ dataSize = produced - Len(delivered)
        /\ produced \in Nat /\ MaxBytes \in Nat /\ produced <= MaxBytes
    BY LenProperties, AudioQueueAssumption
       DEF IInv, TypeOK, Contents, QueueHoldsTheRest
  <2>1. ASSUME NEW length \in PutLengths, Put(length)
        PROVE  Stream!Next
    <3>1. length \in 0 .. MaxBytes
      BY <2>0, <2>1, AudioQueueAssumption DEF Put
    <3>2. Stream!Write(length)
      BY <2>1 DEF Put, Stream!Write, IInv, Threads
    <3> QED  BY <3>1, <3>2 DEF Stream!Next
  <2>2. CASE MarkEnd
    BY <2>2 DEF MarkEnd, Stream!Next, Stream!Close
  <2>3. CASE Terminate \/ MarkEndNotify \/ TerminateNotify
    BY <2>3 DEF Terminate, MarkEndNotify, TerminateNotify, NotifyAll
  <2>4. ASSUME NEW n \in GetLengths, Get(n) \/ BlockingGet(n)
        PROVE  UNCHANGED Stream!svars
    BY <2>4 DEF Get, BlockingGet
  <2>5. CASE LoopTest \/ EnterWait \/ SpuriousWakeup \/ Reacquire
    BY <2>5 DEF LoopTest, EnterWait, SpuriousWakeup, Reacquire, Move
  <2>6. CASE GetSome \/ ReturnBytes
    BY <2>6 DEF GetSome, ReturnBytes, BeginCopy
  <2>7. CASE GetEmpty \/ ReturnNothing
    <3>1. UNCHANGED <<produced, delivered, ended>>
            /\ (toldEnd' # toldEnd => dataSize = 0 /\ ended /\ toldEnd' = TRUE)
      BY <2>7 DEF GetEmpty, ReturnNothing, Return, AtEnd, IInv, TypeOK
    <3>2. CASE toldEnd' = toldEnd
      BY <3>1, <3>2
    <3>3. CASE toldEnd' # toldEnd
      <4>1. Len(delivered) = produced
        BY <2>0, <3>1, <3>3
      <4>2. Len(delivered') = Len(delivered)
        BY <3>1
      <4>3. Stream!ReadEnd
        BY <3>1, <3>3, <4>1, <4>2 DEF Stream!ReadEnd
      <4> QED  BY <4>3 DEF Stream!Next
    <3> QED  BY <3>2, <3>3
  <2>8. CASE CopyDone
    BY <2>8 DEF CopyDone, Return
  <2>9. CASE Copy
    <3> DEFINE n == Len(delivered') - Len(delivered)
    <3>1. /\ Len(delivered') \in Nat
          /\ dataSize' = produced' - Len(delivered')
          /\ dataSize' \in Nat
      BY <2>9, CopyIInv, LenProperties
         DEF IInv, TypeOK, Contents, QueueHoldsTheRest
    <3>2. UNCHANGED <<produced, ended, toldEnd>>
      BY <2>9 DEF Copy
    <3>3. dataSize' <= dataSize
      BY <2>9, CopyShrinks
    <3>4. n \in 0 .. MaxBytes
      BY <2>0, <3>1, <3>2, <3>3
    <3>5. Stream!Read(n)
      BY <2>0, <3>1, <3>2 DEF Stream!Read
    <3> QED  BY <3>4, <3>5 DEF Stream!Next
  <2>10. CASE UNCHANGED vars
    BY <2>10 DEF vars
  <2> QED  BY <2>1, <2>2, <2>3, <2>4, <2>5, <2>6, <2>7, <2>8, <2>9, <2>10
              DEF Next, ConsumerStep
<1> QED  BY <1>1, <1>2, Inductive, PTL DEF Spec, ImplementsStream, Stream!Spec

=============================================================================
