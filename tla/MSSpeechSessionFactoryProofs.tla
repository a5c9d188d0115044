-------------------- MODULE MSSpeechSessionFactoryProofs --------------------
(***************************************************************************)
(* Proofs about MSSpeechSessionFactory, for any callers, URLs, sessions    *)
(* and bounds, and with connections that close at any moment.              *)
(*                                                                         *)
(* The inductive invariant ties the two directions of a checkout together  *)
(* (the caller's held and the session's session pointer), and says in      *)
(* which states of its connection a session may be pending, offered, in    *)
(* use or known to the factory.                                            *)
(***************************************************************************)
EXTENDS MSSpeechSessionFactory, TLAPS

\* A caller that holds a session and the session's pointer agree.
Checkouts ==
  /\ \A c \in Callers : cpc[c] # "idle" => want[c] \in Uris
  /\ \A c \in Callers : Holds(c) =>
       /\ held[c] \in Sessions
       /\ session[held[c]] = c
       /\ uri[held[c]] = want[c]
       /\ held[c] \in busySesssions
  /\ \A s \in Sessions, c \in Callers : session[s] = c =>
       /\ Holds(c)
       /\ held[c] = s
       /\ connection[s] \in {"ready", "closed"}
  /\ \A c \in Callers : sessionsBySession[c] # NoSession =>
       Holds(c) /\ sessionsBySession[c] = held[c]
  /\ \A c \in Callers : (Holds(c) /\ connection[held[c]] = "ready") =>
       sessionsBySession[c] = held[c]

\* What an offered session is.
Offers ==
  \A u \in Uris : \A s \in availableSessionsByUri[u] :
    /\ uri[s] = u
    /\ session[s] = NoCaller
    /\ connection[s] \in {"ready", "closed"}

\* What the state of its connection says of a session.
Connections ==
  /\ \A s \in pendingSessions : connection[s] = "none" /\ uri[s] \in Uris
  /\ \A s \in Sessions : connection[s] # "none" => uri[s] \in Uris
  /\ \A s \in Sessions :
       connection[s] \in {"opening", "failed", "ready"} => s \in sessions

\* The run loop's own session.
Runloop ==
  /\ rpc = "connect" => current \in pendingSessions
  /\ rpc \in {"closeAvailable", "closeBySession", "closeSession"} =>
       current \in Sessions /\ connection[current] = "closed"

IInv == TypeOK /\ Checkouts /\ Offers /\ Connections /\ Runloop

LEMMA InitIInv == Init => IInv
<1> SUFFICES ASSUME Init PROVE IInv
  OBVIOUS
<1> USE FactoryAssumption DEF Init
<1>1. TypeOK
  <2>1. /\ availableSessionsByUri \in [Uris -> SUBSET Sessions]
        /\ sessionsBySession \in [Callers -> Sessions \cup {NoSession}]
        /\ uri \in [Sessions -> Uris \cup {NoUri}]
        /\ session \in [Sessions -> Callers \cup {NoCaller}]
    OBVIOUS
  <2>2. /\ connection \in
             [Sessions -> {"none", "opening", "failed", "ready", "closed"}]
        /\ turn \in [Sessions -> {"none", "active"}]
        /\ cpc \in
             [Callers -> {"idle", "waiting", "woken", "holding", "started",
                          "streaming"}]
    OBVIOUS
  <2>3. /\ want \in [Callers -> Uris \cup {NoUri}]
        /\ held \in [Callers -> Sessions \cup {NoSession}]
        /\ requests \in [Callers -> 0 .. MaxRequests]
        /\ completionLock \in [Callers -> BOOLEAN]
    OBVIOUS
  <2> QED  BY <2>1, <2>2, <2>3 DEF TypeOK
<1>2. Checkouts
  BY DEF Checkouts, Holds
<1>3. Offers
  BY DEF Offers
<1>4. Connections /\ Runloop
  BY DEF Connections, Runloop
<1> QED  BY <1>1, <1>2, <1>3, <1>4 DEF IInv

\* A step that changes only the threads' positions, and not where a caller
\* or the run loop has a session, or kills the process.
LEMMA PoolUnchanged ==
  ASSUME IInv, UNCHANGED <<pool, objects, library, callers>>, TypeOK', Runloop'
  PROVE  IInv'
<1>1. Checkouts'
  BY DEF IInv, Checkouts, Holds, pool, objects, library, callers
<1>2. Offers'
  BY DEF IInv, Offers, pool, objects, library
<1>3. Connections'
  BY DEF IInv, Connections, pool, objects, library
<1> QED  BY <1>1, <1>2, <1>3 DEF IInv

LEMMA KillIInv ==
  ASSUME IInv,
         NEW reason \in {"putSession", "lock", "iterator", "race", "thread",
                         "level", "server"},
         Kill(reason)
  PROVE  IInv'
<1>1. TypeOK'
  BY DEF IInv, TypeOK, Kill, pool, objects, library, runloop, callers
<1>2. Runloop'
  BY DEF IInv, Runloop, Kill, pool, library, runloop
<1> QED  BY <1>1, <1>2, PoolUnchanged DEF Kill

-----------------------------------------------------------------------------
(* The run loop's and the main thread's moves *)

LEMMA MoveIInv ==
  ASSUME IInv, NEW from, NEW to, NEW s \in Sessions \cup {NoSession},
         RunloopMove(from, to, s),
         to \in {"process", "loop", "begin", "connect"},
         to = "connect" => s \in pendingSessions,
         mutexHeld' \in BOOLEAN
  PROVE  IInv'
<1>1. TypeOK'
  BY DEF IInv, TypeOK, RunloopMove, pool, objects, library, callers
<1>2. Runloop'
  BY DEF IInv, Runloop, RunloopMove, pool, library
<1> QED  BY <1>1, <1>2, PoolUnchanged DEF RunloopMove

LEMMA ProcessIInv ==
  ASSUME IInv,
         \/ StepReturns
         \/ NothingPending
         \/ SomePending
         \/ BeginLoop
         \/ ConnectFails
         \/ NextAfterErase
  PROVE  IInv'
<1>0. mutexHeld \in BOOLEAN /\ pendingSessions \subseteq Sessions
  BY DEF IInv, TypeOK
<1>1. CASE StepReturns \/ NothingPending \/ SomePending
  BY <1>0, <1>1, MoveIInv DEF StepReturns, NothingPending, SomePending
<1>2. CASE BeginLoop
  <2>1. PICK s \in Sessions :
          Begin(pendingSessions, s) /\ RunloopMove("begin", "connect", s)
    BY <1>2 DEF BeginLoop
  <2>2. s \in pendingSessions /\ mutexHeld' \in BOOLEAN
    BY <1>0, <1>2, <2>1 DEF Begin, BeginLoop
  <2> QED  BY <2>1, <2>2, MoveIInv
<1>3. CASE ConnectFails
  <2>1. CASE \E s \in Sessions :
               /\ Begin({t \in pendingSessions : t > current}, s)
               /\ RunloopMove("connect", "connect", s)
               /\ UNCHANGED mutexHeld
    <3>1. PICK s \in Sessions :
            /\ Begin({t \in pendingSessions : t > current}, s)
            /\ RunloopMove("connect", "connect", s)
            /\ UNCHANGED mutexHeld
      BY <2>1
    <3>2. s \in pendingSessions /\ mutexHeld' \in BOOLEAN
      BY <1>0, <3>1 DEF Begin
    <3> QED  BY <3>1, <3>2, MoveIInv
  <2>2. CASE RunloopMove("connect", "loop", NoSession) /\ mutexHeld' = FALSE
    BY <2>2, MoveIInv
  <2> QED  BY <1>3, <2>1, <2>2 DEF ConnectFails
<1>4. CASE NextAfterErase
  <2>1. CASE RunloopMove("erased", "loop", NoSession) /\ mutexHeld' = FALSE
    BY <2>1, MoveIInv
  <2>2. ASSUME NEW s \in pendingSessions, UNCHANGED mutexHeld,
               RunloopMove("erased", "connect", s)
        PROVE  IInv'
    BY <1>0, <2>2, MoveIInv
  <2>3. CASE Kill("iterator")
    BY <2>3, KillIInv
  <2> QED  BY <1>4, <2>1, <2>2, <2>3 DEF NextAfterErase
<1> QED  BY <1>1, <1>2, <1>3, <1>4

LEMMA LifeIInv ==
  ASSUME IInv, RunloopStarts \/ RunloopTest \/ Start \/ Destroy \/ Join
  PROVE  IInv'
<1> USE DEF RunloopStarts, RunloopTest, Start, Destroy, Join, runloop
<1>1. UNCHANGED <<pool, objects, library, callers>>
  OBVIOUS
<1>2. TypeOK'
  <2>1. runloopStarted' \in BOOLEAN /\ terminateRunloop' \in BOOLEAN
    BY DEF IInv, TypeOK
  <2>2. mpc' \in {"new", "started", "joining", "destroyed"}
    BY DEF IInv, TypeOK
  <2>3. rpc' \in {"none", "starting", "loop", "step", "process", "begin",
                 "connect", "erased", "closeAvailable", "closeBySession",
                 "closeSession", "exited"}
    BY DEF IInv, TypeOK
  <2>4. UNCHANGED <<current, mutexHeld, crash>>
    OBVIOUS
  <2> QED  BY <2>1, <2>2, <2>3, <2>4
              DEF IInv, TypeOK, pool, objects, library, callers
<1>3. Runloop'
  BY DEF IInv, Runloop, pool, library
<1> QED  BY <1>1, <1>2, <1>3, PoolUnchanged

-----------------------------------------------------------------------------
(* What each part of the invariant depends on *)

LEMMA CheckoutsFrame ==
  ASSUME Checkouts,
         UNCHANGED <<cpc, want, held, session, uri, busySesssions, connection,
                     sessionsBySession>>
  PROVE  Checkouts'
BY DEF Checkouts, Holds

LEMMA OffersFrame ==
  ASSUME Offers,
         UNCHANGED <<availableSessionsByUri, uri, session, connection>>
  PROVE  Offers'
BY DEF Offers

LEMMA ConnectionsFrame ==
  ASSUME Connections,
         UNCHANGED <<pendingSessions, sessions, uri, connection>>
  PROVE  Connections'
BY DEF Connections

LEMMA RunloopFrame ==
  ASSUME Runloop, UNCHANGED <<rpc, current, pendingSessions, connection>>
  PROVE  Runloop'
BY DEF Runloop

CallerPosition ==
  {"idle", "waiting", "woken", "holding", "started", "streaming"}

\* notify_all moves waiting callers only.
LEMMA NotifiedFacts ==
  ASSUME TypeOK
  PROVE  /\ Notified \in [Callers -> CallerPosition]
         /\ \A c \in Callers :
              /\ Notified[c] \in {"holding", "started", "streaming"} <=> Holds(c)
              /\ Notified[c] = "idle" <=> cpc[c] = "idle"
BY DEF TypeOK, Notified, Holds, CallerPosition

-----------------------------------------------------------------------------
(* The callers *)

\* The wait in getSession.
LEMMA WaitIInv ==
  ASSUME IInv, NEW c \in Callers, SpuriousWakeup(c) \/ GetSessionWaitAgain(c)
  PROVE  IInv'
<1>1. /\ cpc' \in {[cpc EXCEPT ![c] = "waiting"], [cpc EXCEPT ![c] = "woken"]}
      /\ cpc[c] \in {"waiting", "woken"}
      /\ UNCHANGED <<pool, objects, library, runloop, want, held, requests,
                     completionLock, mpc, crash>>
  BY DEF SpuriousWakeup, GetSessionWaitAgain
<1>2. TypeOK'
  <2>1. cpc' \in [Callers -> CallerPosition]
    BY <1>1 DEF IInv, TypeOK, CallerPosition
  <2> QED  BY <1>1, <2>1
              DEF IInv, TypeOK, CallerPosition, pool, objects, library, runloop
<1>3. Checkouts'
  <2>1. cpc \in [Callers -> CallerPosition]
    BY DEF IInv, TypeOK, CallerPosition
  <2>2. \A d \in Callers : /\ Holds(d)' <=> Holds(d)
                           /\ cpc[d]' # "idle" => cpc[d] # "idle"
    BY <1>1, <2>1 DEF Holds
  <2> QED  BY <1>1, <2>2 DEF IInv, TypeOK, Checkouts, pool, objects, library
<1>4. Offers' /\ Connections' /\ Runloop'
  BY <1>1, OffersFrame, ConnectionsFrame, RunloopFrame
     DEF IInv, pool, objects, library, runloop
<1> QED  BY <1>2, <1>3, <1>4 DEF IInv

\* getSession makes a new session.
LEMMA CreateIInv ==
  ASSUME IInv, NEW c \in Callers, NEW u \in Uris, GetSessionCreate(c, u)
  PROVE  IInv'
<1>1. PICK s \in Sessions : /\ uri[s] = NoUri
                            /\ uri' = [uri EXCEPT ![s] = u]
                            /\ pendingSessions' = pendingSessions \cup {s}
  BY DEF GetSessionCreate
<1>2. /\ cpc[c] = "idle"
      /\ requests[c] < MaxRequests
      /\ cpc' = [cpc EXCEPT ![c] = "waiting"]
      /\ want' = [want EXCEPT ![c] = u]
      /\ requests' = [requests EXCEPT ![c] = @ + 1]
      /\ UNCHANGED <<availableSessionsByUri, busySesssions, sessions,
                     sessionsBySession, session, library, runloop, held,
                     completionLock, mpc, crash>>
  BY DEF GetSessionCreate, MayCall
<1>3. TypeOK'
  <2>1. cpc' \in [Callers -> CallerPosition]
    BY <1>2 DEF IInv, TypeOK, CallerPosition
  <2>2. requests' \in [Callers -> 0 .. MaxRequests]
    BY <1>2, FactoryAssumption DEF IInv, TypeOK
  <2>3. /\ want' \in [Callers -> Uris \cup {NoUri}]
        /\ uri' \in [Sessions -> Uris \cup {NoUri}]
        /\ pendingSessions' \subseteq Sessions
    BY <1>1, <1>2 DEF IInv, TypeOK
  <2> QED  BY <1>2, <2>1, <2>2, <2>3
              DEF IInv, TypeOK, CallerPosition, library, runloop
<1>4. connection[s] = "none" /\ u # NoUri /\ NoUri \notin Uris
  BY <1>1, FactoryAssumption DEF IInv, TypeOK, Connections
<1>5. Checkouts'
  <2>1. ~Holds(c) /\ ~Holds(c)'
          /\ \A d \in Callers \ {c} : (Holds(d)' <=> Holds(d)) /\ cpc'[d] = cpc[d]
    BY <1>2 DEF IInv, TypeOK, Holds
  <2>2. \A t \in Sessions : uri[t] \in Uris => uri'[t] = uri[t]
    BY <1>1, <1>4 DEF IInv, TypeOK
  <2>3. want'[c] = u /\ \A d \in Callers \ {c} : want'[d] = want[d]
    BY <1>2 DEF IInv, TypeOK
  <2>4. \A d \in Callers : cpc'[d] # "idle" => want'[d] \in Uris
    BY <2>1, <2>3 DEF IInv, Checkouts
  <2>5. ASSUME NEW d \in Callers, Holds(d)'
        PROVE  /\ held[d] \in Sessions
               /\ session[held[d]] = d
               /\ uri'[held[d]] = want'[d]
               /\ held[d] \in busySesssions
    <3>1. Holds(d) /\ d # c /\ cpc[d] # "idle"
      BY <2>1, <2>5 DEF Holds
    <3>2. uri[held[d]] = want[d] /\ want[d] \in Uris /\ held[d] \in Sessions
      BY <3>1 DEF IInv, Checkouts
    <3> QED  BY <2>2, <2>3, <3>1, <3>2 DEF IInv, Checkouts
  <2>6. ASSUME NEW t \in Sessions, NEW d \in Callers, session[t] = d
        PROVE  /\ Holds(d)'
               /\ held[d] = t
               /\ connection[t] \in {"ready", "closed"}
    BY <2>1, <2>6 DEF IInv, Checkouts
  <2>7. ASSUME NEW d \in Callers, sessionsBySession[d] # NoSession
        PROVE  Holds(d)' /\ sessionsBySession[d] = held[d]
    BY <2>1, <2>7 DEF IInv, Checkouts
  <2>8. ASSUME NEW d \in Callers, Holds(d)', connection[held[d]] = "ready"
        PROVE  sessionsBySession[d] = held[d]
    BY <2>1, <2>8 DEF IInv, Checkouts
  <2> QED  BY <1>2, <2>4, <2>5, <2>6, <2>7, <2>8 DEF Checkouts, library
<1>6. Offers'
  <2>1. ASSUME NEW v \in Uris, NEW t \in availableSessionsByUri[v]
        PROVE  uri'[t] = v
    BY <1>1, <1>4 DEF IInv, TypeOK, Offers
  <2> QED  BY <1>2, <2>1 DEF IInv, Offers, library
<1>7. Connections'
  BY <1>1, <1>2, <1>4 DEF IInv, TypeOK, Connections, library
<1>8. Runloop'
  BY <1>1, <1>2 DEF IInv, Runloop, library, runloop
<1> QED  BY <1>3, <1>5, <1>6, <1>7, <1>8 DEF IInv

\* getSession finds a session.
LEMMA CheckOutIInv ==
  ASSUME IInv, NEW c \in Callers, NEW u \in Uris, NEW s \in Sessions,
         CheckOut(c, u, s), ~Holds(c),
         want' = [want EXCEPT ![c] = u],
         requests' \in [Callers -> 0 .. MaxRequests]
  PROVE  IInv'
<1>1. /\ s \in availableSessionsByUri[u]
      /\ session' = [session EXCEPT ![s] = c]
      /\ sessionsBySession' = [sessionsBySession EXCEPT ![c] = s]
      /\ availableSessionsByUri' =
           [availableSessionsByUri EXCEPT ![u] = @ \ {s}]
      /\ busySesssions' = busySesssions \cup {s}
      /\ held' = [held EXCEPT ![c] = s]
      /\ completionLock' = [completionLock EXCEPT ![c] = FALSE]
      /\ cpc' = [cpc EXCEPT ![c] = "holding"]
      /\ UNCHANGED <<pendingSessions, sessions, uri, library, runloop, mpc,
                     crash>>
  BY DEF CheckOut, Begin, AvailableWithout, BusyWith
<1>2. /\ uri[s] = u
      /\ session[s] = NoCaller
      /\ connection[s] \in {"ready", "closed"}
      /\ NoCaller \notin Callers
      /\ s # NoSession
  BY <1>1, FactoryAssumption DEF IInv, Offers
<1>3. TypeOK'
  <2>1. /\ cpc' \in [Callers -> CallerPosition]
        /\ want' \in [Callers -> Uris \cup {NoUri}]
        /\ held' \in [Callers -> Sessions \cup {NoSession}]
        /\ sessionsBySession' \in [Callers -> Sessions \cup {NoSession}]
        /\ completionLock' \in [Callers -> BOOLEAN]
    BY <1>1 DEF IInv, TypeOK, CallerPosition
  <2>2. /\ session' \in [Sessions -> Callers \cup {NoCaller}]
        /\ availableSessionsByUri' \in [Uris -> SUBSET Sessions]
        /\ busySesssions' \subseteq Sessions
    BY <1>1 DEF IInv, TypeOK
  <2> QED  BY <1>1, <2>1, <2>2
              DEF IInv, TypeOK, CallerPosition, library, runloop
<1>4. Checkouts'
  <2>0. \A d \in Callers \ {c} :
          /\ cpc'[d] = cpc[d] /\ want'[d] = want[d] /\ held'[d] = held[d]
          /\ sessionsBySession'[d] = sessionsBySession[d]
    BY <1>1 DEF IInv, TypeOK
  <2>1. \A d \in Callers \ {c} : Holds(d)' <=> Holds(d)
    BY <2>0 DEF Holds
  <2>2. Holds(c)' /\ cpc'[c] = "holding" /\ want'[c] = u /\ held'[c] = s
          /\ sessionsBySession'[c] = s
    BY <1>1 DEF IInv, TypeOK, Holds
  <2>3. session'[s] = c /\ \A t \in Sessions \ {s} : session'[t] = session[t]
    BY <1>1 DEF IInv, TypeOK
  <2>4. \A d \in Callers : Holds(d) => held[d] # s
    BY <1>2 DEF IInv, Checkouts
  <2>5. \A d \in Callers : cpc'[d] # "idle" => want'[d] \in Uris
    BY <2>0, <2>2 DEF IInv, Checkouts
  <2>6. ASSUME NEW d \in Callers, Holds(d)'
        PROVE  /\ held'[d] \in Sessions
               /\ session'[held'[d]] = d
               /\ uri[held'[d]] = want'[d]
               /\ held'[d] \in busySesssions'
    <3>1. CASE d = c
      BY <1>1, <1>2, <2>2, <2>3, <3>1
    <3>2. CASE d # c
      <4>1. Holds(d) /\ held'[d] = held[d] /\ want'[d] = want[d]
              /\ held[d] # s
        BY <2>0, <2>1, <2>4, <2>6, <3>2
      <4> QED  BY <1>1, <2>3, <4>1 DEF IInv, Checkouts
    <3> QED  BY <3>1, <3>2
  <2>7. ASSUME NEW t \in Sessions, NEW d \in Callers, session'[t] = d
        PROVE  /\ Holds(d)'
               /\ held'[d] = t
               /\ connection[t] \in {"ready", "closed"}
    <3>1. CASE t = s
      BY <1>2, <2>2, <2>3, <2>7, <3>1
    <3>2. CASE t # s
      <4>1. Holds(d) /\ held[d] = t /\ connection[t] \in {"ready", "closed"}
        BY <2>3, <2>7, <3>2 DEF IInv, Checkouts
      <4> QED  BY <2>0, <2>1, <4>1
    <3> QED  BY <3>1, <3>2
  <2>8. ASSUME NEW d \in Callers, sessionsBySession'[d] # NoSession
        PROVE  Holds(d)' /\ sessionsBySession'[d] = held'[d]
    BY <2>0, <2>1, <2>2, <2>8 DEF IInv, Checkouts
  <2>9. ASSUME NEW d \in Callers, Holds(d)', connection[held'[d]] = "ready"
        PROVE  sessionsBySession'[d] = held'[d]
    BY <2>0, <2>1, <2>2, <2>9 DEF IInv, Checkouts
  <2>10. UNCHANGED <<uri, connection>>
    BY <1>1 DEF library
  <2> QED  BY <2>5, <2>6, <2>7, <2>8, <2>9, <2>10 DEF Checkouts
<1>5. Offers'
  <2>1. ASSUME NEW v \in Uris, NEW t \in availableSessionsByUri'[v]
        PROVE  t \in availableSessionsByUri[v] /\ t # s
    BY <1>1, <1>2 DEF IInv, TypeOK, Offers
  <2>2. ASSUME NEW v \in Uris, NEW t \in availableSessionsByUri'[v]
        PROVE  session'[t] = NoCaller /\ uri[t] = v
                 /\ connection[t] \in {"ready", "closed"}
    BY <1>1, <2>1 DEF IInv, TypeOK, Offers
  <2> QED  BY <1>1, <2>2 DEF Offers, library
<1>6. Connections'
  BY <1>1, ConnectionsFrame DEF IInv, library
<1>7. Runloop'
  BY <1>1, RunloopFrame DEF IInv, library, runloop
<1> QED  BY <1>3, <1>4, <1>5, <1>6, <1>7 DEF IInv

LEMMA GetSessionIInv ==
  ASSUME IInv, NEW c \in Callers, NEW u \in Uris,
         GetSession(c, u) \/ GetSessionResume(c)
  PROVE  IInv'
<1>1. CASE GetSession(c, u)
  <2>1. PICK s \in Sessions : CheckOut(c, u, s)
    BY <1>1 DEF GetSession
  <2>2. ~Holds(c)
    BY <1>1 DEF GetSession, MayCall, Holds
  <2>3. requests' \in [Callers -> 0 .. MaxRequests]
    BY <1>1, FactoryAssumption DEF GetSession, MayCall, IInv, TypeOK
  <2> QED  BY <1>1, <2>1, <2>2, <2>3, CheckOutIInv DEF GetSession
<1>2. CASE GetSessionResume(c)
  <2>1. PICK s \in Sessions : CheckOut(c, want[c], s)
    BY <1>2 DEF GetSessionResume
  <2>2. ~Holds(c) /\ want[c] \in Uris
    BY <1>2 DEF GetSessionResume, Holds, IInv, Checkouts
  <2>3. /\ requests' \in [Callers -> 0 .. MaxRequests]
        /\ want' = [want EXCEPT ![c] = want[c]]
    BY <1>2 DEF GetSessionResume, IInv, TypeOK
  <2> QED  BY <2>1, <2>2, <2>3, CheckOutIInv
<1> QED  BY <1>1, <1>2

\* recognizeStream: the turn begins.
LEMMA RecognizeStreamIInv ==
  ASSUME IInv, NEW c \in Callers, RecognizeStream(c)
  PROVE  IInv'
<1>1. /\ cpc[c] = "holding"
      /\ cpc' = [cpc EXCEPT ![c] = "started"]
      /\ UNCHANGED <<pool, objects, connection, runloop, want, held, requests,
                     completionLock, mpc, crash>>
  BY DEF RecognizeStream
<1>2. held[c] \in Sessions
  BY <1>1 DEF IInv, Checkouts, Holds
<1>3. turn' \in [Sessions -> {"none", "active"}]
  BY <1>2 DEF RecognizeStream, IInv, TypeOK
<1>4. TypeOK'
  <2>1. cpc' \in [Callers -> CallerPosition]
    BY <1>1 DEF IInv, TypeOK, CallerPosition
  <2> QED  BY <1>1, <1>3, <2>1
              DEF IInv, TypeOK, CallerPosition, pool, objects, runloop
<1>5. Checkouts'
  <2>1. \A d \in Callers : /\ Holds(d)' <=> Holds(d)
                           /\ cpc'[d] # "idle" => cpc[d] # "idle"
    BY <1>1 DEF IInv, TypeOK, Holds
  <2> QED  BY <1>1, <2>1 DEF IInv, Checkouts, pool, objects
<1>6. Offers' /\ Connections' /\ Runloop'
  BY <1>1, OffersFrame, ConnectionsFrame, RunloopFrame
     DEF IInv, pool, objects, runloop
<1> QED  BY <1>4, <1>5, <1>6 DEF IInv

\* recognizeStream: completionLock is taken.
LEMMA LockCompletionIInv ==
  ASSUME IInv, NEW c \in Callers, LockCompletion(c)
  PROVE  IInv'
<1>1. /\ cpc[c] = "started"
      /\ cpc' = [cpc EXCEPT ![c] = "streaming"]
      /\ completionLock' = [completionLock EXCEPT ![c] = TRUE]
      /\ UNCHANGED <<pool, objects, library, runloop, want, held, requests,
                     mpc, crash>>
  BY DEF LockCompletion
<1>2. TypeOK'
  <2>1. /\ cpc' \in [Callers -> CallerPosition]
        /\ completionLock' \in [Callers -> BOOLEAN]
    BY <1>1 DEF IInv, TypeOK, CallerPosition
  <2> QED  BY <1>1, <2>1
              DEF IInv, TypeOK, CallerPosition, pool, objects, library, runloop
<1>3. Checkouts'
  <2>1. \A d \in Callers : /\ Holds(d)' <=> Holds(d)
                           /\ cpc'[d] # "idle" => cpc[d] # "idle"
    BY <1>1 DEF IInv, TypeOK, Holds
  <2> QED  BY <1>1, <2>1 DEF IInv, Checkouts, pool, objects, library
<1>4. Offers' /\ Connections' /\ Runloop'
  BY <1>1, OffersFrame, ConnectionsFrame, RunloopFrame
     DEF IInv, pool, objects, library, runloop
<1> QED  BY <1>2, <1>3, <1>4 DEF IInv

LEMMA PutSessionIInv ==
  ASSUME IInv, NEW c \in Callers, PutSession(c)
  PROVE  IInv'
<1> DEFINE s == sessionsBySession[c]
<1>1. /\ cpc[c] = "streaming"
      /\ s # NoSession
      /\ sessionsBySession' = BySessionWithout(c)
      /\ session' = [session EXCEPT ![s] = NoCaller]
      /\ availableSessionsByUri' =
           [availableSessionsByUri EXCEPT ![uri[s]] = @ \cup {s}]
      /\ cpc' = [Notified EXCEPT ![c] = "idle"]
      /\ held' = [held EXCEPT ![c] = NoSession]
      /\ UNCHANGED <<pendingSessions, busySesssions, sessions, uri, library,
                     runloop, want, requests, completionLock, mpc, crash>>
  BY DEF PutSession, Completed, AvailableWith
<1>2. /\ s = held[c] /\ s \in Sessions /\ session[s] = c
      /\ uri[s] \in Uris /\ connection[s] \in {"ready", "closed"}
  BY <1>1 DEF IInv, Checkouts, Holds
<1>3. /\ \A d \in Callers \ {c} :
           /\ sessionsBySession'[d] = sessionsBySession[d]
           /\ held'[d] = held[d]
           /\ Holds(d)' <=> Holds(d)
           /\ cpc'[d] # "idle" => cpc[d] # "idle"
      /\ sessionsBySession'[c] = NoSession
      /\ cpc'[c] = "idle"
      /\ ~Holds(c)'
  <2>1. cpc' \in [Callers -> CallerPosition] /\ cpc'[c] = "idle"
    BY <1>1, NotifiedFacts DEF IInv, CallerPosition
  <2>2. \A d \in Callers \ {c} : cpc'[d] = Notified[d]
    BY <1>1, NotifiedFacts DEF IInv
  <2>3. /\ \A d \in Callers \ {c} : held'[d] = held[d]
        /\ \A d \in Callers \ {c} : sessionsBySession'[d] = sessionsBySession[d]
        /\ sessionsBySession'[c] = NoSession
    BY <1>1 DEF IInv, TypeOK, BySessionWithout
  <2>4. \A d \in Callers \ {c} : /\ Holds(d)' <=> Holds(d)
                                 /\ cpc'[d] # "idle" => cpc[d] # "idle"
    BY <2>2, NotifiedFacts DEF IInv, Holds
  <2> QED  BY <2>1, <2>3, <2>4 DEF Holds
<1>4. session'[s] = NoCaller /\ \A t \in Sessions \ {s} : session'[t] = session[t]
  BY <1>1, <1>2 DEF IInv, TypeOK
<1>5. TypeOK'
  <2>1. /\ cpc' \in [Callers -> CallerPosition]
        /\ held' \in [Callers -> Sessions \cup {NoSession}]
    BY <1>1, NotifiedFacts DEF IInv, TypeOK, CallerPosition
  <2>2. /\ sessionsBySession' \in [Callers -> Sessions \cup {NoSession}]
        /\ session' \in [Sessions -> Callers \cup {NoCaller}]
        /\ availableSessionsByUri' \in [Uris -> SUBSET Sessions]
    BY <1>1, <1>2 DEF IInv, TypeOK, BySessionWithout
  <2> HIDE DEF s
  <2> QED  BY <1>1, <2>1, <2>2
              DEF IInv, TypeOK, CallerPosition, library, runloop
<1> HIDE DEF s
<1>6. Checkouts'
  <2>1. \A d \in Callers : cpc'[d] # "idle" => want'[d] \in Uris
    BY <1>1, <1>3 DEF IInv, Checkouts
  <2>2. ASSUME NEW d \in Callers, Holds(d)'
        PROVE  /\ held'[d] \in Sessions
               /\ session'[held'[d]] = d
               /\ uri[held'[d]] = want'[d]
               /\ held'[d] \in busySesssions'
    <3>1. d # c /\ Holds(d) /\ held'[d] = held[d]
      BY <1>3, <2>2
    <3>2. session[held[d]] = d /\ held[d] \in Sessions /\ held[d] # s
      BY <1>2, <3>1 DEF IInv, Checkouts
    <3> QED  BY <1>1, <1>4, <3>1, <3>2 DEF IInv, Checkouts
  <2>3. ASSUME NEW t \in Sessions, NEW d \in Callers, session'[t] = d
        PROVE  /\ Holds(d)'
               /\ held'[d] = t
               /\ connection[t] \in {"ready", "closed"}
    <3>1. t # s /\ session[t] = d
      BY <1>4, <2>3, FactoryAssumption
    <3>2. Holds(d) /\ held[d] = t /\ connection[t] \in {"ready", "closed"}
      BY <3>1 DEF IInv, Checkouts
    <3> QED  BY <1>2, <1>3, <3>1, <3>2
  <2>4. ASSUME NEW d \in Callers, sessionsBySession'[d] # NoSession
        PROVE  Holds(d)' /\ sessionsBySession'[d] = held'[d]
    BY <1>3, <2>4 DEF IInv, Checkouts
  <2>5. ASSUME NEW d \in Callers, Holds(d)', connection[held'[d]] = "ready"
        PROVE  sessionsBySession'[d] = held'[d]
    BY <1>3, <2>5 DEF IInv, Checkouts
  <2>6. UNCHANGED <<uri, connection>>
    BY <1>1 DEF library
  <2> QED  BY <2>1, <2>2, <2>3, <2>4, <2>5, <2>6 DEF Checkouts
<1>7. Offers'
  <2>1. ASSUME NEW v \in Uris, NEW t \in availableSessionsByUri'[v]
        PROVE  t \in Sessions /\ ((t = s /\ v = uri[s]) \/ t \in availableSessionsByUri[v])
    BY <1>1, <1>2 DEF IInv, TypeOK
  <2>2. ASSUME NEW v \in Uris, NEW t \in availableSessionsByUri'[v]
        PROVE  session'[t] = NoCaller /\ uri[t] = v
                 /\ connection[t] \in {"ready", "closed"}
    BY <1>2, <1>4, <2>1 DEF IInv, Offers
  <2> QED  BY <1>1, <2>2 DEF Offers, library
<1>8. Connections'
  BY <1>1, ConnectionsFrame DEF IInv, library
<1>9. Runloop'
  BY <1>1, RunloopFrame DEF IInv, library, runloop
<1> QED  BY <1>5, <1>6, <1>7, <1>8, <1>9 DEF IInv

-----------------------------------------------------------------------------
(* Connections *)

ConnectionState == {"none", "opening", "failed", "ready", "closed"}

LEMMA ConnectSucceedsIInv ==
  ASSUME IInv, ConnectSucceeds
  PROVE  IInv'
<1>1. /\ rpc = "connect"
      /\ rpc' = "erased"
      /\ mutexHeld' = TRUE
      /\ connection' = [connection EXCEPT ![current] = "opening"]
      /\ pendingSessions' = pendingSessions \ {current}
      /\ sessions' = sessions \cup {current}
      /\ UNCHANGED <<availableSessionsByUri, busySesssions, sessionsBySession,
                     objects, turn, terminateRunloop, runloopStarted, current,
                     callers, mpc, crash>>
  BY DEF ConnectSucceeds, PendingWithout
<1>2. /\ current \in Sessions
      /\ connection[current] = "none"
      /\ uri[current] \in Uris
  BY <1>1 DEF IInv, TypeOK, Runloop, Connections
<1>3. /\ connection' \in [Sessions -> ConnectionState]
      /\ connection'[current] = "opening"
      /\ \A t \in Sessions \ {current} : connection'[t] = connection[t]
  BY <1>1, <1>2 DEF IInv, TypeOK, ConnectionState
<1>4. TypeOK'
  BY <1>1, <1>2, <1>3 DEF IInv, TypeOK, ConnectionState, objects, callers
<1>5. Checkouts'
  <2>1. \A t \in Sessions, d \in Callers : session[t] = d => t # current
    BY <1>2 DEF IInv, Checkouts
  <2>2. \A d \in Callers : Holds(d) => held[d] # current /\ held[d] \in Sessions
    BY <1>2, <2>1 DEF IInv, Checkouts
  <2>3. \A d \in Callers : Holds(d)' <=> Holds(d)
    BY <1>1 DEF Holds, callers
  <2> QED  BY <1>1, <1>3, <2>1, <2>2, <2>3 DEF IInv, Checkouts, objects, callers
<1>6. Offers'
  <2>1. ASSUME NEW v \in Uris, NEW t \in availableSessionsByUri[v]
        PROVE  connection'[t] \in {"ready", "closed"}
    BY <1>2, <1>3 DEF IInv, TypeOK, Offers
  <2> QED  BY <1>1, <2>1 DEF IInv, Offers, objects
<1>7. Connections'
  <2>1. \A t \in pendingSessions' : connection'[t] = "none" /\ uri[t] \in Uris
    BY <1>1, <1>3 DEF IInv, TypeOK, Connections
  <2>2. \A t \in Sessions : connection'[t] # "none" => uri[t] \in Uris
    BY <1>2, <1>3 DEF IInv, Connections
  <2>3. \A t \in Sessions :
          connection'[t] \in {"opening", "failed", "ready"} => t \in sessions'
    BY <1>1, <1>2, <1>3 DEF IInv, Connections
  <2> QED  BY <1>1, <2>1, <2>2, <2>3 DEF IInv, Connections, objects
<1>8. Runloop'
  BY <1>1 DEF Runloop
<1> QED  BY <1>4, <1>5, <1>6, <1>7, <1>8 DEF IInv

LEMMA ClientReadyIInv ==
  ASSUME IInv, NEW s \in Sessions, ClientReady(s)
  PROVE  IInv'
<1>1. /\ rpc = "step"
      /\ connection[s] = "opening"
      /\ s \in sessions
      /\ connection' = [connection EXCEPT ![s] = "ready"]
      /\ availableSessionsByUri' =
           [availableSessionsByUri EXCEPT ![uri[s]] = @ \cup {s}]
      /\ cpc' = Notified
      /\ UNCHANGED <<pendingSessions, busySesssions, sessions,
                     sessionsBySession, objects, turn, runloop, want, held,
                     requests, completionLock, mpc, crash>>
  BY DEF ClientReady, AvailableWith
<1>2. uri[s] \in Uris /\ \A d \in Callers : session[s] # d
  BY <1>1 DEF IInv, Connections, Checkouts
<1>3. session[s] = NoCaller
  BY <1>2 DEF IInv, TypeOK
<1>4. /\ connection' \in [Sessions -> ConnectionState]
      /\ connection'[s] = "ready"
      /\ \A t \in Sessions \ {s} : connection'[t] = connection[t]
  BY <1>1 DEF IInv, TypeOK, ConnectionState
<1>5. /\ cpc' \in [Callers -> CallerPosition]
      /\ \A d \in Callers : /\ Holds(d)' <=> Holds(d)
                            /\ cpc'[d] # "idle" => cpc[d] # "idle"
  BY <1>1, NotifiedFacts DEF IInv, Holds
<1>6. TypeOK'
  <2>1. availableSessionsByUri' \in [Uris -> SUBSET Sessions]
    BY <1>1, <1>2 DEF IInv, TypeOK
  <2> QED  BY <1>1, <1>4, <1>5, <2>1
              DEF IInv, TypeOK, CallerPosition, ConnectionState, objects,
                  runloop
<1>7. Checkouts'
  <2>1. \A d \in Callers : Holds(d) => held[d] # s /\ held[d] \in Sessions
    BY <1>2 DEF IInv, Checkouts
  <2> QED  BY <1>1, <1>2, <1>4, <1>5, <2>1 DEF IInv, Checkouts, objects
<1>8. Offers'
  <2>1. ASSUME NEW v \in Uris, NEW t \in availableSessionsByUri'[v]
        PROVE  /\ t \in Sessions
               /\ (t = s /\ v = uri[s]) \/ t \in availableSessionsByUri[v]
    BY <1>1, <1>2 DEF IInv, TypeOK
  <2>2. ASSUME NEW v \in Uris, NEW t \in availableSessionsByUri'[v]
        PROVE  session[t] = NoCaller /\ uri[t] = v
                 /\ connection'[t] \in {"ready", "closed"}
    BY <1>3, <1>4, <2>1 DEF IInv, Offers
  <2> QED  BY <1>1, <2>2 DEF Offers, objects
<1>9. Connections' /\ Runloop'
  <2>1. \A t \in pendingSessions : t # s
    BY <1>1 DEF IInv, Connections
  <2> QED  BY <1>1, <1>2, <1>4, <2>1
              DEF IInv, TypeOK, Connections, Runloop, objects, runloop
<1> QED  BY <1>6, <1>7, <1>8, <1>9 DEF IInv

LEMMA TurnEndIInv ==
  ASSUME IInv, NEW s \in Sessions, TurnEnd(s)
  PROVE  IInv'
<1>1. /\ turn' = [turn EXCEPT ![s] = "none"]
      /\ completionLock' = [completionLock EXCEPT ![session[s]] = FALSE]
      /\ UNCHANGED <<pool, objects, connection, runloop, cpc, want, held,
                     requests, mpc, crash>>
  BY DEF TurnEnd
<1>2. /\ turn' \in [Sessions -> {"none", "active"}]
      /\ completionLock' \in [Callers -> BOOLEAN]
  BY <1>1 DEF IInv, TypeOK
<1>3. TypeOK'
  BY <1>1, <1>2 DEF IInv, TypeOK, pool, objects, runloop
<1>4. Checkouts' /\ Offers' /\ Connections' /\ Runloop'
  BY <1>1, CheckoutsFrame, OffersFrame, ConnectionsFrame, RunloopFrame
     DEF IInv, pool, objects, runloop
<1> QED  BY <1>3, <1>4 DEF IInv

\* A connection that fails or closes.
LEMMA ConnectionEndsIInv ==
  ASSUME IInv, NEW s \in Sessions, ConnectionError(s) \/ ConnectionClosed(s)
  PROVE  IInv'
<1>1. /\ connection[s] \in {"opening", "failed", "ready"}
      /\ s \in sessions
      /\ connection[s] = "ready" => connection'[s] = "closed"
      /\ connection' \in [Sessions -> ConnectionState]
      /\ connection'[s] \in {"failed", "closed"}
      /\ \A t \in Sessions \ {s} : connection'[t] = connection[t]
      /\ UNCHANGED <<pool, objects, turn, terminateRunloop, runloopStarted,
                     mutexHeld, callers, mpc, crash>>
  BY DEF ConnectionError, ConnectionClosed, runloop, IInv, TypeOK,
         ConnectionState
<1>2. \/ rpc' = "step" /\ current' = current
      \/ rpc' = "closeAvailable" /\ current' = s /\ connection'[s] = "closed"
  BY DEF ConnectionError, ConnectionClosed, runloop, IInv, TypeOK
<1>3. TypeOK'
  BY <1>1, <1>2 DEF IInv, TypeOK, ConnectionState, pool, objects, callers
<1>4. Checkouts'
  <2>1. \A d \in Callers : Holds(d)' <=> Holds(d)
    BY <1>1 DEF Holds, callers
  <2>2. \A d \in Callers : Holds(d) => held[d] \in Sessions
    BY DEF IInv, Checkouts
  <2>3. \A t \in Sessions : /\ connection'[t] = "ready" => connection[t] = "ready"
                            /\ connection[t] \in {"ready", "closed"} =>
                                 connection'[t] \in {"ready", "closed"}
    BY <1>1
  <2> QED  BY <1>1, <2>1, <2>2, <2>3
              DEF IInv, Checkouts, pool, objects, callers
<1>5. Offers'
  <2>1. \A v \in Uris : \A t \in availableSessionsByUri[v] :
          t \in Sessions /\ connection'[t] \in {"ready", "closed"}
    BY <1>1 DEF IInv, TypeOK, Offers
  <2> QED  BY <1>1, <2>1 DEF IInv, Offers, pool, objects
<1>6. Connections'
  <2>1. \A t \in pendingSessions : t \in Sessions \ {s}
    BY <1>1 DEF IInv, TypeOK, Connections
  <2> QED  BY <1>1, <2>1 DEF IInv, Connections, pool, objects
<1>7. Runloop'
  BY <1>2 DEF Runloop
<1> QED  BY <1>3, <1>4, <1>5, <1>6, <1>7 DEF IInv

\* The three erasures of connection_closed.
LEMMA CloseIInv ==
  ASSUME IInv, CloseAvailable \/ CloseBySession \/ CloseSession
  PROVE  IInv'
<1>1. current \in Sessions /\ connection[current] = "closed"
  BY DEF IInv, Runloop, CloseAvailable, CloseBySession, CloseSession
<1>2. CASE CloseAvailable
  <2>1. /\ rpc' = "closeBySession"
        /\ availableSessionsByUri' =
             [availableSessionsByUri EXCEPT ![uri[current]] = @ \ {current}]
        /\ UNCHANGED <<pendingSessions, busySesssions, sessions,
                       sessionsBySession, objects, library, terminateRunloop,
                       runloopStarted, mutexHeld, current, callers, mpc,
                       crash>>
    BY <1>2 DEF CloseAvailable, AvailableWithout
  <2>2. /\ availableSessionsByUri' \in [Uris -> SUBSET Sessions]
        /\ \A v \in Uris :
             availableSessionsByUri'[v] \subseteq availableSessionsByUri[v]
    BY <2>1 DEF IInv, TypeOK
  <2>3. TypeOK'
    BY <2>1, <2>2 DEF IInv, TypeOK, objects, library, callers
  <2>4. Offers' /\ Runloop'
    BY <1>1, <2>1, <2>2 DEF IInv, Offers, Runloop, objects, library
  <2>5. Checkouts' /\ Connections'
    BY <2>1, CheckoutsFrame, ConnectionsFrame
       DEF IInv, objects, library, callers
  <2> QED  BY <2>3, <2>4, <2>5 DEF IInv
<1>3. CASE CloseBySession
  <2>1. /\ rpc' = "closeSession"
        /\ sessionsBySession' =
             [d \in Callers |-> IF d = session[current] THEN NoSession
                                ELSE sessionsBySession[d]]
        /\ UNCHANGED <<availableSessionsByUri, pendingSessions, busySesssions,
                       sessions, objects, library, terminateRunloop,
                       runloopStarted, mutexHeld, current, callers, mpc,
                       crash>>
    BY <1>3 DEF CloseBySession, BySessionWithout
  <2>2. TypeOK'
    <3>1. sessionsBySession' \in [Callers -> Sessions \cup {NoSession}]
      BY <2>1 DEF IInv, TypeOK
    <3> QED  BY <2>1, <3>1 DEF IInv, TypeOK, objects, library, callers
  <2>3. Checkouts'
    <3>1. \A d \in Callers : /\ Holds(d)' <=> Holds(d)
                             /\ sessionsBySession'[d] # NoSession =>
                                  sessionsBySession'[d] = sessionsBySession[d]
      BY <2>1 DEF Holds, callers
    <3>2. ASSUME NEW d \in Callers, Holds(d), connection[held[d]] = "ready"
          PROVE  sessionsBySession'[d] = held[d]
      <4>1. session[current] # d
        BY <1>1, <3>2 DEF IInv, Checkouts
      <4> QED  BY <2>1, <3>2, <4>1 DEF IInv, Checkouts
    <3> QED  BY <2>1, <3>1, <3>2 DEF IInv, Checkouts, objects, library, callers
  <2>4. Offers' /\ Connections'
    BY <2>1, OffersFrame, ConnectionsFrame DEF IInv, objects, library
  <2>5. Runloop'
    BY <1>1, <2>1 DEF Runloop, library
  <2> QED  BY <2>2, <2>3, <2>4, <2>5 DEF IInv
<1>4. CASE CloseSession
  <2>1. /\ rpc' = "step"
        /\ sessions' = sessions \ {current}
        /\ current' = NoSession
        /\ UNCHANGED <<availableSessionsByUri, pendingSessions, busySesssions,
                       sessionsBySession, objects, library, terminateRunloop,
                       runloopStarted, mutexHeld, callers, mpc, crash>>
    BY <1>4 DEF CloseSession
  <2>2. TypeOK'
    BY <2>1 DEF IInv, TypeOK, objects, library, callers
  <2>3. Connections' /\ Runloop'
    BY <1>1, <2>1 DEF IInv, Connections, Runloop, objects, library
  <2>4. Checkouts' /\ Offers'
    BY <2>1, CheckoutsFrame, OffersFrame DEF IInv, objects, library, callers
  <2> QED  BY <2>2, <2>3, <2>4 DEF IInv
<1> QED  BY <1>2, <1>3, <1>4

-----------------------------------------------------------------------------
(* The theorems *)

\* Every step of the callers, the run loop, the library and the main thread
\* keeps the inductive invariant.
LEMMA NextIInv ==
  ASSUME IInv, [Next]_vars
  PROVE  IInv'
<1>1. ASSUME NEW c \in Callers, NEW u \in Uris,
             GetSession(c, u) \/ GetSessionCreate(c, u)
      PROVE  IInv'
  BY <1>1, GetSessionIInv, CreateIInv
<1>2. ASSUME NEW c \in Callers, SpuriousWakeup(c) \/ CallerStep(c)
      PROVE  IInv'
  <2>1. CASE SpuriousWakeup(c) \/ GetSessionWaitAgain(c)
    BY <2>1, WaitIInv
  <2>2. CASE GetSessionResume(c)
    <3>1. want[c] \in Uris
      BY <2>2 DEF IInv, Checkouts, GetSessionResume
    <3> QED  BY <2>2, <3>1, GetSessionIInv
  <2>3. CASE RecognizeStream(c)
    BY <2>3, RecognizeStreamIInv
  <2>6. CASE LockCompletion(c)
    BY <2>6, LockCompletionIInv
  <2>4. CASE PutSession(c)
    BY <2>4, PutSessionIInv
  <2>5. CASE PutSessionAsserts(c)
    BY <2>5, KillIInv DEF PutSessionAsserts
  <2> QED  BY <1>2, <2>1, <2>2, <2>3, <2>4, <2>5, <2>6 DEF CallerStep
<1>3. CASE RunloopStep
  <2>1. CASE RunloopStarts \/ RunloopTest
    BY <2>1, LifeIInv
  <2>2. CASE \/ StepReturns \/ NothingPending \/ SomePending \/ BeginLoop
             \/ ConnectFails \/ NextAfterErase
    BY <2>2, ProcessIInv
  <2>3. CASE ConnectSucceeds
    BY <2>3, ConnectSucceedsIInv
  <2>4. CASE LockTwice
    BY <2>4, KillIInv DEF LockTwice
  <2>5. CASE CloseAvailable \/ CloseBySession \/ CloseSession
    BY <2>5, CloseIInv
  <2> QED  BY <1>3, <2>1, <2>2, <2>3, <2>4, <2>5 DEF RunloopStep
<1>4. ASSUME NEW s \in Sessions, Callback(s)
      PROVE  IInv'
  BY <1>4, ClientReadyIInv, TurnEndIInv, ConnectionEndsIInv DEF Callback
<1>5. CASE ContainerRace \/ DestroyTooEarly
  BY <1>5, KillIInv DEF ContainerRace, DestroyTooEarly
<1>6. CASE Start \/ Destroy \/ Join
  BY <1>6, LifeIInv
<1>7. CASE UNCHANGED vars
  <2>1. TypeOK' /\ Runloop'
    BY <1>7 DEF IInv, TypeOK, Runloop, vars, pool, objects, library,
                runloop, callers
  <2> QED  BY <1>7, <2>1, PoolUnchanged DEF vars
<1> QED  BY <1>1, <1>2, <1>3, <1>4, <1>5, <1>6, <1>7 DEF Next, Service

\* The inductive invariant holds from the new factory on.
THEOREM Inductive == Spec => []IInv
<1>1. Init => IInv
  BY InitIInv
<1>2. IInv /\ [Next]_vars => IInv'
  BY NextIInv
<1> QED  BY <1>1, <1>2, PTL DEF Spec

\* The members of the factory, the objects and the threads keep their types.
THEOREM TypeCorrect == Spec => []TypeOK
<1>1. IInv => TypeOK
  BY DEF IInv
<1> QED  BY <1>1, Inductive, PTL

\* Who holds a session is the one it points to, and nobody is offered it.
LEMMA IInvExclusive ==
  ASSUME IInv
  PROVE  ExclusiveUse
<1> SUFFICES ASSUME NEW c \in Callers, Holds(c)
             PROVE  /\ session[held[c]] = c
                    /\ held[c] \notin Available
                    /\ \A d \in Callers \ {c} : Holds(d) => held[d] # held[c]
  BY DEF ExclusiveUse
<1>1. session[held[c]] = c /\ c # NoCaller
  BY FactoryAssumption DEF IInv, Checkouts
<1>2. held[c] \notin Available
  BY <1>1 DEF IInv, Offers, Available
<1>3. \A d \in Callers \ {c} : Holds(d) => held[d] # held[c]
  BY <1>1 DEF IInv, Checkouts
<1> QED  BY <1>1, <1>2, <1>3

\* getSession gives a session to one call at a time, and offers none that is
\* in use, whatever connections do in the meantime.
THEOREM SessionsAreExclusive == Spec => []ExclusiveUse
<1>1. IInv => ExclusiveUse
  BY IInvExclusive
<1> QED  BY <1>1, Inductive, PTL

\* getSession and putSession file every session under its own request URL,
\* and a call gets one of the URL it asked for.
THEOREM SessionsHaveTheirUri == Spec => []RightUri
<1>1. IInv => RightUri
  BY DEF IInv, Offers, Checkouts, RightUri
<1> QED  BY <1>1, Inductive, PTL

\* putSession's assertions hold for a call whose connection is still open.
THEOREM OpenSessionsReturn == Spec => []ReturnableWhileOpen
<1>1. IInv => ReturnableWhileOpen
  BY DEF IInv, Checkouts, ReturnableWhileOpen
<1> QED  BY <1>1, Inductive, PTL

-----------------------------------------------------------------------------
(* What is not lost: sessions, notifications and turns *)

\* An open connection is offered or in use, and a session without one is
\* pending.
Kept ==
  /\ \A s \in Sessions : connection[s] = "ready" =>
       s \in availableSessionsByUri[uri[s]] \/ session[s] # NoCaller
  /\ \A s \in Sessions : (connection[s] = "none" /\ uri[s] # NoUri) =>
       s \in pendingSessions

\* A caller in getSession's wait has seen to a session for its URL, and
\* sleeps only while none is available.
Waits ==
  \A c \in Callers :
    /\ cpc[c] \in {"waiting", "woken"} => \E s \in Sessions : uri[s] = want[c]
    /\ cpc[c] = "waiting" => availableSessionsByUri[want[c]] = {}

\* The run loop holds the mutex after a connect only, and then it has a
\* session that the library cannot have reported on yet.
Locked ==
  /\ mutexHeld => rpc \in {"erased", "connect"}
  /\ rpc = "erased" => current \in sessions /\ connection[current] = "opening"
  /\ (mutexHeld /\ rpc = "connect") =>
       \E s \in sessions \ {current} : connection[s] = "opening"

\* The run loop's life.
Life ==
  /\ mpc = "new" <=> rpc = "none"
  /\ mpc = "started" => ~terminateRunloop
  /\ runloopStarted <=> rpc \notin {"none", "starting", "exited"}
  /\ rpc = "exited" => terminateRunloop

Tracking == Kept /\ Waits /\ TurnsHoldTheirCalls /\ Locked /\ Life /\ CrashesHaveCauses

LEMMA InitTracking == Init => Tracking
<1> SUFFICES ASSUME Init PROVE Tracking
  OBVIOUS
<1>1. Kept /\ Waits /\ TurnsHoldTheirCalls
  BY DEF Init, Kept, Waits, TurnsHoldTheirCalls
<1>2. Locked /\ Life /\ CrashesHaveCauses
  BY DEF Init, Locked, Life, CrashesHaveCauses
<1> QED  BY <1>1, <1>2 DEF Tracking

\* What each part depends on.
LEMMA KeptFrame ==
  ASSUME Kept,
         UNCHANGED <<connection, availableSessionsByUri, uri, session,
                     pendingSessions>>
  PROVE  Kept'
BY DEF Kept

LEMMA WaitsFrame ==
  ASSUME Waits, UNCHANGED <<availableSessionsByUri, uri, cpc, want>>
  PROVE  Waits'
BY DEF Waits

LEMMA TurnsFrame ==
  ASSUME TurnsHoldTheirCalls, UNCHANGED <<cpc, held, session, turn, completionLock>>
  PROVE  TurnsHoldTheirCalls'
BY DEF TurnsHoldTheirCalls, Completed

LEMMA LockedFrame ==
  ASSUME Locked, UNCHANGED <<runloop, sessions, connection>>
  PROVE  Locked'
BY DEF Locked, runloop

LEMMA LifeFrame ==
  ASSUME Life, UNCHANGED <<runloop, mpc>>
  PROVE  Life'
BY DEF Life, runloop

\* As long as the process lives there is nothing to explain.
LEMMA AliveFrame ==
  ASSUME crash' = "none"
  PROVE  CrashesHaveCauses'
BY DEF CrashesHaveCauses

\* The process dies: only the cause is to be shown.
LEMMA KillTracking ==
  ASSUME Tracking, NEW reason, Kill(reason), CrashesHaveCauses'
  PROVE  Tracking'
<1>1. UNCHANGED <<pool, objects, library, runloop, callers, mpc>>
  BY DEF Kill
<1>2. Kept' /\ Waits' /\ TurnsHoldTheirCalls'
  BY <1>1, KeptFrame, WaitsFrame, TurnsFrame
     DEF Tracking, pool, objects, library, callers
<1>3. Locked' /\ Life'
  BY <1>1, LockedFrame, LifeFrame DEF Tracking, pool, library
<1> QED  BY <1>2, <1>3 DEF Tracking

LEMMA DeathsTracking ==
  ASSUME IInv, Tracking,
         \/ \E c \in Callers : PutSessionAsserts(c)
         \/ LockTwice
         \/ rpc = "erased" /\ Kill("iterator")
         \/ ContainerRace
         \/ DestroyTooEarly
  PROVE  Tracking'
<1>1. ASSUME NEW c \in Callers, PutSessionAsserts(c)
      PROVE  Tracking'
  <2>1. Kill("putSession") /\ Completed(c)
    BY <1>1 DEF PutSessionAsserts
  <2>2. Holds(c) /\ held[c] \in Sessions
    BY <2>1 DEF Completed, Holds, IInv, Checkouts
  <2>3. sessionsBySession[c] # held[c]
    BY <1>1, <2>2, FactoryAssumption DEF PutSessionAsserts, IInv, Checkouts
  <2>4. \E d \in Callers : session[held[c]] = d /\ connection[held[c]] = "closed"
    BY <2>2, <2>3 DEF IInv, Checkouts
  <2>5. CrashesHaveCauses'
    BY <2>1, <2>4 DEF CrashesHaveCauses, Kill, Completed, library, callers
  <2> QED  BY <2>1, <2>5, KillTracking
<1>2. CASE LockTwice
  <2>1. Kill("lock") /\ rpc = "connect" /\ mutexHeld
    BY <1>2 DEF LockTwice
  <2>2. /\ current \in pendingSessions
        /\ \E s \in sessions \ {current} : connection[s] = "opening"
    BY <2>1 DEF IInv, Runloop, Tracking, Locked
  <2>3. CrashesHaveCauses'
    BY <2>1, <2>2 DEF CrashesHaveCauses, Kill, pool, library, runloop
  <2> QED  BY <2>1, <2>3, KillTracking
<1>3. CASE Kill("iterator") \/ ContainerRace
  <2>1. PICK reason \in {"iterator", "race"} : Kill(reason)
    BY <1>3 DEF ContainerRace
  <2>2. CrashesHaveCauses'
    BY <2>1 DEF CrashesHaveCauses, Kill
  <2> QED  BY <2>1, <2>2, KillTracking
<1>4. CASE DestroyTooEarly
  <2>1. Kill("thread") /\ mpc = "started" /\ ~runloopStarted
    BY <1>4 DEF DestroyTooEarly
  <2>2. rpc = "starting"
    BY <2>1 DEF Tracking, Life
  <2>3. CrashesHaveCauses'
    BY <2>1, <2>2 DEF CrashesHaveCauses, Kill, runloop
  <2> QED  BY <2>1, <2>3, KillTracking
<1> QED  BY <1>1, <1>2, <1>3, <1>4

\* Moves of the run loop and the main thread that touch no session.
LEMMA MovesTracking ==
  ASSUME IInv, Tracking, crash = "none",
         \/ StepReturns
         \/ NothingPending
         \/ SomePending
         \/ BeginLoop
         \/ ConnectFails
         \/ NextAfterErase /\ ~(rpc = "erased" /\ Kill("iterator"))
         \/ RunloopStarts \/ RunloopTest \/ Start \/ Destroy \/ Join
  PROVE  Tracking'
<1>1. UNCHANGED <<pool, objects, library, callers, crash>>
  BY DEF StepReturns, NothingPending, SomePending, BeginLoop, ConnectFails,
         NextAfterErase, RunloopMove, RunloopStarts, RunloopTest, Start,
         Destroy, Join, runloop
<1>2. Kept' /\ Waits' /\ TurnsHoldTheirCalls' /\ CrashesHaveCauses'
  BY <1>1, KeptFrame, WaitsFrame, TurnsFrame, AliveFrame
     DEF Tracking, pool, objects, library, callers
<1>3. UNCHANGED <<sessions, connection, pendingSessions>>
  BY <1>1 DEF pool, library
<1>4. Locked'
  <2>1. CASE StepReturns \/ NothingPending \/ SomePending \/ BeginLoop
    <3>1. ~mutexHeld /\ ~mutexHeld' /\ rpc' # "erased"
      BY <2>1 DEF StepReturns, NothingPending, SomePending, BeginLoop,
                  RunloopMove, Tracking, Locked, IInv, TypeOK
    <3> QED  BY <3>1 DEF Locked
  <2>2. CASE RunloopStarts \/ RunloopTest \/ Start
    <3>1. ~mutexHeld /\ ~mutexHeld' /\ rpc' # "erased"
      BY <2>2 DEF RunloopStarts, RunloopTest, Start, Tracking, Locked, Life
    <3> QED  BY <3>1 DEF Locked
  <2>3. CASE Destroy \/ Join
    <3>1. UNCHANGED <<mutexHeld, rpc, current>>
      BY <2>3 DEF Destroy, Join, runloop
    <3> QED  BY <1>3, <3>1 DEF Tracking, Locked
  <2>4. CASE (ConnectFails \/ NextAfterErase) /\ rpc' = "loop"
    <3>1. ~mutexHeld'
      BY <2>4 DEF ConnectFails, NextAfterErase, RunloopMove, Kill, runloop
    <3> QED  BY <2>4, <3>1 DEF Locked
  <2>5. ASSUME NEW s \in pendingSessions, UNCHANGED mutexHeld,
               rpc \in {"connect", "erased"}, RunloopMove(rpc, "connect", s)
        PROVE  Locked'
    <3>1. rpc' = "connect" /\ current' = s /\ s \in Sessions
      BY <2>5 DEF RunloopMove, IInv, TypeOK
    <3>2. connection[s] = "none"
      BY DEF IInv, Connections
    <3>3. mutexHeld => \E t \in sessions : connection[t] = "opening"
      BY <2>5 DEF Tracking, Locked
    <3> QED  BY <1>3, <2>5, <3>1, <3>2, <3>3 DEF Locked
  <2>6. CASE ConnectFails /\ rpc' # "loop"
    <3>1. PICK s \in Sessions :
            /\ Begin({t \in pendingSessions : t > current}, s)
            /\ RunloopMove("connect", "connect", s)
            /\ UNCHANGED mutexHeld
      BY <2>6 DEF ConnectFails, RunloopMove
    <3>2. s \in pendingSessions /\ rpc = "connect"
      BY <3>1 DEF Begin, RunloopMove
    <3> QED  BY <2>5, <3>1, <3>2
  <2>7. CASE /\ NextAfterErase /\ ~(rpc = "erased" /\ Kill("iterator"))
             /\ rpc' # "loop"
    <3>1. PICK s \in pendingSessions :
            RunloopMove("erased", "connect", s) /\ UNCHANGED mutexHeld
      BY <2>7 DEF NextAfterErase, RunloopMove
    <3> QED  BY <2>5, <3>1 DEF RunloopMove
  <2> QED  BY <2>1, <2>2, <2>3, <2>4, <2>6, <2>7
<1>5. Life'
  <2>1. CASE RunloopStarts \/ RunloopTest \/ Start \/ Destroy \/ Join
    <3>0. Life /\ terminateRunloop \in BOOLEAN /\ runloopStarted \in BOOLEAN
      BY DEF Tracking, IInv, TypeOK
    <3>1. CASE RunloopStarts
      BY <3>0, <3>1 DEF RunloopStarts, Life
    <3>2. CASE RunloopTest
      <4>1. \/ terminateRunloop /\ rpc' = "exited" /\ ~runloopStarted'
            \/ ~terminateRunloop /\ rpc' = "step" /\ runloopStarted'
        <5>1. CASE terminateRunloop
          BY <3>2, <5>1 DEF RunloopTest
        <5>2. CASE ~terminateRunloop
          BY <3>2, <5>2 DEF RunloopTest
        <5> QED  BY <5>1, <5>2
      <4>2. rpc = "loop" /\ UNCHANGED <<mpc, terminateRunloop>>
        BY <3>2 DEF RunloopTest
      <4> QED  BY <3>0, <4>1, <4>2 DEF Life
    <3>3. CASE Start
      BY <3>0, <3>3 DEF Start, Life
    <3>4. CASE Destroy \/ Join
      <4>1. /\ mpc # "new" /\ mpc' \in {"joining", "destroyed"}
            /\ terminateRunloop' = TRUE \/ terminateRunloop' = terminateRunloop
            /\ UNCHANGED <<rpc, runloopStarted>>
        BY <3>4 DEF Destroy, Join, runloop
      <4> QED  BY <3>0, <4>1 DEF Life
    <3> QED  BY <2>1, <3>1, <3>2, <3>3, <3>4
  <2>2. CASE ~(RunloopStarts \/ RunloopTest \/ Start \/ Destroy \/ Join)
    <3>1. /\ rpc \notin {"none", "starting", "exited"}
          /\ rpc' \notin {"none", "starting", "exited"}
          /\ UNCHANGED <<mpc, terminateRunloop, runloopStarted>>
      BY <2>2 DEF StepReturns, NothingPending, SomePending, BeginLoop,
                  ConnectFails, NextAfterErase, RunloopMove
    <3> QED  BY <3>1 DEF Tracking, Life
  <2> QED  BY <2>1, <2>2
<1> QED  BY <1>2, <1>4, <1>5 DEF Tracking

\* A step of a caller that has no turn leaves the turns of the others alone.
LEMMA TurnsOthers ==
  ASSUME IInv, TurnsHoldTheirCalls, NEW c \in Callers, turn' = turn,
         ~(cpc[c] \in {"started", "streaming"} /\ ~Completed(c)),
         \A d \in Callers \ {c} :
           /\ cpc'[d] = cpc[d] /\ held'[d] = held[d]
           /\ completionLock'[d] = completionLock[d],
         \A s \in Sessions : session[s] \in Callers \ {c} =>
           session'[s] = session[s]
  PROVE  TurnsHoldTheirCalls'
<1> SUFFICES ASSUME NEW s \in Sessions, turn'[s] = "active"
             PROVE  \E d \in Callers :
                      /\ session'[s] = d
                      /\ held'[d] = s
                      /\ cpc'[d] \in {"started", "streaming"}
                      /\ ~Completed(d)'
  BY DEF TurnsHoldTheirCalls
<1>1. PICK d \in Callers : /\ session[s] = d
                           /\ held[d] = s
                           /\ cpc[d] \in {"started", "streaming"}
                           /\ ~Completed(d)
  BY DEF TurnsHoldTheirCalls
<1>2. d # c
  BY <1>1
<1> QED  BY <1>1, <1>2 DEF Completed

\* The wait in getSession, and a caller that makes a session of its own.
LEMMA WaitTracking ==
  ASSUME IInv, Tracking, crash = "none", NEW c \in Callers,
         \/ SpuriousWakeup(c)
         \/ GetSessionWaitAgain(c)
         \/ \E u \in Uris : GetSessionCreate(c, u)
  PROVE  Tracking'
<1>1. /\ UNCHANGED <<availableSessionsByUri, sessions, session, library,
                     runloop, held, completionLock, mpc, crash>>
      /\ cpc[c] \in {"idle", "waiting", "woken"}
      /\ cpc' \in {[cpc EXCEPT ![c] = "waiting"], [cpc EXCEPT ![c] = "woken"]}
  BY DEF SpuriousWakeup, GetSessionWaitAgain, GetSessionCreate, MayCall, pool,
         objects
<1>2. /\ \A d \in Callers \ {c} : cpc'[d] = cpc[d]
      /\ cpc'[c] \in {"waiting", "woken"}
  BY <1>1 DEF IInv, TypeOK
<1>3. TurnsHoldTheirCalls'
  BY <1>1, <1>2, TurnsOthers DEF Tracking, library
<1>4. Locked' /\ Life' /\ CrashesHaveCauses'
  BY <1>1, LockedFrame, LifeFrame, AliveFrame DEF Tracking, library
<1>5. CASE SpuriousWakeup(c) \/ GetSessionWaitAgain(c)
  <2>1. UNCHANGED <<pool, objects, want>> /\ cpc[c] \in {"waiting", "woken"}
    BY <1>5 DEF SpuriousWakeup, GetSessionWaitAgain
  <2>2. cpc'[c] = "waiting" => availableSessionsByUri[want[c]] = {}
    BY <1>5 DEF SpuriousWakeup, GetSessionWaitAgain, IInv, TypeOK
  <2>3. Kept'
    BY <1>1, <2>1, KeptFrame DEF Tracking, pool, objects, library
  <2>4. Waits'
    BY <1>2, <2>1, <2>2 DEF Tracking, Waits, pool, objects
  <2> QED  BY <1>3, <1>4, <2>3, <2>4 DEF Tracking
<1>6. ASSUME NEW u \in Uris, GetSessionCreate(c, u)
      PROVE  Tracking'
  <2>1. PICK s \in Sessions : /\ uri[s] = NoUri
                              /\ uri' = [uri EXCEPT ![s] = u]
                              /\ pendingSessions' = pendingSessions \cup {s}
    BY <1>6 DEF GetSessionCreate
  <2>2. /\ availableSessionsByUri[u] = {}
        /\ want' = [want EXCEPT ![c] = u]
    BY <1>6 DEF GetSessionCreate
  <2>3. /\ uri'[s] = u /\ \A t \in Sessions \ {s} : uri'[t] = uri[t]
        /\ want'[c] = u /\ \A d \in Callers \ {c} : want'[d] = want[d]
        /\ \A t \in Sessions : connection[t] # "none" => t # s
    BY <2>1, <2>2, FactoryAssumption DEF IInv, TypeOK, Connections
  <2>4. Kept'
    BY <1>1, <2>1, <2>3 DEF Tracking, Kept, library
  <2>5. Waits'
    <3>1. ASSUME NEW d \in Callers \ {c}, cpc[d] \in {"waiting", "woken"}
          PROVE  \E t \in Sessions : uri'[t] = want[d]
      <4>1. PICK t \in Sessions : uri[t] = want[d]
        BY <3>1 DEF Tracking, Waits
      <4>2. t # s
        BY <2>1, <3>1, <4>1, FactoryAssumption DEF IInv, Checkouts
      <4> QED  BY <2>3, <4>1, <4>2
    <3> QED  BY <1>1, <1>2, <2>2, <2>3, <3>1 DEF Tracking, Waits
  <2> QED  BY <1>3, <1>4, <2>4, <2>5 DEF Tracking
<1> QED  BY <1>5, <1>6

\* getSession takes the first session that is available.
LEMMA CheckOutTracking ==
  ASSUME IInv, Tracking, crash = "none", NEW c \in Callers, NEW u \in Uris,
         NEW s \in Sessions, CheckOut(c, u, s), ~Holds(c),
         \A d \in Callers \ {c} : want'[d] = want[d]
  PROVE  Tracking'
<1>1. /\ s \in availableSessionsByUri[u]
      /\ session' = [session EXCEPT ![s] = c]
      /\ availableSessionsByUri' = [availableSessionsByUri EXCEPT ![u] = @ \ {s}]
      /\ held' = [held EXCEPT ![c] = s]
      /\ completionLock' = [completionLock EXCEPT ![c] = FALSE]
      /\ cpc' = [cpc EXCEPT ![c] = "holding"]
      /\ UNCHANGED <<pendingSessions, sessions, uri, library, runloop, mpc,
                     crash>>
  BY DEF CheckOut, Begin, AvailableWithout
<1>2. /\ session'[s] # NoCaller
      /\ \A t \in Sessions \ {s} : session'[t] = session[t]
      /\ \A v \in Uris : availableSessionsByUri[v] \ {s} \subseteq availableSessionsByUri'[v]
      /\ \A v \in Uris : availableSessionsByUri'[v] \subseteq availableSessionsByUri[v]
      /\ \A d \in Callers \ {c} : cpc'[d] = cpc[d] /\ held'[d] = held[d]
      /\ cpc'[c] = "holding"
  BY <1>1, FactoryAssumption DEF IInv, TypeOK
<1>3. Kept'
  <2>1. \A t \in Sessions : connection[t] = "ready" => uri[t] \in Uris
    BY DEF IInv, Connections
  <2> QED  BY <1>1, <1>2, <2>1 DEF Tracking, Kept, library
<1>4. Waits'
  <2>1. \A d \in Callers : cpc[d] = "waiting" => want[d] \in Uris
    BY DEF IInv, Checkouts
  <2>2. ASSUME NEW d \in Callers, cpc'[d] \in {"waiting", "woken"}
        PROVE  /\ \E t \in Sessions : uri[t] = want'[d]
               /\ cpc'[d] = "waiting" => availableSessionsByUri'[want'[d]] = {}
    <3>1. d # c /\ cpc[d] = cpc'[d] /\ want'[d] = want[d]
      BY <1>2, <2>2
    <3>2. \E t \in Sessions : uri[t] = want[d]
      BY <2>2, <3>1 DEF Tracking, Waits
    <3>3. cpc[d] = "waiting" =>
            want[d] \in Uris /\ availableSessionsByUri[want[d]] = {}
      BY <2>1 DEF Tracking, Waits
    <3> QED  BY <1>2, <3>1, <3>2, <3>3
  <2> QED  BY <1>1, <2>2 DEF Waits
<1>5. TurnsHoldTheirCalls'
  <2>1. session[s] = NoCaller /\ NoCaller \notin Callers
    BY <1>1, FactoryAssumption DEF IInv, Offers
  <2>2. \A d \in Callers \ {c} : completionLock'[d] = completionLock[d]
    BY <1>1 DEF IInv, TypeOK
  <2>3. cpc[c] \notin {"started", "streaming"}
    BY DEF Holds
  <2> QED  BY <1>1, <1>2, <2>1, <2>2, <2>3, TurnsOthers DEF Tracking, library
<1>6. Locked' /\ Life' /\ CrashesHaveCauses'
  BY <1>1, LockedFrame, LifeFrame, AliveFrame DEF Tracking, library
<1> QED  BY <1>3, <1>4, <1>5, <1>6 DEF Tracking

LEMMA GetSessionTracking ==
  ASSUME IInv, Tracking, crash = "none", NEW c \in Callers,
         (\E u \in Uris : GetSession(c, u)) \/ GetSessionResume(c)
  PROVE  Tracking'
<1>1. ASSUME NEW u \in Uris, GetSession(c, u)
      PROVE  Tracking'
  <2>1. PICK s \in Sessions : CheckOut(c, u, s)
    BY <1>1 DEF GetSession
  <2>2. ~Holds(c) /\ \A d \in Callers \ {c} : want'[d] = want[d]
    BY <1>1 DEF GetSession, MayCall, Holds, IInv, TypeOK
  <2> QED  BY <2>1, <2>2, CheckOutTracking
<1>2. CASE GetSessionResume(c)
  <2>1. PICK s \in Sessions : CheckOut(c, want[c], s)
    BY <1>2 DEF GetSessionResume
  <2>2. ~Holds(c) /\ want[c] \in Uris /\ want' = want
    BY <1>2 DEF GetSessionResume, Holds, IInv, Checkouts
  <2> QED  BY <2>1, <2>2, CheckOutTracking
<1> QED  BY <1>1, <1>2

\* recognizeStream begins the turn that the caller will wait for.
LEMMA RecognizeTracking ==
  ASSUME IInv, Tracking, crash = "none", NEW c \in Callers, RecognizeStream(c)
  PROVE  Tracking'
<1>1. /\ cpc[c] = "holding"
      /\ cpc' = [cpc EXCEPT ![c] = "started"]
      /\ turn' = [turn EXCEPT ![held[c]] =
                    IF connection[held[c]] = "ready" THEN "active" ELSE "none"]
      /\ UNCHANGED <<pool, objects, connection, runloop, want, held,
                     completionLock, mpc, crash>>
  BY DEF RecognizeStream
<1>2. Holds(c) /\ held[c] \in Sessions /\ session[held[c]] = c
  BY <1>1 DEF Holds, IInv, Checkouts
<1>3. cpc'[c] = "started" /\ \A d \in Callers \ {c} : cpc'[d] = cpc[d]
  BY <1>1 DEF IInv, TypeOK
<1>4. TurnsHoldTheirCalls'
  <2>1. CASE UNCHANGED turn
    <3>1. cpc[c] \notin {"started", "streaming"} /\ UNCHANGED session
      BY <1>1 DEF objects
    <3> QED  BY <1>1, <1>3, <2>1, <3>1, TurnsOthers DEF Tracking
  <2>2. ASSUME NEW s \in Sessions, turn'[s] = "active"
        PROVE  \E d \in Callers :
                 /\ session[s] = d
                 /\ held[d] = s
                 /\ cpc'[d] \in {"started", "streaming"}
                 /\ ~Completed(d)'
    <3>1. CASE s = held[c]
      BY <1>2, <1>3, <3>1 DEF Completed
    <3>2. CASE s # held[c]
      <4>1. turn[s] = "active"
        BY <1>1, <2>2, <3>2 DEF IInv, TypeOK
      <4>2. PICK d \in Callers : /\ session[s] = d
                                 /\ held[d] = s
                                 /\ cpc[d] \in {"started", "streaming"}
                                 /\ ~Completed(d)
        BY <4>1 DEF Tracking, TurnsHoldTheirCalls
      <4>3. d # c
        BY <3>2, <4>2
      <4> QED  BY <1>1, <1>3, <4>2, <4>3 DEF Completed
    <3> QED  BY <3>1, <3>2
  <2> QED  BY <1>1, <2>2 DEF TurnsHoldTheirCalls, objects
<1>5. Waits'
  BY <1>1, <1>3 DEF Tracking, Waits, pool, objects
<1>6. Kept' /\ Locked' /\ Life' /\ CrashesHaveCauses'
  BY <1>1, KeptFrame, LockedFrame, LifeFrame, AliveFrame
     DEF Tracking, pool, objects
<1> QED  BY <1>4, <1>5, <1>6 DEF Tracking

\* recognizeStream takes the lock that the end of the turn will release.
LEMMA LockTracking ==
  ASSUME IInv, Tracking, crash = "none", NEW c \in Callers, LockCompletion(c)
  PROVE  Tracking'
<1>1. /\ cpc[c] = "started"
      /\ cpc' = [cpc EXCEPT ![c] = "streaming"]
      /\ completionLock' = [completionLock EXCEPT ![c] = TRUE]
      /\ UNCHANGED <<pool, objects, library, runloop, want, held, mpc, crash>>
  BY DEF LockCompletion
<1>2. /\ cpc'[c] = "streaming" /\ completionLock'[c]
      /\ \A d \in Callers \ {c} :
           cpc'[d] = cpc[d] /\ completionLock'[d] = completionLock[d]
  BY <1>1 DEF IInv, TypeOK
<1>3. TurnsHoldTheirCalls'
  <2>1. ASSUME NEW d \in Callers, cpc[d] \in {"started", "streaming"},
               ~Completed(d)
        PROVE  cpc'[d] \in {"started", "streaming"} /\ ~Completed(d)'
    BY <1>2, <2>1 DEF Completed
  <2> QED  BY <1>1, <2>1 DEF Tracking, TurnsHoldTheirCalls, objects, library
<1>4. Waits'
  BY <1>1, <1>2 DEF Tracking, Waits, pool, objects
<1>5. Kept' /\ Locked' /\ Life' /\ CrashesHaveCauses'
  BY <1>1, KeptFrame, LockedFrame, LifeFrame, AliveFrame
     DEF Tracking, pool, objects, library
<1> QED  BY <1>3, <1>4, <1>5 DEF Tracking

\* notify_all leaves nobody asleep.
LEMMA NotifiedWakes ==
  ASSUME TypeOK, Waits, NEW c \in Callers
  PROVE  /\ Notified[c] # "waiting"
         /\ Notified[c] \in {"waiting", "woken"} =>
              \E s \in Sessions : uri[s] = want[c]
         /\ Notified[c] \in {"started", "streaming"} => Notified[c] = cpc[c]
         /\ cpc[c] \in {"started", "streaming"} => Notified[c] = cpc[c]
BY DEF TypeOK, Waits, Notified

\* putSession offers the session again and wakes those who wait for one.
LEMMA PutSessionTracking ==
  ASSUME IInv, Tracking, crash = "none", NEW c \in Callers, PutSession(c)
  PROVE  Tracking'
<1> DEFINE s == sessionsBySession[c]
<1>1. /\ cpc[c] = "streaming"
      /\ s # NoSession
      /\ session' = [session EXCEPT ![s] = NoCaller]
      /\ availableSessionsByUri' =
           [availableSessionsByUri EXCEPT ![uri[s]] = @ \cup {s}]
      /\ cpc' = [Notified EXCEPT ![c] = "idle"]
      /\ held' = [held EXCEPT ![c] = NoSession]
      /\ ~completionLock[c]
      /\ UNCHANGED <<pendingSessions, sessions, uri, library, runloop, want,
                     completionLock, mpc, crash>>
  BY DEF PutSession, Completed, AvailableWith
<1>2. s \in Sessions /\ uri[s] \in Uris /\ session[s] = c
  BY <1>1 DEF IInv, Checkouts, Holds
<1> HIDE DEF s
<1>3. /\ \A t \in Sessions \ {s} : session'[t] = session[t]
      /\ s \in availableSessionsByUri'[uri[s]]
      /\ \A v \in Uris : availableSessionsByUri[v] \subseteq availableSessionsByUri'[v]
      /\ \A d \in Callers \ {c} : cpc'[d] = Notified[d] /\ held'[d] = held[d]
      /\ cpc'[c] = "idle"
  BY <1>1, <1>2, NotifiedFacts DEF IInv, TypeOK
<1>4. Kept'
  <2>1. \A t \in Sessions : connection[t] = "ready" => uri[t] \in Uris
    BY DEF IInv, Connections
  <2> QED  BY <1>1, <1>2, <1>3, <2>1 DEF Tracking, Kept, library
<1>5. Waits'
  <2>1. \A d \in Callers \ {c} :
          /\ cpc'[d] # "waiting"
          /\ cpc'[d] \in {"waiting", "woken"} => \E t \in Sessions : uri[t] = want[d]
    BY <1>3, NotifiedWakes DEF IInv, Tracking
  <2> QED  BY <1>1, <1>3, <2>1 DEF Waits
<1>6. TurnsHoldTheirCalls'
  <2> SUFFICES ASSUME NEW t \in Sessions, turn[t] = "active"
               PROVE  \E d \in Callers :
                        /\ session'[t] = d
                        /\ held'[d] = t
                        /\ cpc'[d] \in {"started", "streaming"}
                        /\ ~Completed(d)'
    BY <1>1 DEF TurnsHoldTheirCalls, library
  <2>1. PICK d \in Callers : /\ session[t] = d
                             /\ held[d] = t
                             /\ cpc[d] \in {"started", "streaming"}
                             /\ ~Completed(d)
    BY DEF Tracking, TurnsHoldTheirCalls
  <2>2. d # c /\ t # s
    BY <1>1, <1>2, <2>1 DEF Completed
  <2>3. cpc'[d] = cpc[d]
    BY <1>3, <2>1, <2>2, NotifiedWakes DEF IInv, Tracking
  <2> QED  BY <1>1, <1>3, <2>1, <2>2, <2>3 DEF Completed
<1>7. Locked' /\ Life' /\ CrashesHaveCauses'
  BY <1>1, LockedFrame, LifeFrame, AliveFrame DEF Tracking, library
<1> QED  BY <1>4, <1>5, <1>6, <1>7 DEF Tracking

\* The run loop has connected a session.
LEMMA ConnectTracking ==
  ASSUME IInv, Tracking, crash = "none", ConnectSucceeds
  PROVE  Tracking'
<1>1. /\ rpc = "connect"
      /\ rpc' = "erased"
      /\ mutexHeld' = TRUE
      /\ connection' = [connection EXCEPT ![current] = "opening"]
      /\ pendingSessions' = pendingSessions \ {current}
      /\ sessions' = sessions \cup {current}
      /\ UNCHANGED <<availableSessionsByUri, objects, turn, terminateRunloop,
                     runloopStarted, current, callers, mpc, crash>>
  BY DEF ConnectSucceeds, PendingWithout
<1>2. /\ current \in Sessions
      /\ connection'[current] = "opening"
      /\ \A t \in Sessions \ {current} : connection'[t] = connection[t]
  BY <1>1 DEF IInv, TypeOK, Runloop
<1>3. Kept'
  BY <1>1, <1>2 DEF Tracking, Kept, objects
<1>4. Waits'
  BY <1>1, WaitsFrame DEF Tracking, objects, callers
<1>5. TurnsHoldTheirCalls'
  BY <1>1, TurnsFrame DEF Tracking, objects, callers
<1>6. Locked' /\ Life'
  BY <1>1, <1>2 DEF Tracking, Locked, Life
<1>7. CrashesHaveCauses'
  BY <1>1, AliveFrame
<1> QED  BY <1>3, <1>4, <1>5, <1>6, <1>7 DEF Tracking

\* client_ready, turn_end, connection_error and the first half of
\* connection_closed.
LEMMA CallbackTracking ==
  ASSUME IInv, Tracking, crash = "none", NEW s \in Sessions, Callback(s)
  PROVE  Tracking'
<1>1. /\ rpc = "step" /\ rpc' \in {"step", "closeAvailable"}
      /\ UNCHANGED <<pendingSessions, sessions, objects, terminateRunloop,
                     runloopStarted, mutexHeld, want, held, mpc, crash>>
  BY DEF Callback, ClientReady, TurnEnd, ConnectionError, ConnectionClosed,
         pool, runloop, callers
<1>2. Locked' /\ Life' /\ CrashesHaveCauses'
  <2>1. ~mutexHeld
    BY <1>1 DEF Tracking, Locked
  <2> QED  BY <1>1, <2>1, AliveFrame DEF Tracking, Locked, Life
<1>4. CASE ClientReady(s)
  <2>1. /\ connection[s] = "opening"
        /\ connection' = [connection EXCEPT ![s] = "ready"]
        /\ availableSessionsByUri' =
             [availableSessionsByUri EXCEPT ![uri[s]] = @ \cup {s}]
        /\ cpc' = Notified
        /\ UNCHANGED <<turn, completionLock>>
    BY <1>4 DEF ClientReady, AvailableWith
  <2>2. uri[s] \in Uris
    BY <2>1 DEF IInv, Connections
  <2>3. /\ connection'[s] = "ready"
        /\ \A t \in Sessions \ {s} : connection'[t] = connection[t]
        /\ s \in availableSessionsByUri'[uri[s]]
        /\ \A v \in Uris : availableSessionsByUri[v] \subseteq availableSessionsByUri'[v]
    BY <2>1, <2>2 DEF IInv, TypeOK
  <2>4. Kept'
    <3>1. \A t \in Sessions : connection[t] = "ready" => uri[t] \in Uris
      BY DEF IInv, Connections
    <3> QED  BY <1>1, <2>2, <2>3, <3>1 DEF Tracking, Kept, objects
  <2>5. Waits'
    BY <1>1, <2>1, NotifiedWakes DEF IInv, Tracking, Waits, objects
  <2>6. TurnsHoldTheirCalls'
    <3>1. ASSUME NEW d \in Callers, cpc[d] \in {"started", "streaming"},
                 ~Completed(d)
          PROVE  cpc'[d] \in {"started", "streaming"} /\ ~Completed(d)'
      BY <2>1, <3>1, NotifiedWakes DEF IInv, Tracking, Completed
    <3> QED  BY <1>1, <2>1, <3>1 DEF Tracking, TurnsHoldTheirCalls, objects
  <2> QED  BY <1>2, <2>4, <2>5, <2>6 DEF Tracking
<1>5. CASE TurnEnd(s)
  <2>1. /\ turn' = [turn EXCEPT ![s] = "none"]
        /\ completionLock' = [completionLock EXCEPT ![session[s]] = FALSE]
        /\ UNCHANGED <<pool, objects, connection, cpc, want, held>>
    BY <1>5 DEF TurnEnd
  <2>2. Kept' /\ Waits'
    BY <2>1, KeptFrame, WaitsFrame DEF Tracking, pool, objects
  <2>3. TurnsHoldTheirCalls'
    <3>1. ASSUME NEW t \in Sessions, turn'[t] = "active"
          PROVE  \E d \in Callers :
                   /\ session[t] = d
                   /\ held[d] = t
                   /\ cpc[d] \in {"started", "streaming"}
                   /\ ~Completed(d)'
      <4>1. t # s /\ turn[t] = "active"
        BY <2>1, <3>1 DEF IInv, TypeOK
      <4>2. PICK d \in Callers : /\ session[t] = d
                                 /\ held[d] = t
                                 /\ cpc[d] \in {"started", "streaming"}
                                 /\ ~Completed(d)
        BY <4>1 DEF Tracking, TurnsHoldTheirCalls
      <4>3. session[s] # d
        BY <4>1, <4>2 DEF IInv, Checkouts
      <4>4. completionLock'[d] = completionLock[d] /\ cpc' = cpc
        BY <2>1, <4>3 DEF IInv, TypeOK
      <4> QED  BY <4>2, <4>4 DEF Completed
    <3> QED  BY <2>1, <3>1 DEF TurnsHoldTheirCalls, objects
  <2> QED  BY <1>2, <2>2, <2>3 DEF Tracking
<1>6. CASE ConnectionError(s) \/ ConnectionClosed(s)
  <2>1. /\ UNCHANGED <<pool, objects, turn, callers>>
        /\ connection'[s] \in {"failed", "closed"}
        /\ \A t \in Sessions \ {s} : connection'[t] = connection[t]
    BY <1>6 DEF ConnectionError, ConnectionClosed, IInv, TypeOK
  <2>2. Kept'
    BY <2>1 DEF Tracking, Kept, pool, objects
  <2>3. Waits'
    BY <2>1, WaitsFrame DEF Tracking, pool, objects, callers
  <2>4. TurnsHoldTheirCalls'
    BY <2>1, TurnsFrame DEF Tracking, objects, callers
  <2> QED  BY <1>2, <2>2, <2>3, <2>4 DEF Tracking
<1> QED  BY <1>4, <1>5, <1>6 DEF Callback

\* The three erasures of connection_closed.
LEMMA CloseTracking ==
  ASSUME IInv, Tracking, crash = "none",
         CloseAvailable \/ CloseBySession \/ CloseSession
  PROVE  Tracking'
<1>1. /\ rpc \in {"closeAvailable", "closeBySession", "closeSession"}
      /\ rpc' \in {"closeBySession", "closeSession", "step"}
      /\ UNCHANGED <<pendingSessions, objects, library, terminateRunloop,
                     runloopStarted, mutexHeld, callers, mpc, crash>>
  BY DEF CloseAvailable, CloseBySession, CloseSession
<1>2. current \in Sessions /\ connection[current] = "closed"
  BY <1>1 DEF IInv, Runloop
<1>3. Locked' /\ Life' /\ CrashesHaveCauses'
  <2>1. ~mutexHeld
    BY <1>1 DEF Tracking, Locked
  <2> QED  BY <1>1, <2>1, AliveFrame DEF Tracking, Locked, Life
<1>4. TurnsHoldTheirCalls'
  BY <1>1, TurnsFrame DEF Tracking, objects, library, callers
<1>5. \A v \in Uris : /\ availableSessionsByUri'[v] \subseteq availableSessionsByUri[v]
                      /\ availableSessionsByUri[v] \ {current}
                           \subseteq availableSessionsByUri'[v]
  BY DEF CloseAvailable, CloseBySession, CloseSession, AvailableWithout, IInv,
         TypeOK
<1>6. Kept'
  <2>1. \A t \in Sessions : connection[t] = "ready" => uri[t] \in Uris /\ t # current
    BY <1>2 DEF IInv, Connections
  <2> QED  BY <1>1, <1>5, <2>1 DEF Tracking, Kept, objects, library
<1>7. Waits'
  <2>1. \A d \in Callers : cpc[d] = "waiting" => want[d] \in Uris
    BY DEF IInv, Checkouts
  <2> QED  BY <1>1, <1>5, <2>1 DEF Tracking, Waits, objects, callers
<1> QED  BY <1>3, <1>4, <1>6, <1>7 DEF Tracking

LEMMA NextTracking ==
  ASSUME IInv, Tracking, [Next]_vars
  PROVE  Tracking'
<1>1. CASE UNCHANGED vars
  <2>1. UNCHANGED <<pool, objects, library, runloop, callers, mpc, crash>>
    BY <1>1 DEF vars
  <2>2. Kept' /\ Waits' /\ TurnsHoldTheirCalls' /\ Locked' /\ Life'
    BY <2>1, KeptFrame, WaitsFrame, TurnsFrame, LockedFrame, LifeFrame
       DEF Tracking, pool, objects, library, callers
  <2>3. CrashesHaveCauses'
    BY <2>1 DEF Tracking, CrashesHaveCauses, Completed, pool, library, runloop,
                callers
  <2> QED  BY <2>2, <2>3 DEF Tracking
<1>2. CASE Next
  <2>1. crash = "none"
    BY <1>2 DEF Next
  <2>2. ASSUME NEW c \in Callers, NEW u \in Uris,
               GetSession(c, u) \/ GetSessionCreate(c, u)
        PROVE  Tracking'
    BY <2>1, <2>2, GetSessionTracking, WaitTracking
  <2>3. ASSUME NEW c \in Callers, SpuriousWakeup(c) \/ CallerStep(c)
        PROVE  Tracking'
    BY <2>1, <2>3, WaitTracking, GetSessionTracking, RecognizeTracking,
       LockTracking, PutSessionTracking, DeathsTracking DEF CallerStep
  <2>4. ASSUME NEW s \in Sessions, Callback(s)
        PROVE  Tracking'
    BY <2>1, <2>4, CallbackTracking
  <2>5. CASE RunloopStep
    BY <2>1, <2>5, MovesTracking, ConnectTracking, CloseTracking,
       DeathsTracking DEF RunloopStep
  <2>6. CASE ContainerRace \/ DestroyTooEarly \/ Start \/ Destroy \/ Join
    BY <2>1, <2>6, MovesTracking, DeathsTracking
  <2> QED  BY <1>2, <2>2, <2>3, <2>4, <2>5, <2>6 DEF Next, Service
<1> QED  BY <1>1, <1>2

LEMMA TrackingInductive == Spec => [](IInv /\ Tracking)
<1>1. Init => IInv /\ Tracking
  BY InitIInv, InitTracking
<1>2. IInv /\ Tracking /\ [Next]_vars => IInv' /\ Tracking'
  BY NextIInv, NextTracking
<1> QED  BY <1>1, <1>2, PTL DEF Spec

\* A caller sleeps in getSession only while there is nothing for it, and it
\* has not been forgotten: whatever client_ready, putSession and other
\* callers do, its notification is not lost.
LEMMA TrackingProvides ==
  ASSUME IInv, Tracking
  PROVE  WaitersAreProvided
<1> SUFFICES ASSUME NEW c \in Callers, cpc[c] = "waiting"
             PROVE  /\ availableSessionsByUri[want[c]] = {}
                    /\ \E s \in Sessions :
                         /\ uri[s] = want[c]
                         /\ \/ s \in pendingSessions
                            \/ session[s] # NoCaller
                            \/ connection[s] \in {"opening", "failed", "closed"}
  BY DEF WaitersAreProvided
<1>1. availableSessionsByUri[want[c]] = {}
  BY DEF Tracking, Waits
<1>2. PICK s \in Sessions : uri[s] = want[c]
  BY DEF Tracking, Waits
<1>3. uri[s] # NoUri
  BY <1>2, FactoryAssumption DEF IInv, Checkouts
<1>4. connection[s] \in {"none", "opening", "failed", "ready", "closed"}
  BY DEF IInv, TypeOK
<1> QED  BY <1>1, <1>2, <1>3, <1>4 DEF Tracking, Kept

\* No notification of client_ready or putSession is lost.
THEOREM WaitersHaveASession == Spec => []WaitersAreProvided
<1>1. IInv /\ Tracking => WaitersAreProvided
  BY TrackingProvides
<1> QED  BY <1>1, TrackingInductive, PTL

\* No open connection leaks out of the factory.
THEOREM OpenSessionsStay == Spec => []OpenSessionsAreKept
<1>1. IInv /\ Tracking => OpenSessionsAreKept
  BY DEF IInv, Connections, Tracking, Kept, OpenSessionsAreKept, Available
<1> QED  BY <1>1, TrackingInductive, PTL

\* While a turn runs, the call that has started it keeps its session and does
\* not get past waitForCompletion, so that no other call is given the
\* connection before the run loop has seen the end of the turn.
THEOREM TurnsStayWithCalls == Spec => []TurnsHoldTheirCalls
<1>1. IInv /\ Tracking => TurnsHoldTheirCalls
  BY DEF Tracking
<1> QED  BY <1>1, TrackingInductive, PTL

\* The assertions at the beginning of the library's callbacks never fail: a
\* running turn has its call, and that has the session checked out.
THEOREM CallbacksFindTheirSession == Spec => []CallbacksAssert
<1>1. IInv /\ Tracking => CallbacksAssert
  <2> SUFFICES ASSUME IInv, Tracking PROVE CallbacksAssert
    OBVIOUS
  <2>1. ASSUME NEW s \in Sessions, turn[s] = "active"
        PROVE  s \in busySesssions /\ session[s] # NoCaller
    <3>1. PICK c \in Callers : session[s] = c
      BY <2>1 DEF Tracking, TurnsHoldTheirCalls
    <3>2. Holds(c) /\ held[c] = s
      BY <3>1 DEF IInv, Checkouts
    <3> QED  BY <3>1, <3>2, FactoryAssumption DEF IInv, Checkouts
  <2> QED  BY <2>1 DEF IInv, Connections, CallbacksAssert
<1> QED  BY <1>1, TrackingInductive, PTL

\* putSession's assertions, the run loop's lock and the destructor fail for
\* the stated causes only.
THEOREM CrashesAreExplained == Spec => []CrashesHaveCauses
<1>1. IInv /\ Tracking => CrashesHaveCauses
  BY DEF Tracking
<1> QED  BY <1>1, TrackingInductive, PTL

=============================================================================
