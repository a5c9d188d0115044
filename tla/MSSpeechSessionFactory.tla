----------------------- MODULE MSSpeechSessionFactory -----------------------
(***************************************************************************)
(* MSSpeechSessionFactory (src/src/msspeechsessionfactory.h, .cpp): the    *)
(* pool of connections to the speech service.                              *)
(*                                                                         *)
(* gRPC threads (Callers) check a session out with getSession, run a turn  *)
(* on it and give it back with putSession.  The run loop thread connects   *)
(* the pending sessions and runs the library's callbacks.  The main thread *)
(* starts and destroys the factory.                                        *)
(*                                                                         *)
(* A RecognitionSession is the address of its object: std::set orders its  *)
(* elements by it, and a new object may get any free address.  The         *)
(* MSSpeechSession that a checkout creates is named by the caller it is    *)
(* created for, as a caller has one at a time.  requestId, checkedOut and  *)
(* checkoutTime are set and cleared with RecognitionSession::session and   *)
(* read by nothing but log messages.                                       *)
(*                                                                         *)
(* The critical sections of the callers are single steps; mutexHeld says   *)
(* that the run loop owns the mutex between two of its own steps.          *)
(***************************************************************************)
EXTENDS Integers

CONSTANTS
  Callers,              \* gRPC threads
  Uris,                 \* request URLs
  Sessions,             \* bound: addresses of RecognitionSession objects
  MaxRequests,          \* bound: getSession calls of a caller
  ConnectionsMayClose,  \* whether the service or the network closes them
  NoCaller, NoUri       \* a null session pointer, an unused address

NoSession == 0

ASSUME FactoryAssumption ==
  /\ Sessions \subseteq Nat \ {NoSession}
  /\ MaxRequests \in Nat
  /\ ConnectionsMayClose \in BOOLEAN
  /\ NoCaller \notin Callers
  /\ NoUri \notin Uris

VARIABLES
  \* the factory
  availableSessionsByUri, pendingSessions, busySesssions, sessions,
  sessionsBySession, terminateRunloop, runloopStarted, mutexHeld,
  \* RecognitionSession::uri and ::session, by address
  uri, session,
  \* the library: connections and turns, by address of their session
  connection, turn,
  \* the run loop thread: where it is and the session it is dealing with
  rpc, current,
  \* the callers: where they are, the URL and the session of their call
  cpc, want, held, requests,
  \* MSSpeechSession::completionLock, by the caller that has the object
  completionLock,
  mpc,     \* the main thread
  crash    \* why the process was killed, or "none"

pool == <<availableSessionsByUri, pendingSessions, busySesssions, sessions,
          sessionsBySession>>
objects == <<uri, session>>
library == <<connection, turn>>
runloop == <<terminateRunloop, runloopStarted, mutexHeld, rpc, current>>
callers == <<cpc, want, held, requests, completionLock>>

vars == <<pool, objects, library, runloop, callers, mpc, crash>>

Init ==
  /\ availableSessionsByUri = [u \in Uris |-> {}]
  /\ pendingSessions = {}
  /\ busySesssions = {}
  /\ sessions = {}
  /\ sessionsBySession = [c \in Callers |-> NoSession]
  /\ terminateRunloop \in BOOLEAN
  /\ runloopStarted = FALSE
  /\ mutexHeld = FALSE
  /\ uri = [s \in Sessions |-> NoUri]
  /\ session = [s \in Sessions |-> NoCaller]
  /\ connection = [s \in Sessions |-> "none"]
  /\ turn = [s \in Sessions |-> "none"]
  /\ rpc = "none"
  /\ current = NoSession
  /\ cpc = [c \in Callers |-> "idle"]
  /\ want = [c \in Callers |-> NoUri]
  /\ held = [c \in Callers |-> NoSession]
  /\ requests = [c \in Callers |-> 0]
  /\ completionLock = [c \in Callers |-> FALSE]
  /\ mpc = "new"
  /\ crash = "none"

\* *set.begin()
Begin(S, s) == s \in S /\ \A t \in S : s <= t

\* Faulty variant: nobody is notified.
NotNotified == cpc

\* sessionCondition.notify_all()
Notified == [c \in Callers |-> IF cpc[c] = "waiting" THEN "woken" ELSE cpc[c]]

\* Faulty variant: the session is filed under every URL.
AvailableEverywhere(s) == [u \in Uris |-> availableSessionsByUri[u] \cup {s}]

\* Faulty variant: the session is not made available.
AvailableAsBefore(s) == availableSessionsByUri

\* availableSessionsByUri[s->uri].insert(s)
AvailableWith(s) == [availableSessionsByUri EXCEPT ![uri[s]] = @ \cup {s}]

\* Faulty variant: the session stays available.
StillAvailable(u, s) == availableSessionsByUri

\* availableSessionsByUri[u].erase(s)
AvailableWithout(u, s) == [availableSessionsByUri EXCEPT ![u] = @ \ {s}]

\* Faulty variant: the session is erased instead of inserted.
BusyLess(s) == busySesssions \ {s}

\* busySesssions.insert(s)
BusyWith(s) == busySesssions \cup {s}

\* Faulty variant: the entries of all calls are erased.
NoneBySession(c) == [d \in Callers |-> NoSession]

\* sessionsBySession.erase(session); the session may be null.
BySessionWithout(c) ==
  [d \in Callers |-> IF d = c THEN NoSession ELSE sessionsBySession[d]]

\* Faulty variant: the session stays pending.
StillPending(s) == pendingSessions

\* pendingSessions.erase(s)
PendingWithout(s) == pendingSessions \ {s}

Kill(reason) ==
  /\ crash' = reason
  /\ UNCHANGED <<pool, objects, library, runloop, callers, mpc>>

-----------------------------------------------------------------------------
(* The callers: getSession *)

\* The end of getSession: the first session available for the URL is
\* wrapped in a new MSSpeechSession and moved to the busy ones.
CheckOut(c, u, s) ==
  /\ Begin(availableSessionsByUri[u], s)
  /\ session' = [session EXCEPT ![s] = c]
  /\ sessionsBySession' = [sessionsBySession EXCEPT ![c] = s]
  /\ availableSessionsByUri' = AvailableWithout(u, s)
  /\ busySesssions' = BusyWith(s)
  /\ held' = [held EXCEPT ![c] = s]
  /\ completionLock' = [completionLock EXCEPT ![c] = FALSE]
  /\ cpc' = [cpc EXCEPT ![c] = "holding"]
  /\ UNCHANGED <<pendingSessions, sessions, uri, library, runloop, mpc, crash>>

\* The service is up and the caller may call getSession.
MayCall(c) ==
  /\ mpc = "started"
  /\ cpc[c] = "idle"
  /\ requests[c] < MaxRequests
  /\ ~mutexHeld

GetSession(c, u) ==
  /\ MayCall(c)
  /\ \E s \in Sessions : CheckOut(c, u, s)
  /\ want' = [want EXCEPT ![c] = u]
  /\ requests' = [requests EXCEPT ![c] = @ + 1]

\* createNewSession.  maxSessions is stored and never looked at, so that it is
\* no constant of the module.
GetSessionCreate(c, u) ==
  /\ MayCall(c)
  /\ availableSessionsByUri[u] = {}
  /\ \E s \in Sessions :
       /\ uri[s] = NoUri
       /\ uri' = [uri EXCEPT ![s] = u]
       /\ pendingSessions' = pendingSessions \cup {s}
  /\ cpc' = [cpc EXCEPT ![c] = "waiting"]
  /\ want' = [want EXCEPT ![c] = u]
  /\ requests' = [requests EXCEPT ![c] = @ + 1]
  /\ UNCHANGED <<availableSessionsByUri, busySesssions, sessions,
                 sessionsBySession, session, library, runloop, held,
                 completionLock, mpc, crash>>

GetSessionResume(c) ==
  /\ cpc[c] = "woken"
  /\ ~mutexHeld
  /\ \E s \in Sessions : CheckOut(c, want[c], s)
  /\ UNCHANGED <<want, requests>>

GetSessionWaitAgain(c) ==
  /\ cpc[c] = "woken"
  /\ ~mutexHeld
  /\ availableSessionsByUri[want[c]] = {}
  /\ cpc' = [cpc EXCEPT ![c] = "waiting"]
  /\ UNCHANGED <<pool, objects, library, runloop, want, held, requests,
                 completionLock, mpc, crash>>

SpuriousWakeup(c) ==
  /\ cpc[c] = "waiting"
  /\ cpc' = [cpc EXCEPT ![c] = "woken"]
  /\ UNCHANGED <<pool, objects, library, runloop, want, held, requests,
                 completionLock, mpc, crash>>

-----------------------------------------------------------------------------
(* The callers: the turn and putSession *)

\* MSSpeechSession::recognizeStream starts the turn; on a closed connection
\* none begins.
RecognizeStream(c) ==
  /\ cpc[c] = "holding"
  /\ cpc' = [cpc EXCEPT ![c] = "started"]
  /\ turn' = [turn EXCEPT ![held[c]] =
                IF connection[held[c]] = "ready" THEN "active" ELSE "none"]
  /\ UNCHANGED <<pool, objects, connection, runloop, want, held, requests,
                 completionLock, mpc, crash>>

\* Faulty variant: completionLock is not taken.
LockForgotten(c) ==
  /\ cpc[c] = "started"
  /\ cpc' = [cpc EXCEPT ![c] = "streaming"]
  /\ UNCHANGED <<pool, objects, library, runloop, want, held, requests,
                 completionLock, mpc, crash>>

\* recognizeStream takes completionLock, for the end of the turn to release:
\* a turn that has ended by then releases nothing.
LockCompletion(c) ==
  /\ cpc[c] = "started"
  /\ ~completionLock[c]
  /\ completionLock' = [completionLock EXCEPT ![c] = TRUE]
  /\ cpc' = [cpc EXCEPT ![c] = "streaming"]
  /\ UNCHANGED <<pool, objects, library, runloop, want, held, requests, mpc,
                 crash>>

\* MSSpeechSession::waitForCompletion gets completionLock and returns; its
\* object is not used again.
Completed(c) == cpc[c] = "streaming" /\ ~completionLock[c]

PutSession(c) ==
  LET s == sessionsBySession[c]
  IN /\ Completed(c)
     /\ ~mutexHeld
     /\ s # NoSession
     /\ s \in busySesssions
     /\ sessionsBySession' = BySessionWithout(c)
     /\ session' = [session EXCEPT ![s] = NoCaller]
     /\ availableSessionsByUri' = AvailableWith(s)
     /\ cpc' = [Notified EXCEPT ![c] = "idle"]
     /\ held' = [held EXCEPT ![c] = NoSession]
     /\ UNCHANGED <<pendingSessions, busySesssions, sessions, uri, library,
                    runloop, want, requests, completionLock, mpc, crash>>

\* One of putSession's assertions fails.
PutSessionAsserts(c) ==
  /\ Completed(c)
  /\ ~mutexHeld
  /\ \/ sessionsBySession[c] = NoSession
     \/ sessionsBySession[c] \notin busySesssions
  /\ Kill("putSession")

-----------------------------------------------------------------------------
(* The run loop: processPendingSessions *)

RunloopMove(from, to, s) ==
  /\ rpc = from
  /\ rpc' = to
  /\ current' = s
  /\ UNCHANGED <<pool, objects, library, terminateRunloop, runloopStarted,
                 callers, mpc, crash>>

\* ms_speech_service_step returns: something happened, it was cancelled, or
\* its timeout has expired.
StepReturns == RunloopMove("step", "process", NoSession) /\ UNCHANGED mutexHeld

\* The pending sessions are looked at under the mutex; the loop over them
\* runs without it, and over the live set instead of the copy made of it.
NothingPending ==
  /\ pendingSessions = {}
  /\ RunloopMove("process", "loop", NoSession)
  /\ UNCHANGED mutexHeld

SomePending ==
  /\ pendingSessions # {}
  /\ RunloopMove("process", "begin", NoSession)
  /\ UNCHANGED mutexHeld

BeginLoop ==
  /\ \E s \in Sessions :
       /\ Begin(pendingSessions, s)
       /\ RunloopMove("begin", "connect", s)
  /\ UNCHANGED mutexHeld

\* Faulty variant: the loop does not stop at the end of the set.
ConnectFailsBlindly ==
  /\ RunloopMove("connect", "connect", current + 1)
  /\ UNCHANGED mutexHeld

\* ms_speech_connect fails: the session stays pending and the loop goes on
\* to the next one, or to its end.
ConnectFails ==
  /\ \/ \E s \in Sessions :
          /\ Begin({t \in pendingSessions : t > current}, s)
          /\ RunloopMove("connect", "connect", s)
          /\ UNCHANGED mutexHeld
     \/ /\ \A t \in pendingSessions : t <= current
        /\ RunloopMove("connect", "loop", NoSession)
        /\ mutexHeld' = FALSE

\* ms_speech_connect succeeds: the mutex is taken, until the function
\* returns, and the session moves from the pending to the connected ones.
ConnectSucceeds ==
  /\ rpc = "connect"
  /\ ~mutexHeld
  /\ rpc' = "erased"
  /\ mutexHeld' = TRUE
  /\ connection' = [connection EXCEPT ![current] = "opening"]
  /\ pendingSessions' = PendingWithout(current)
  /\ sessions' = sessions \cup {current}
  /\ UNCHANGED <<availableSessionsByUri, busySesssions, sessionsBySession,
                 objects, turn, terminateRunloop, runloopStarted, current,
                 callers, mpc, crash>>

\* A unique_lock that owns its mutex throws when it is locked again, and
\* nothing in the thread catches it.
LockTwice ==
  /\ rpc = "connect"
  /\ mutexHeld
  /\ Kill("lock")

\* The loop increments an iterator whose element has been erased: it may
\* find the end, any element of the set, or memory that is not a node.
NextAfterErase ==
  \/ /\ RunloopMove("erased", "loop", NoSession)
     /\ mutexHeld' = FALSE
  \/ /\ \E s \in pendingSessions : RunloopMove("erased", "connect", s)
     /\ UNCHANGED mutexHeld
  \/ rpc = "erased" /\ Kill("iterator")

-----------------------------------------------------------------------------
(* The run loop: callbacks of the library, within ms_speech_service_step.  *)
(* The assertions at their beginning are conjuncts here; CallbacksAssert   *)
(* states that they hold.                                                  *)

\* msspeech_client_ready, once per connection.
ClientReady(s) ==
  /\ rpc = "step"
  /\ connection[s] = "opening"
  /\ s \in sessions
  /\ connection' = [connection EXCEPT ![s] = "ready"]
  /\ availableSessionsByUri' = AvailableWith(s)
  /\ cpc' = Notified
  /\ UNCHANGED <<pendingSessions, busySesssions, sessions, sessionsBySession,
                 objects, turn, runloop, want, held, requests, completionLock,
                 mpc, crash>>


\* msspeech_turn_end, and msspeechTurnEnd, which unlocks completionLock.  The
\* messages before it change nothing of the pool.
TurnEnd(s) ==
  /\ rpc = "step"
  /\ connection[s] = "ready"
  /\ turn[s] = "active"
  /\ s \in busySesssions
  /\ session[s] # NoCaller
  /\ turn' = [turn EXCEPT ![s] = "none"]
  /\ completionLock' = [completionLock EXCEPT ![session[s]] = FALSE]
  /\ UNCHANGED <<pool, objects, connection, runloop, cpc, want, held, requests,
                 mpc, crash>>

\* msspeech_connection_error: logged, and nothing else.
ConnectionError(s) ==
  /\ ConnectionsMayClose
  /\ rpc = "step"
  /\ connection[s] = "opening"
  /\ s \in sessions
  /\ connection' = [connection EXCEPT ![s] = "failed"]
  /\ UNCHANGED <<pool, objects, turn, runloop, callers, mpc, crash>>

\* msspeech_connection_closed: the assertion runs under the mutex, the three
\* erasures without it.
ConnectionClosed(s) ==
  /\ ConnectionsMayClose
  /\ connection[s] \in {"opening", "failed", "ready"}
  /\ s \in sessions
  /\ rpc = "step"
  /\ rpc' = "closeAvailable"
  /\ current' = s
  /\ connection' = [connection EXCEPT ![s] = "closed"]
  /\ UNCHANGED <<pool, objects, turn, terminateRunloop, runloopStarted,
                 mutexHeld, callers, mpc, crash>>

CloseAvailable ==
  /\ rpc = "closeAvailable"
  /\ rpc' = "closeBySession"
  /\ availableSessionsByUri' = AvailableWithout(uri[current], current)
  /\ UNCHANGED <<pendingSessions, busySesssions, sessions, sessionsBySession,
                 objects, library, terminateRunloop, runloopStarted,
                 mutexHeld, current, callers, mpc, crash>>

\* Faulty variant: the session of the call that uses the connection is
\* reset with it.
CloseBySessionResets ==
  /\ rpc = "closeBySession"
  /\ rpc' = "closeSession"
  /\ sessionsBySession' = BySessionWithout(session[current])
  /\ session' = [session EXCEPT ![current] = NoCaller]
  /\ UNCHANGED <<availableSessionsByUri, pendingSessions, busySesssions,
                 sessions, uri, library, terminateRunloop, runloopStarted,
                 mutexHeld, current, callers, mpc, crash>>

CloseBySession ==
  /\ rpc = "closeBySession"
  /\ rpc' = "closeSession"
  /\ sessionsBySession' = BySessionWithout(session[current])
  /\ UNCHANGED <<availableSessionsByUri, pendingSessions, busySesssions,
                 sessions, objects, library, terminateRunloop,
                 runloopStarted, mutexHeld, current, callers, mpc, crash>>

CloseSession ==
  /\ rpc = "closeSession"
  /\ rpc' = "step"
  /\ sessions' = sessions \ {current}
  /\ current' = NoSession
  /\ UNCHANGED <<availableSessionsByUri, pendingSessions, busySesssions,
                 sessionsBySession, objects, library, terminateRunloop,
                 runloopStarted, mutexHeld, callers, mpc, crash>>

\* The run loop is in a container without the mutex while a caller is about
\* to enter the same one: the container may be corrupted.
ContainerRace ==
  /\ \/ /\ rpc \in {"begin", "connect"}
        /\ ~mutexHeld
        /\ \E c \in Callers, u \in Uris :
             MayCall(c) /\ availableSessionsByUri[u] = {}
     \/ /\ rpc \in {"closeAvailable", "closeBySession"}
        /\ \E c \in Callers :
             MayCall(c) \/ Completed(c) \/ cpc[c] = "woken"
  /\ Kill("race")

-----------------------------------------------------------------------------
(* The main thread and the run loop's life *)

Start ==
  /\ mpc = "new"
  /\ mpc' = "started"
  /\ terminateRunloop' = FALSE
  /\ rpc' = "starting"
  /\ UNCHANGED <<pool, objects, library, runloopStarted, mutexHeld, current,
                 callers, crash>>

RunloopStarts ==
  /\ rpc = "starting"
  /\ rpc' = "loop"
  /\ runloopStarted' = TRUE
  /\ UNCHANGED <<pool, objects, library, terminateRunloop, mutexHeld, current,
                 callers, mpc, crash>>

RunloopTest ==
  /\ rpc = "loop"
  /\ rpc' = IF terminateRunloop THEN "exited" ELSE "step"
  /\ runloopStarted' = ~terminateRunloop
  /\ UNCHANGED <<pool, objects, library, terminateRunloop, mutexHeld, current,
                 callers, mpc, crash>>

\* Faulty variant: the run loop is not told to terminate.
DestroyWithoutStop ==
  /\ mpc = "started"
  /\ \A c \in Callers : cpc[c] = "idle"
  /\ runloopStarted
  /\ mpc' = "joining"
  /\ UNCHANGED <<pool, objects, library, runloop, callers, crash>>

\* The destructor, when the server is gone and no call is left: it stops
\* the run loop if it finds that it has started.
Destroy ==
  /\ mpc = "started"
  /\ \A c \in Callers : cpc[c] = "idle"
  /\ runloopStarted
  /\ mpc' = "joining"
  /\ terminateRunloop' = TRUE
  /\ UNCHANGED <<pool, objects, library, runloopStarted, mutexHeld, rpc,
                 current, callers, crash>>

\* Otherwise it destroys a thread that was not joined.
DestroyTooEarly ==
  /\ mpc = "started"
  /\ \A c \in Callers : cpc[c] = "idle"
  /\ ~runloopStarted
  /\ Kill("thread")

Join ==
  /\ mpc = "joining"
  /\ rpc = "exited"
  /\ mpc' = "destroyed"
  /\ UNCHANGED <<pool, objects, library, runloop, callers, crash>>

-----------------------------------------------------------------------------

CallerStep(c) ==
  \/ GetSessionResume(c)
  \/ GetSessionWaitAgain(c)
  \/ RecognizeStream(c)
  \/ LockCompletion(c)
  \/ PutSession(c)
  \/ PutSessionAsserts(c)

RunloopStep ==
  \/ RunloopStarts
  \/ RunloopTest
  \/ StepReturns
  \/ NothingPending
  \/ SomePending
  \/ BeginLoop
  \/ ConnectFails
  \/ ConnectSucceeds
  \/ LockTwice
  \/ NextAfterErase
  \/ CloseAvailable
  \/ CloseBySession
  \/ CloseSession

Callback(s) ==
  \/ ClientReady(s)
  \/ TurnEnd(s)
  \/ ConnectionError(s)
  \/ ConnectionClosed(s)

\* Calls, the callbacks they bring about, and the destructor after them.
Service ==
  \/ \E c \in Callers, u \in Uris : GetSession(c, u) \/ GetSessionCreate(c, u)
  \/ \E c \in Callers : SpuriousWakeup(c) \/ CallerStep(c)
  \/ \E s \in Sessions : Callback(s)
  \/ ContainerRace
  \/ Destroy
  \/ DestroyTooEarly
  \/ Join

\* Nothing moves in a process that was killed.
Next ==
  /\ crash = "none"
  /\ \/ Service
     \/ RunloopStep
     \/ Start

Spec == Init /\ [][Next]_vars

\* The threads keep running, and ms_speech_connect and the handshake after it
\* do not fail for ever.  Strong fairness, because the run loop passes through
\* the steps that the library acts in over and over.  Nobody is obliged to
\* call, to end a turn or to destroy.
Fairness ==
  /\ \A c \in Callers : SF_vars(crash = "none" /\ CallerStep(c))
  /\ WF_vars(crash = "none" /\ RunloopStep)
  /\ \A s \in Sessions :
       /\ SF_vars(crash = "none" /\ current = s /\ ConnectSucceeds)
       /\ SF_vars(crash = "none" /\ ClientReady(s))
  /\ WF_vars(crash = "none" /\ Join)

FairSpec == Spec /\ Fairness

-----------------------------------------------------------------------------
(* Properties *)

\* Types of the members of MSSpeechSessionFactory and RecognitionSession,
\* and of the threads.
TypeOK ==
  /\ availableSessionsByUri \in [Uris -> SUBSET Sessions]
  /\ pendingSessions \subseteq Sessions
  /\ busySesssions \subseteq Sessions
  /\ sessions \subseteq Sessions
  /\ sessionsBySession \in [Callers -> Sessions \cup {NoSession}]
  /\ terminateRunloop \in BOOLEAN
  /\ runloopStarted \in BOOLEAN
  /\ mutexHeld \in BOOLEAN
  /\ uri \in [Sessions -> Uris \cup {NoUri}]
  /\ session \in [Sessions -> Callers \cup {NoCaller}]
  /\ connection \in
       [Sessions -> {"none", "opening", "failed", "ready", "closed"}]
  /\ turn \in [Sessions -> {"none", "active"}]
  /\ rpc \in {"none", "starting", "loop", "step", "process", "begin",
              "connect", "erased", "closeAvailable", "closeBySession",
              "closeSession", "exited"}
  /\ current \in Sessions \cup {NoSession}
  /\ cpc \in
       [Callers -> {"idle", "waiting", "woken", "holding", "started",
                    "streaming"}]
  /\ want \in [Callers -> Uris \cup {NoUri}]
  /\ held \in [Callers -> Sessions \cup {NoSession}]
  /\ requests \in [Callers -> 0 .. MaxRequests]
  /\ completionLock \in [Callers -> BOOLEAN]
  /\ mpc \in {"new", "started", "joining", "destroyed"}
  /\ crash \in {"none", "putSession", "lock", "iterator", "race", "thread",
                "level", "server"}

\* Between getSession and putSession.
Holds(c) == cpc[c] \in {"holding", "started", "streaming"}

Available == UNION {availableSessionsByUri[u] : u \in Uris}

\* A checked out session is the caller's own: getSession gives no session to
\* two calls, and offers none to others while it is out, although
\* busySesssions never shrinks and closed sessions are erased half-way.
ExclusiveUse ==
  \A c \in Callers : Holds(c) =>
    /\ session[held[c]] = c
    /\ held[c] \notin Available
    /\ \A d \in Callers \ {c} : Holds(d) => held[d] # held[c]

\* The list of a request URL holds sessions of that URL only, as getSession
\* and putSession file them, so that a call runs with the parameters it
\* asked for.
RightUri ==
  /\ \A u \in Uris : \A s \in availableSessionsByUri[u] : uri[s] = u
  /\ \A c \in Callers : Holds(c) => uri[held[c]] = want[c]

\* What the callbacks assert: the session of a live connection is in
\* sessions, and the session of a running turn is busy and has the
\* MSSpeechSession that the message is passed on to.
CallbacksAssert ==
  /\ \A s \in Sessions :
       connection[s] \in {"opening", "failed", "ready"} => s \in sessions
  /\ \A s \in Sessions : turn[s] = "active" =>
       s \in busySesssions /\ session[s] # NoCaller

\* While the connection is open putSession's assertions hold for the call
\* that uses it.
ReturnableWhileOpen ==
  \A c \in Callers : (Holds(c) /\ connection[held[c]] = "ready") =>
    sessionsBySession[c] = held[c] /\ held[c] \in busySesssions

\* No notification is lost: a caller that sleeps in getSession finds nothing
\* to wake up for, and a session for its URL is on its way or in use, or its
\* connection was dropped.
WaitersAreProvided ==
  \A c \in Callers : cpc[c] = "waiting" =>
    /\ availableSessionsByUri[want[c]] = {}
    /\ \E s \in Sessions :
         /\ uri[s] = want[c]
         /\ \/ s \in pendingSessions
            \/ session[s] # NoCaller
            \/ connection[s] \in {"opening", "failed", "closed"}

\* No connection leaks: one that is open is offered by getSession or used by
\* a call, and what is pending has none yet.
OpenSessionsAreKept ==
  \A s \in Sessions : connection[s] = "ready" =>
    (s \in Available \/ session[s] # NoCaller)

\* A turn is the one of the call that has the session: the call has started
\* it, and completionLock keeps it from returning to putSession until the
\* run loop has seen the end of the turn.  No later call finds a connection
\* with the turn of an earlier one, and no message goes to the wrong call.
TurnsHoldTheirCalls ==
  \A s \in Sessions : turn[s] = "active" =>
    \E c \in Callers :
      /\ session[s] = c
      /\ held[c] = s
      /\ cpc[c] \in {"started", "streaming"}
      /\ ~Completed(c)

\* What the process may die of: putSession's assertion fails only for a call
\* whose connection is closed, the run loop locks twice only if a session was
\* just connected and another one is pending, and a thread is destroyed
\* unjoined only before it has run a single statement.
CrashesHaveCauses ==
  /\ crash = "putSession" =>
       \E c \in Callers : Completed(c) /\ connection[held[c]] = "closed"
  /\ crash = "lock" =>
       /\ current \in pendingSessions
       /\ \E s \in sessions \ {current} : connection[s] = "opening"
  /\ crash = "thread" => rpc = "starting"

\* The URL of the call that a caller is in.
Asked(c) == IF cpc[c] = "idle" THEN NoUri ELSE want[c]

\* What becomes of a session, seen from outside of the factory.
Phase(s) ==
  IF uri[s] = NoUri THEN "none"
  ELSE IF s \in Available THEN "offered"
  ELSE IF session[s] # NoCaller THEN "lent"
  ELSE IF connection[s] \in {"none", "opening"} THEN "opening"
  ELSE "withdrawn"

Pool == INSTANCE SessionPool
          WITH asked <- [c \in Callers |-> Asked(c)],
               lease <- held,
               filed <- uri,
               phase <- [s \in Sessions |-> Phase(s)]

\* The factory's containers, their half-done erasures and the run loop that
\* moves sessions between them amount to a pool that lends a session to one
\* caller at a time, for its own URL, and offers one again only when it is
\* given back (getSession, putSession, client_ready, connection_closed).
ImplementsPool == Pool!Spec

\* A connection that closes never takes a session away from the call that
\* uses it: only putSession does, and offers it again.  A session that was
\* withdrawn from the pool is lent to nobody afterwards: its connection failed
\* before it was ready, or connection_closed has erased it from the list of
\* its URL while it was on offer.  No session changes its URL (getSession,
\* putSession, connection_closed).
LentUntilPut == Pool!LentUntilReturned

\* A connection for the URL that the service or the network has ended.
Dropped(u) ==
  \E s \in Sessions : uri[s] = u /\ connection[s] \in {"failed", "closed"}

\* The end of its turn is still to come for the call of caller c.
AwaitsTurnEnd(c) ==
  cpc[c] = "streaming" /\ \E s \in Sessions : held[c] = s /\ turn[s] = "active"

\* A call for the URL cannot return from waitForCompletion.
Hung(u) ==
  \E c \in Callers : want[c] = u /\ cpc[c] = "streaming" /\ completionLock[c]



\* stop() returns: the run loop sees terminateRunloop and exits.
StopJoins == (mpc = "joining") ~> (mpc = "destroyed" \/ crash # "none")

\* "If a connection is closed, the corresponding MSSpeechSession object is
\* removed.  [...] Instances are then reused as long as their connections are
\* open." (msspeechsessionfactory.h:36-39): getSession offers no session whose
\* connection_closed has returned.
OfferedAreOpen ==
  \A s \in Available : connection[s] = "ready" \/ current = s

\* getSession's new session "is created and its connection established"
\* (msspeechsessionfactory.h:57): processPendingSessions survives
\* connecting every session that is pending.
PendingAreConnected == crash # "lock"

\* putSession asserts that it knows the session it is given
\* (msspeechsessionfactory.cpp:64).
PutSessionKnows == crash # "putSession"

=============================================================================
