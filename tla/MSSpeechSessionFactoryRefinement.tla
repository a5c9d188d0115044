------------------ MODULE MSSpeechSessionFactoryRefinement ------------------
(***************************************************************************)
(* The proof that MSSpeechSessionFactory implements SessionPool, for any   *)
(* callers, URLs, sessions and bounds.  Most steps move only threads or    *)
(* containers that the pool does not show, and are stutters; the others    *)
(* are shown to be one of the pool's actions.                              *)
(***************************************************************************)
EXTENDS MSSpeechSessionFactoryProofs

\* The two functions that SessionPool sees in place of variables.
AskedMap == [c \in Callers |-> Asked(c)]
PhaseMap == [s \in Sessions |-> Phase(s)]

\* A caller that has no session between getSession and putSession has none.
Unheld == \A c \in Callers : ~Holds(c) => held[c] = NoSession

LEMMA UnheldStep ==
  ASSUME IInv, Unheld, [Next]_vars
  PROVE  Unheld'
<1>0. cpc \in [Callers -> CallerPosition] /\ held \in [Callers -> Sessions \cup {NoSession}]
  BY DEF IInv, TypeOK, CallerPosition
<1>1. CASE UNCHANGED callers
  BY <1>1 DEF Unheld, Holds, callers
<1>2. ASSUME NEW c \in Callers, NEW u \in Uris, NEW s \in Sessions,
             CheckOut(c, u, s)
      PROVE  Unheld'
  BY <1>0, <1>2 DEF CheckOut, Unheld, Holds
<1>3. ASSUME NEW c \in Callers, NEW u \in Uris, GetSessionCreate(c, u)
      PROVE  Unheld'
  BY <1>0, <1>3 DEF GetSessionCreate, MayCall, Unheld, Holds
<1>4. ASSUME NEW c \in Callers, SpuriousWakeup(c) \/ GetSessionWaitAgain(c)
      PROVE  Unheld'
  BY <1>0, <1>4 DEF SpuriousWakeup, GetSessionWaitAgain, Unheld, Holds
<1>5. ASSUME NEW c \in Callers, RecognizeStream(c) \/ LockCompletion(c)
      PROVE  Unheld'
  BY <1>0, <1>5 DEF RecognizeStream, LockCompletion, Unheld, Holds
<1>6. ASSUME NEW c \in Callers, PutSession(c)
      PROVE  Unheld'
  <2>1. /\ cpc' = [Notified EXCEPT ![c] = "idle"]
        /\ held' = [held EXCEPT ![c] = NoSession]
    BY <1>6 DEF PutSession
  <2>2. \A d \in Callers \ {c} : cpc'[d] = Notified[d] /\ held'[d] = held[d]
    BY <1>0, <2>1, NotifiedFacts DEF IInv
  <2>3. held'[c] = NoSession
    BY <1>0, <2>1
  <2> QED  BY <2>2, <2>3, NotifiedFacts DEF IInv, Unheld, Holds
<1>7. ASSUME NEW s \in Sessions, ClientReady(s)
      PROVE  Unheld'
  <2>1. cpc' = Notified /\ held' = held
    BY <1>7 DEF ClientReady
  <2> QED  BY <2>1, NotifiedFacts DEF IInv, Unheld, Holds
<1>8. ASSUME NEW c \in Callers, NEW u \in Uris, GetSession(c, u)
      PROVE  Unheld'
  BY <1>2, <1>8 DEF GetSession
<1>9. ASSUME NEW c \in Callers, GetSessionResume(c)
      PROVE  Unheld'
  <2>1. want[c] \in Uris
    BY <1>9 DEF IInv, Checkouts, GetSessionResume
  <2> QED  BY <1>2, <1>9, <2>1 DEF GetSessionResume
<1>10. ASSUME NEW reason, Kill(reason)
       PROVE  Unheld'
  BY <1>1, <1>10 DEF Kill
<1>11. CASE RunloopStep
  <2>1. \/ UNCHANGED callers
        \/ \E reason : Kill(reason)
    BY <1>11 DEF RunloopStep, RunloopStarts, RunloopTest, StepReturns,
       NothingPending, SomePending, BeginLoop, ConnectFails, ConnectSucceeds,
       LockTwice, NextAfterErase, CloseAvailable, CloseBySession,
       CloseSession, RunloopMove
  <2> QED  BY <1>1, <1>10, <2>1
<1>12. ASSUME NEW s \in Sessions, Callback(s)
       PROVE  Unheld'
  <2>1. \/ ClientReady(s)
        \/ UNCHANGED <<cpc, held>>
    BY <1>12 DEF Callback, TurnEnd, ConnectionError, ConnectionClosed, callers
  <2>2. UNCHANGED <<cpc, held>> => Unheld'
    BY DEF Unheld, Holds
  <2> QED  BY <1>7, <2>1, <2>2
<1>13. CASE ContainerRace \/ Start \/ Destroy \/ DestroyTooEarly \/ Join
  BY <1>1, <1>10, <1>13 DEF ContainerRace, Start, Destroy, DestroyTooEarly, Join
<1>14. CASE UNCHANGED vars
  BY <1>1, <1>14 DEF vars
<1>15. ASSUME NEW c \in Callers, SpuriousWakeup(c) \/ CallerStep(c)
       PROVE  Unheld'
  BY <1>4, <1>5, <1>6, <1>9, <1>10, <1>15 DEF CallerStep, PutSessionAsserts
<1> QED  BY <1>3, <1>8, <1>11, <1>12, <1>13, <1>14, <1>15 DEF Next, Service

-----------------------------------------------------------------------------
(* What the pool sees *)

\* A step that changes nothing of what a session is to the pool.
LEMMA PhaseFrame ==
  ASSUME UNCHANGED <<availableSessionsByUri, uri, session>>,
         \A s \in Sessions :
           connection'[s] \in {"none", "opening"} <=>
             connection[s] \in {"none", "opening"}
  PROVE  PhaseMap' = PhaseMap
<1>1. Available' = Available
  BY DEF Available
<1>2. \A s \in Sessions : Phase(s)' = Phase(s)
  BY <1>1 DEF Phase
<1> QED  BY <1>2 DEF PhaseMap

LEMMA AskedFrame ==
  ASSUME UNCHANGED want,
         \A c \in Callers : cpc'[c] = "idle" <=> cpc[c] = "idle"
  PROVE  AskedMap' = AskedMap
<1>1. \A c \in Callers : Asked(c)' = Asked(c)
  BY DEF Asked
<1> QED  BY <1>1 DEF AskedMap

PoolVars == <<AskedMap, held, uri, PhaseMap>>

LEMMA PoolVarsFrame ==
  ASSUME UNCHANGED PoolVars
  PROVE  UNCHANGED Pool!vars
BY DEF PoolVars, Pool!vars, AskedMap, PhaseMap

\* An offered session, and where it is filed.
LEMMA OfferedFacts ==
  ASSUME IInv
  PROVE  /\ \A s \in Sessions : Phase(s) = "offered" <=> s \in Available
         /\ \A s \in Sessions : s \in Available <=>
              uri[s] \in Uris /\ s \in availableSessionsByUri[uri[s]]
<1>1. \A s \in Available : uri[s] \in Uris /\ s \in availableSessionsByUri[uri[s]]
  BY DEF IInv, Offers, Available
<1>2. \A s \in Sessions :
        uri[s] \in Uris /\ s \in availableSessionsByUri[uri[s]] => s \in Available
  BY DEF Available
<1>3. NoUri \notin Uris
  BY FactoryAssumption
<1> QED  BY <1>1, <1>2, <1>3 DEF Phase

-----------------------------------------------------------------------------
(* The steps that the pool sees *)

\* getSession finds a session, at once or after a wait: Lend.
LEMMA CheckOutLends ==
  ASSUME IInv, Unheld, NEW c \in Callers, NEW u \in Uris, NEW s \in Sessions,
         CheckOut(c, u, s), ~Holds(c),
         cpc[c] # "idle" => want[c] = u,
         want' = [want EXCEPT ![c] = u]
  PROVE  Pool!Lend(c, u, s)
<1>1. /\ s \in availableSessionsByUri[u]
      /\ session' = [session EXCEPT ![s] = c]
      /\ availableSessionsByUri' =
           [availableSessionsByUri EXCEPT ![u] = @ \ {s}]
      /\ held' = [held EXCEPT ![c] = s]
      /\ cpc' = [cpc EXCEPT ![c] = "holding"]
      /\ UNCHANGED <<uri, connection>>
  BY DEF CheckOut, Begin, AvailableWithout, library
<1>2. uri[s] = u /\ s \in Available /\ u # NoUri
  BY <1>1, FactoryAssumption DEF IInv, Offers, Available
<1>3. Phase(s) = "offered"
  BY <1>2 DEF Phase
<1>4. Asked(c) \in {NoUri, u} /\ held[c] = NoSession
  BY DEF Asked, Unheld
<1>5. AskedMap' = [AskedMap EXCEPT ![c] = u]
  <2>1. \A d \in Callers \ {c} : cpc'[d] = cpc[d] /\ want'[d] = want[d]
    BY <1>1 DEF IInv, TypeOK
  <2>2. \A d \in Callers \ {c} : Asked(d)' = Asked(d)
    BY <2>1 DEF Asked
  <2>3. Asked(c)' = u
    BY <1>1 DEF IInv, TypeOK, Asked
  <2> QED  BY <2>2, <2>3 DEF AskedMap
<1>6. PhaseMap' = [PhaseMap EXCEPT ![s] = "lent"]
  <2>1. \A v \in Uris : availableSessionsByUri'[v] = availableSessionsByUri[v] \ {s}
    BY <1>1, <1>2 DEF IInv, TypeOK, Offers
  <2>2. \A t : t \in Available' <=> t \in Available /\ t # s
    BY <2>1 DEF Available
  <2>3. session'[s] = c /\ \A t \in Sessions \ {s} : session'[t] = session[t]
    BY <1>1 DEF IInv, TypeOK
  <2>4. \A t \in Sessions \ {s} : Phase(t)' = Phase(t)
    BY <1>1, <2>2, <2>3 DEF Phase
  <2>5. Phase(s)' = "lent"
    BY <1>1, <1>2, <2>2, <2>3, FactoryAssumption DEF Phase
  <2> QED  BY <2>4, <2>5 DEF PhaseMap
<1> QED  BY <1>1, <1>2, <1>3, <1>4, <1>5, <1>6 DEF Pool!Lend, AskedMap, PhaseMap

\* getSession makes a new session: Ask.
LEMMA CreateAsks ==
  ASSUME IInv, NEW c \in Callers, NEW u \in Uris, GetSessionCreate(c, u)
  PROVE  Pool!Ask(c, u)
<1>1. PICK s \in Sessions : /\ uri[s] = NoUri
                            /\ uri' = [uri EXCEPT ![s] = u]
  BY DEF GetSessionCreate
<1>2. /\ cpc[c] = "idle"
      /\ availableSessionsByUri[u] = {}
      /\ cpc' = [cpc EXCEPT ![c] = "waiting"]
      /\ want' = [want EXCEPT ![c] = u]
      /\ UNCHANGED <<availableSessionsByUri, session, connection, held>>
  BY DEF GetSessionCreate, MayCall, library
<1>3. u # NoUri /\ \A d \in Callers : session[s] # d
  BY <1>1, FactoryAssumption DEF IInv, Checkouts, Holds
<1>4. session[s] = NoCaller /\ connection[s] = "none" /\ s \notin Available
  <2>1. session[s] = NoCaller
    BY <1>3 DEF IInv, TypeOK
  <2>2. uri[s] \notin Uris
    BY <1>1, FactoryAssumption
  <2>3. s \notin Available
    BY <2>2, OfferedFacts
  <2>4. connection[s] = "none"
    BY <2>2 DEF IInv, Connections
  <2> QED  BY <2>1, <2>3, <2>4
<1>5. Asked(c) = NoUri /\ AskedMap' = [AskedMap EXCEPT ![c] = u]
  <2>1. \A d \in Callers \ {c} : cpc'[d] = cpc[d] /\ want'[d] = want[d]
    BY <1>2 DEF IInv, TypeOK
  <2>2. \A d \in Callers \ {c} : Asked(d)' = Asked(d)
    BY <2>1 DEF Asked
  <2>3. Asked(c) = NoUri /\ Asked(c)' = u
    BY <1>2 DEF IInv, TypeOK, Asked
  <2> QED  BY <2>2, <2>3 DEF AskedMap
<1>6. PhaseMap' = [PhaseMap EXCEPT ![s] = "opening"] /\ Phase(s) = "none"
  <2>1. Available' = Available
    BY <1>2 DEF Available
  <2>2. uri'[s] = u /\ \A t \in Sessions \ {s} : uri'[t] = uri[t]
    BY <1>1 DEF IInv, TypeOK
  <2>3. \A t \in Sessions \ {s} : Phase(t)' = Phase(t)
    BY <1>2, <2>1, <2>2 DEF Phase
  <2>4. Phase(s) = "none" /\ Phase(s)' = "opening"
    BY <1>1, <1>2, <1>3, <1>4, <2>1, <2>2 DEF Phase
  <2> QED  BY <2>3, <2>4 DEF PhaseMap
<1>7. \A t \in Sessions : uri[t] = u => Phase(t) # "offered"
  BY <1>2, OfferedFacts
<1> QED  BY <1>1, <1>2, <1>5, <1>6, <1>7 DEF Pool!Ask, AskedMap, PhaseMap

\* putSession: Return.
LEMMA PutReturns ==
  ASSUME IInv, NEW c \in Callers, PutSession(c)
  PROVE  Pool!Return(c)
<1>0. PICK s \in Sessions : s = sessionsBySession[c]
  BY DEF PutSession, IInv, TypeOK
<1>1. /\ cpc[c] = "streaming"
      /\ s # NoSession
      /\ session' = [session EXCEPT ![s] = NoCaller]
      /\ availableSessionsByUri' =
           [availableSessionsByUri EXCEPT ![uri[s]] = @ \cup {s}]
      /\ cpc' = [Notified EXCEPT ![c] = "idle"]
      /\ held' = [held EXCEPT ![c] = NoSession]
      /\ UNCHANGED <<uri, connection, want>>
  BY <1>0 DEF PutSession, Completed, AvailableWith, library
<1>2. /\ s = held[c] /\ session[s] = c
      /\ uri[s] \in Uris /\ NoUri \notin Uris
  BY <1>0, <1>1, FactoryAssumption DEF IInv, Checkouts, Holds
<1>3. AskedMap' = [AskedMap EXCEPT ![c] = NoUri]
  <2>1. \A d \in Callers \ {c} : cpc'[d] = Notified[d]
    BY <1>1, NotifiedFacts DEF IInv
  <2>2. \A d \in Callers \ {c} : Asked(d)' = Asked(d)
    BY <1>1, <2>1, NotifiedFacts DEF IInv, Asked
  <2>3. Asked(c)' = NoUri
    BY <1>1, NotifiedFacts DEF IInv, Asked
  <2> QED  BY <2>2, <2>3 DEF AskedMap
<1>4. PhaseMap' = [PhaseMap EXCEPT ![s] = "offered"]
  <2>1. \A v \in Uris : \A t \in Sessions \ {s} :
          t \in availableSessionsByUri'[v] <=> t \in availableSessionsByUri[v]
    BY <1>1, <1>2 DEF IInv, TypeOK
  <2>2. s \in availableSessionsByUri'[uri[s]]
    BY <1>1, <1>2 DEF IInv, TypeOK
  <2>3. s \in Available' /\ \A t \in Sessions \ {s} : t \in Available' <=> t \in Available
    BY <1>2, <2>1, <2>2 DEF Available
  <2>4. \A t \in Sessions \ {s} : session'[t] = session[t]
    BY <1>1 DEF IInv, TypeOK
  <2>5. \A t \in Sessions \ {s} : Phase(t)' = Phase(t)
    BY <1>1, <2>3, <2>4 DEF Phase
  <2>6. Phase(s)' = "offered"
    BY <1>1, <1>2, <2>3 DEF Phase
  <2> QED  BY <2>5, <2>6 DEF PhaseMap
<1> QED  BY <1>1, <1>2, <1>3, <1>4 DEF Pool!Return, AskedMap, PhaseMap

\* client_ready: Ready.
LEMMA ClientReadyOffers ==
  ASSUME IInv, NEW s \in Sessions, ClientReady(s)
  PROVE  Pool!Ready(s)
<1>1. /\ connection[s] = "opening"
      /\ connection' = [connection EXCEPT ![s] = "ready"]
      /\ availableSessionsByUri' =
           [availableSessionsByUri EXCEPT ![uri[s]] = @ \cup {s}]
      /\ cpc' = Notified
      /\ UNCHANGED <<uri, session, held, want>>
  BY DEF ClientReady, AvailableWith, objects
<1>2. /\ uri[s] \in Uris /\ NoUri \notin Uris /\ s \notin Available
      /\ session[s] = NoCaller
  BY <1>1, FactoryAssumption DEF IInv, TypeOK, Connections, Checkouts, Offers, Available
<1>3. AskedMap' = AskedMap
  BY <1>1, AskedFrame, NotifiedFacts DEF IInv
<1>4. PhaseMap' = [PhaseMap EXCEPT ![s] = "offered"] /\ Phase(s) = "opening"
  <2>1. \A v \in Uris : \A t \in Sessions \ {s} :
          t \in availableSessionsByUri'[v] <=> t \in availableSessionsByUri[v]
    BY <1>1, <1>2 DEF IInv, TypeOK
  <2>2. s \in availableSessionsByUri'[uri[s]]
    BY <1>1, <1>2 DEF IInv, TypeOK
  <2>3. s \in Available' /\ \A t \in Sessions \ {s} : t \in Available' <=> t \in Available
    BY <1>2, <2>1, <2>2 DEF Available
  <2>4. \A t \in Sessions \ {s} : connection'[t] = connection[t]
    BY <1>1 DEF IInv, TypeOK
  <2>5. \A t \in Sessions \ {s} : Phase(t)' = Phase(t)
    BY <1>1, <2>3, <2>4 DEF Phase
  <2>6. Phase(s) = "opening" /\ Phase(s)' = "offered"
    BY <1>1, <1>2, <2>3 DEF Phase
  <2> QED  BY <2>5, <2>6 DEF PhaseMap
<1> QED  BY <1>1, <1>3, <1>4 DEF Pool!Ready, AskedMap, PhaseMap

\* A connection that fails or closes before it was ready: Withdraw.  One that
\* closes later changes nothing yet.
LEMMA ConnectionEnds ==
  ASSUME IInv, NEW s \in Sessions, ConnectionError(s) \/ ConnectionClosed(s)
  PROVE  Pool!Withdraw(s) \/ UNCHANGED Pool!vars
<1>1. /\ connection[s] \in {"opening", "failed", "ready"}
      /\ connection'[s] \in {"failed", "closed"}
      /\ \A t \in Sessions \ {s} : connection'[t] = connection[t]
      /\ UNCHANGED <<availableSessionsByUri, uri, session, cpc, want, held>>
  BY DEF ConnectionError, ConnectionClosed, pool, objects, callers, IInv, TypeOK
<1>2. AskedMap' = AskedMap
  BY <1>1, AskedFrame
<1>3. CASE connection[s] = "opening"
  <2>1. uri[s] # NoUri /\ s \notin Available /\ session[s] = NoCaller
    BY <1>3, FactoryAssumption
       DEF IInv, TypeOK, Connections, Checkouts, Offers, Available
  <2>2. Available' = Available
    BY <1>1 DEF Available
  <2>3. \A t \in Sessions \ {s} : Phase(t)' = Phase(t)
    BY <1>1, <2>2 DEF Phase
  <2>4. Phase(s) = "opening" /\ Phase(s)' = "withdrawn"
    BY <1>1, <1>3, <2>1, <2>2 DEF Phase
  <2>5. PhaseMap' = [PhaseMap EXCEPT ![s] = "withdrawn"]
    BY <2>3, <2>4 DEF PhaseMap
  <2> QED  BY <1>1, <1>2, <2>4, <2>5 DEF Pool!Withdraw, AskedMap, PhaseMap
<1>4. CASE connection[s] # "opening"
  <2>1. PhaseMap' = PhaseMap
    BY <1>1, <1>4, PhaseFrame
  <2> QED  BY <1>1, <1>2, <2>1, PoolVarsFrame DEF PoolVars
<1> QED  BY <1>3, <1>4

\* The first erasure of connection_closed: Withdraw, unless the session is
\* lent, or was withdrawn before.
LEMMA CloseWithdraws ==
  ASSUME IInv, CloseAvailable
  PROVE  Pool!Withdraw(current) \/ UNCHANGED Pool!vars
<1>0. PICK s \in Sessions : s = current
  BY DEF IInv, Runloop, CloseAvailable
<1>1. /\ connection[s] = "closed"
      /\ availableSessionsByUri' =
           [availableSessionsByUri EXCEPT ![uri[s]] = @ \ {s}]
      /\ UNCHANGED <<uri, session, connection, cpc, want, held>>
  BY <1>0 DEF IInv, Runloop, CloseAvailable, AvailableWithout, objects,
              library, callers
<1>2. uri[s] \in Uris /\ NoUri \notin Uris
  BY <1>1, FactoryAssumption DEF IInv, Connections
<1>3. AskedMap' = AskedMap
  BY <1>1, AskedFrame
<1>4. \A v \in Uris : availableSessionsByUri'[v] = availableSessionsByUri[v] \ {s}
  BY <1>1, <1>2 DEF IInv, TypeOK, Offers
<1>5. s \notin Available' /\ \A t : t # s => (t \in Available' <=> t \in Available)
  BY <1>4 DEF Available
<1>6. \A t \in Sessions \ {s} : Phase(t)' = Phase(t)
  BY <1>1, <1>5 DEF Phase
<1>7. CASE s \in Available
  <2>1. session[s] = NoCaller
    BY <1>7 DEF IInv, Offers, Available
  <2>2. Phase(s) = "offered" /\ Phase(s)' = "withdrawn"
    BY <1>1, <1>2, <1>5, <1>7, <2>1 DEF Phase
  <2>3. PhaseMap' = [PhaseMap EXCEPT ![s] = "withdrawn"]
    BY <1>6, <2>2 DEF PhaseMap
  <2> QED  BY <1>0, <1>1, <1>3, <2>2, <2>3 DEF Pool!Withdraw, AskedMap, PhaseMap
<1>8. CASE s \notin Available
  <2>1. Phase(s)' = Phase(s)
    BY <1>1, <1>5, <1>8 DEF Phase
  <2>2. PhaseMap' = PhaseMap
    BY <1>6, <2>1 DEF PhaseMap
  <2> QED  BY <1>1, <1>3, <2>2, PoolVarsFrame DEF PoolVars
<1> QED  BY <1>7, <1>8

-----------------------------------------------------------------------------
(* The theorem *)

\* Everything else moves threads or containers that the pool does not show.
LEMMA OthersStutter ==
  ASSUME IInv,
         \/ \E c \in Callers :
              \/ SpuriousWakeup(c)
              \/ GetSessionWaitAgain(c)
              \/ RecognizeStream(c)
              \/ LockCompletion(c)
         \/ \E s \in Sessions : TurnEnd(s)
         \/ ConnectSucceeds
         \/ \E from, to, s : RunloopMove(from, to, s)
         \/ \E reason : Kill(reason)
         \/ RunloopStarts \/ RunloopTest \/ CloseBySession \/ CloseSession
         \/ Start \/ Destroy \/ Join
         \/ UNCHANGED vars
  PROVE  UNCHANGED Pool!vars
<1> DEFINE Unseen ==
      /\ UNCHANGED <<availableSessionsByUri, uri, session, want, held>>
      /\ \A c \in Callers : cpc'[c] = "idle" <=> cpc[c] = "idle"
      /\ \A s \in Sessions : connection'[s] \in {"none", "opening"} <=>
                               connection[s] \in {"none", "opening"}
<1>1. Unseen
  <2>1. CASE UNCHANGED <<availableSessionsByUri, objects, connection, cpc, want,
                         held>>
    BY <2>1 DEF objects
  <2>2. ASSUME NEW c \in Callers,
               \/ SpuriousWakeup(c)
               \/ GetSessionWaitAgain(c)
               \/ RecognizeStream(c)
               \/ LockCompletion(c)
        PROVE  Unseen
    <3>1. /\ UNCHANGED <<availableSessionsByUri, uri, session, want, held,
                         connection>>
          /\ cpc[c] # "idle"
          /\ cpc' \in {[cpc EXCEPT ![c] = p] :
                         p \in {"waiting", "woken", "started", "streaming"}}
      BY <2>2 DEF SpuriousWakeup, GetSessionWaitAgain, RecognizeStream,
                  LockCompletion, pool, objects, library
    <3> QED  BY <3>1 DEF IInv, TypeOK
  <2>3. CASE ConnectSucceeds
    <3>1. /\ rpc = "connect"
          /\ connection' = [connection EXCEPT ![current] = "opening"]
          /\ UNCHANGED <<availableSessionsByUri, uri, session, cpc, want, held>>
      BY <2>3 DEF ConnectSucceeds, objects, callers
    <3>2. current \in pendingSessions /\ connection[current] = "none"
      BY <3>1 DEF IInv, Runloop, Connections
    <3> QED  BY <3>1, <3>2 DEF IInv, TypeOK
  <2>4. CASE \/ \E s \in Sessions : TurnEnd(s)
             \/ \E from, to, s : RunloopMove(from, to, s)
             \/ \E reason : Kill(reason)
    BY <2>1, <2>4 DEF TurnEnd, RunloopMove, Kill, pool, objects, library,
                         callers
  <2>5. CASE \/ RunloopStarts \/ RunloopTest \/ CloseBySession \/ CloseSession
             \/ Start \/ Destroy \/ Join
             \/ UNCHANGED vars
    BY <2>1, <2>5 DEF RunloopStarts, RunloopTest, CloseBySession,
       CloseSession, Start, Destroy, Join, vars, pool, library, callers
  <2> QED  BY <2>2, <2>3, <2>4, <2>5
<1>2. AskedMap' = AskedMap /\ PhaseMap' = PhaseMap
  BY <1>1, AskedFrame, PhaseFrame
<1> QED  BY <1>1, <1>2, PoolVarsFrame DEF PoolVars

\* Every step of the factory is a step of the pool, or one it does not see.
LEMMA StepSimulates ==
  ASSUME IInv, Unheld, [Next]_vars
  PROVE  [Pool!Next]_(Pool!vars)
<1>1. ASSUME NEW c \in Callers, NEW u \in Uris,
             GetSession(c, u) \/ GetSessionCreate(c, u)
      PROVE  Pool!Next
  <2>1. CASE GetSession(c, u)
    <3>1. PICK s \in Sessions : CheckOut(c, u, s)
      BY <2>1 DEF GetSession
    <3>2. Pool!Lend(c, u, s)
      BY <2>1, <3>1, CheckOutLends DEF GetSession, MayCall, Holds
    <3> QED  BY <3>2 DEF Pool!Next
  <2>2. CASE GetSessionCreate(c, u)
    BY <2>2, CreateAsks DEF Pool!Next
  <2> QED  BY <1>1, <2>1, <2>2
<1>2. ASSUME NEW c \in Callers, GetSessionResume(c)
      PROVE  Pool!Next
  <2>1. PICK s \in Sessions : CheckOut(c, want[c], s)
    BY <1>2 DEF GetSessionResume
  <2>2. ~Holds(c) /\ want[c] \in Uris /\ want' = [want EXCEPT ![c] = want[c]]
    BY <1>2 DEF GetSessionResume, Holds, IInv, TypeOK, Checkouts
  <2>3. Pool!Lend(c, want[c], s)
    BY <2>1, <2>2, CheckOutLends
  <2> QED  BY <2>2, <2>3 DEF Pool!Next
<1>3. ASSUME NEW c \in Callers, SpuriousWakeup(c) \/ CallerStep(c)
      PROVE  Pool!Next \/ UNCHANGED Pool!vars
  <2>1. CASE \/ SpuriousWakeup(c) \/ GetSessionWaitAgain(c)
             \/ RecognizeStream(c) \/ LockCompletion(c)
    BY <2>1, OthersStutter
  <2>2. CASE PutSession(c)
    BY <2>2, PutReturns DEF Pool!Next
  <2>3. CASE PutSessionAsserts(c)
    BY <2>3, OthersStutter DEF PutSessionAsserts
  <2> QED  BY <1>2, <1>3, <2>1, <2>2, <2>3 DEF CallerStep
<1>4. CASE RunloopStep
  <2>1. CASE CloseAvailable
    <3>1. current \in Sessions
      BY <2>1 DEF IInv, Runloop, CloseAvailable
    <3> QED  BY <2>1, <3>1, CloseWithdraws DEF Pool!Next
  <2>2. CASE \/ StepReturns \/ NothingPending \/ SomePending \/ BeginLoop
             \/ ConnectFails \/ NextAfterErase \/ LockTwice
    <3>1. \/ \E from, to, s : RunloopMove(from, to, s)
          \/ \E reason : Kill(reason)
      BY <2>2 DEF StepReturns, NothingPending, SomePending, BeginLoop,
                  ConnectFails, NextAfterErase, LockTwice
    <3> QED  BY <3>1, OthersStutter
  <2>3. CASE \/ ConnectSucceeds \/ RunloopStarts \/ RunloopTest
             \/ CloseBySession \/ CloseSession
    BY <2>3, OthersStutter
  <2> QED  BY <1>4, <2>1, <2>2, <2>3 DEF RunloopStep
<1>5. ASSUME NEW s \in Sessions, Callback(s)
      PROVE  Pool!Next \/ UNCHANGED Pool!vars
  <2>1. CASE ClientReady(s)
    BY <2>1, ClientReadyOffers DEF Pool!Next
  <2>2. CASE TurnEnd(s)
    BY <2>2, OthersStutter
  <2>3. CASE ConnectionError(s) \/ ConnectionClosed(s)
    BY <2>3, ConnectionEnds DEF Pool!Next
  <2> QED  BY <1>5, <2>1, <2>2, <2>3 DEF Callback
<1>6. CASE ContainerRace \/ DestroyTooEarly \/ Start \/ Destroy \/ Join
           \/ UNCHANGED vars
  BY <1>6, OthersStutter DEF ContainerRace, DestroyTooEarly
<1> QED  BY <1>1, <1>3, <1>4, <1>5, <1>6 DEF Next, Service

\* A new factory has lent nothing and offers nothing.
LEMMA InitSimulates ==
  ASSUME Init
  PROVE  Pool!Init /\ Unheld
<1>1. \A c \in Callers : Asked(c) = NoUri
  BY DEF Init, Asked
<1>2. \A s \in Sessions : Phase(s) = "none"
  BY DEF Init, Phase
<1> QED  BY <1>1, <1>2 DEF Init, Pool!Init, Unheld

\* MSSpeechSessionFactory is a pool of exclusive leases: getSession,
\* putSession and the callbacks do to a session only what SessionPool allows.
THEOREM Refinement == Spec => ImplementsPool
<1>1. Init => Pool!Init /\ Unheld
  BY InitSimulates
<1>2. IInv /\ Unheld /\ [Next]_vars => Unheld' /\ [Pool!Next]_(Pool!vars)
  BY UnheldStep, StepSimulates
<1> QED  BY <1>1, <1>2, Inductive, PTL DEF Spec, ImplementsPool, Pool!Spec

-----------------------------------------------------------------------------
(* What the factory inherits from the pool *)

Theory == INSTANCE SessionPoolProofs
            WITH asked <- AskedMap, lease <- held, filed <- uri,
                 phase <- PhaseMap

\* The pool that the theorems of SessionPoolProofs are about is the one that
\* the factory implements.
LEMMA SamePool ==
  /\ Pool!Init <=> Theory!Init
  /\ [Pool!Next]_(Pool!vars) <=> [Theory!Next]_(Theory!vars)
<1>1. Pool!Init <=> Theory!Init
  BY DEF Pool!Init, Theory!Init, AskedMap, PhaseMap
<1>2. /\ \A c \in Callers, u \in Uris : Pool!Ask(c, u) <=> Theory!Ask(c, u)
      /\ \A c \in Callers, u \in Uris, s \in Sessions :
           Pool!Lend(c, u, s) <=> Theory!Lend(c, u, s)
      /\ \A c \in Callers : Pool!Return(c) <=> Theory!Return(c)
      /\ \A s \in Sessions :
           /\ Pool!Ready(s) <=> Theory!Ready(s)
           /\ Pool!Withdraw(s) <=> Theory!Withdraw(s)
  BY DEF Pool!Ask, Pool!Lend, Pool!Return, Pool!Ready, Pool!Withdraw,
         Theory!Ask, Theory!Lend, Theory!Return, Theory!Ready,
         Theory!Withdraw, AskedMap, PhaseMap
<1>3. Pool!vars = Theory!vars /\ (Pool!vars)' = (Theory!vars)'
  BY DEF Pool!vars, Theory!vars, AskedMap, PhaseMap
<1> QED  BY <1>1, <1>2, <1>3 DEF Pool!Next, Theory!Next

LEMMA InitTheory ==
  ASSUME Init
  PROVE  Theory!PoolInv
BY InitSimulates, SamePool, Theory!PoolInit

\* A step of the pool, taken by the factory, writes the histories on.
LEMMA TheoryStep ==
  ASSUME Theory!PoolInv, [Pool!Next]_(Pool!vars)
  PROVE  /\ Theory!PoolInv'
         /\ \A s \in Sessions : Pool!SessionHistory(s)
<1>1. Theory!PoolInv' /\ \A s \in Sessions : Theory!SessionHistory(s)
  BY SamePool, FactoryAssumption, Theory!PoolStep
<1> QED
  BY <1>1 DEF Theory!SessionHistory, Pool!SessionHistory, AskedMap, PhaseMap

\* A session keeps its URL, stays with its call until putSession, whatever
\* happens to its connection, and is never lent once it was withdrawn from
\* the pool.
THEOREM LentSessionsStay == Spec => LentUntilPut
<1>1. Init => Unheld /\ Theory!PoolInv
  BY InitSimulates, InitTheory
<1>2. IInv /\ Unheld /\ Theory!PoolInv /\ [Next]_vars =>
        /\ Unheld' /\ Theory!PoolInv'
        /\ [\A s \in Sessions : Pool!SessionHistory(s)]_(Pool!vars)
  BY UnheldStep, StepSimulates, TheoryStep
<1> QED
  BY <1>1, <1>2, Inductive, PTL DEF Spec, LentUntilPut, Pool!LentUntilReturned

=============================================================================
