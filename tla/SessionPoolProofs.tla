------------------------- MODULE SessionPoolProofs -------------------------
(***************************************************************************)
(* What the abstract pool guarantees to its callers, for any callers, URLs *)
(* and sessions.  MSSpeechSessionFactoryRefinement carries it over to the  *)
(* factory.                                                                *)
(***************************************************************************)
EXTENDS SessionPool, TLAPS

SessionPhase == {"none", "opening", "offered", "lent", "withdrawn"}

PoolTypeOK ==
  /\ asked \in [Callers -> Uris \cup {NoUri}]
  /\ lease \in [Callers -> Sessions \cup {NoSession}]
  /\ filed \in [Sessions -> Uris \cup {NoUri}]
  /\ phase \in [Sessions -> SessionPhase]

\* The sessions that are leased, and those that were never made.
LeasesKnown ==
  /\ \A s \in Sessions : phase[s] = "none" <=> filed[s] = NoUri
  /\ \A c \in Callers : lease[c] # NoSession => lease[c] \in Sessions
  /\ LeasesAreExclusive

PoolInv == PoolTypeOK /\ LeasesKnown

LEMMA PoolInit ==
  ASSUME Init
  PROVE  PoolInv
BY DEF Init, PoolInv, PoolTypeOK, SessionPhase, LeasesKnown, LeasesAreExclusive

\* Each of the pool's steps keeps the leases apart and writes the history of
\* a session on as it should.
LEMMA PoolStep ==
  ASSUME NoUri \notin Uris, PoolInv, [Next]_vars
  PROVE  PoolInv' /\ (\A s \in Sessions : SessionHistory(s))
<1> USE DEF PoolInv, PoolTypeOK, SessionPhase, LeasesKnown, LeasesAreExclusive
<1>1. ASSUME NEW c \in Callers, NEW u \in Uris, Ask(c, u)
      PROVE  PoolInv' /\ (\A s \in Sessions : SessionHistory(s))
  <2>1. PICK s \in Sessions :
          /\ phase[s] = "none"
          /\ phase' = [phase EXCEPT ![s] = "opening"]
          /\ filed' = [filed EXCEPT ![s] = u]
    BY <1>1 DEF Ask
  <2>2. /\ asked[c] = NoUri
        /\ asked' = [asked EXCEPT ![c] = u]
        /\ lease' = lease
    BY <1>1 DEF Ask
  <2>3. lease[c] = NoSession
    \* Otherwise a session without a URL would be lent.
    BY <2>2
  <2>4. PoolTypeOK'
    BY <2>1, <2>2
  <2>5. LeasesKnown'
    BY <2>1, <2>2, <2>3
  <2>6. \A t \in Sessions : SessionHistory(t)
    BY <2>1, <2>2 DEF SessionHistory
  <2> QED  BY <2>4, <2>5, <2>6
<1>2. ASSUME NEW c \in Callers, NEW u \in Uris, NEW s \in Sessions,
             Lend(c, u, s)
      PROVE  PoolInv' /\ (\A t \in Sessions : SessionHistory(t))
  <2>1. /\ lease[c] = NoSession /\ filed[s] = u /\ phase[s] = "offered"
        /\ asked' = [asked EXCEPT ![c] = u]
        /\ lease' = [lease EXCEPT ![c] = s]
        /\ phase' = [phase EXCEPT ![s] = "lent"]
        /\ filed' = filed
    BY <1>2 DEF Lend
  <2>2. PoolTypeOK'
    BY <2>1
  <2>3. LeasesKnown'
    BY <2>1
  <2>4. \A t \in Sessions : SessionHistory(t)
    BY <2>1 DEF SessionHistory
  <2> QED  BY <2>2, <2>3, <2>4
<1>3. ASSUME NEW c \in Callers, Return(c)
      PROVE  PoolInv' /\ (\A t \in Sessions : SessionHistory(t))
  <2>1. PICK s \in Sessions : s = lease[c] /\ s # NoSession
    BY <1>3 DEF Return
  <2>2. /\ asked' = [asked EXCEPT ![c] = NoUri]
        /\ lease' = [lease EXCEPT ![c] = NoSession]
        /\ phase' = [phase EXCEPT ![s] = "offered"]
        /\ filed' = filed
    BY <1>3, <2>1 DEF Return
  <2>3. PoolTypeOK'
    BY <2>1, <2>2
  <2>4. LeasesKnown'
    BY <2>1, <2>2
  <2>5. \A t \in Sessions : SessionHistory(t)
    BY <2>1, <2>2 DEF SessionHistory
  <2> QED  BY <2>3, <2>4, <2>5
<1>4. ASSUME NEW s \in Sessions, Ready(s) \/ Withdraw(s)
      PROVE  PoolInv' /\ (\A t \in Sessions : SessionHistory(t))
  <2>1. /\ phase[s] \in {"opening", "offered"}
        /\ \/ phase' = [phase EXCEPT ![s] = "offered"]
           \/ phase' = [phase EXCEPT ![s] = "withdrawn"]
        /\ asked' = asked /\ lease' = lease /\ filed' = filed
    BY <1>4 DEF Ready, Withdraw
  <2>2. PoolTypeOK'
    BY <2>1
  <2>3. LeasesKnown'
    BY <2>1
  <2>4. \A t \in Sessions : SessionHistory(t)
    BY <2>1 DEF SessionHistory
  <2> QED  BY <2>2, <2>3, <2>4
<1>5. CASE UNCHANGED vars
  BY <1>5 DEF vars, SessionHistory
<1> QED  BY <1>1, <1>2, <1>3, <1>4, <1>5 DEF Next

\* A pool never lends a session to two callers, nor one made for another URL
\* than the caller asked for.
THEOREM LeasesStayExclusive ==
  ASSUME NoUri \notin Uris
  PROVE  Spec => []LeasesAreExclusive
<1>1. PoolInv /\ [Next]_vars => PoolInv'
  BY PoolStep
<1>2. PoolInv => LeasesAreExclusive
  BY DEF PoolInv, LeasesKnown
<1> QED  BY <1>1, <1>2, PoolInit, PTL DEF Spec

\* In a pool a session keeps its URL, leaves its caller only by the caller's
\* return, and is gone for good once it is withdrawn.
THEOREM LentTillReturned ==
  ASSUME NoUri \notin Uris
  PROVE  Spec => LentUntilReturned
<1>1. PoolInv /\ [Next]_vars => PoolInv' /\ [\A s \in Sessions : SessionHistory(s)]_vars
  BY PoolStep
<1> QED  BY <1>1, PoolInit, PTL DEF Spec, LentUntilReturned

=============================================================================
