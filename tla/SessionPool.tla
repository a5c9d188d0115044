----------------------------- MODULE SessionPool -----------------------------
(***************************************************************************)
(* What MSSpeechSessionFactory promises to the threads that call it: a     *)
(* pool of sessions, each made for one request URL, that lends a session   *)
(* to one caller at a time and only to a caller that asked for its URL.    *)
(*                                                                         *)
(* Nothing is said of how: no containers, no mutex, no run loop.           *)
(***************************************************************************)
CONSTANTS Callers, Uris, Sessions, NoSession, NoUri

VARIABLES
  asked,   \* the URL a caller has asked for and not yet given back
  lease,   \* the session lent to a caller
  filed,   \* the URL a session was made for
  phase    \* what becomes of a session

vars == <<asked, lease, filed, phase>>

Init ==
  /\ asked = [c \in Callers |-> NoUri]
  /\ lease = [c \in Callers |-> NoSession]
  /\ filed = [s \in Sessions |-> NoUri]
  /\ phase = [s \in Sessions |-> "none"]

\* A caller asks, nothing is on offer for its URL, and a session is made.
Ask(c, u) ==
  /\ asked[c] = NoUri
  /\ \A s \in Sessions : filed[s] = u => phase[s] # "offered"
  /\ asked' = [asked EXCEPT ![c] = u]
  /\ \E s \in Sessions :
       /\ phase[s] = "none"
       /\ phase' = [phase EXCEPT ![s] = "opening"]
       /\ filed' = [filed EXCEPT ![s] = u]
  /\ UNCHANGED lease

\* A caller that asks, or has asked before, gets a session on offer.
Lend(c, u, s) ==
  /\ asked[c] \in {NoUri, u}
  /\ lease[c] = NoSession
  /\ filed[s] = u
  /\ phase[s] = "offered"
  /\ asked' = [asked EXCEPT ![c] = u]
  /\ lease' = [lease EXCEPT ![c] = s]
  /\ phase' = [phase EXCEPT ![s] = "lent"]
  /\ UNCHANGED filed

\* The only way back on offer is the return by the one it was lent to.
Return(c) ==
  /\ lease[c] # NoSession
  /\ asked' = [asked EXCEPT ![c] = NoUri]
  /\ lease' = [lease EXCEPT ![c] = NoSession]
  /\ phase' = [phase EXCEPT ![lease[c]] = "offered"]
  /\ UNCHANGED filed

\* The service is ready for a new session.
Ready(s) ==
  /\ phase[s] = "opening"
  /\ phase' = [phase EXCEPT ![s] = "offered"]
  /\ UNCHANGED <<asked, lease, filed>>

\* A session that nobody has is taken out of the pool, for ever.
Withdraw(s) ==
  /\ phase[s] \in {"opening", "offered"}
  /\ phase' = [phase EXCEPT ![s] = "withdrawn"]
  /\ UNCHANGED <<asked, lease, filed>>

Next ==
  \/ \E c \in Callers, u \in Uris :
       Ask(c, u) \/ \E s \in Sessions : Lend(c, u, s)
  \/ \E c \in Callers : Return(c)
  \/ \E s \in Sessions : Ready(s) \/ Withdraw(s)

Spec == Init /\ [][Next]_vars

-----------------------------------------------------------------------------
(* What the pool promises *)

\* A leased session is lent, was made for the URL its caller asked for, and
\* is leased to nobody else.
LeasesAreExclusive ==
  \A c \in Callers : lease[c] # NoSession =>
    /\ phase[lease[c]] = "lent"
    /\ filed[lease[c]] = asked[c]
    /\ \A d \in Callers \ {c} : lease[d] # lease[c]

\* A session keeps its URL, is lent until its own caller gives it back, and
\* comes back neither to the offers nor to a caller once it was withdrawn.
SessionHistory(s) ==
  /\ filed[s] # NoUri => filed'[s] = filed[s]
  /\ (phase[s] = "lent" /\ phase'[s] # "lent") =>
       /\ phase'[s] = "offered"
       /\ \E c \in Callers : lease[c] = s /\ lease'[c] = NoSession
  /\ phase[s] = "withdrawn" => phase'[s] = "withdrawn"

LentUntilReturned == [][\A s \in Sessions : SessionHistory(s)]_vars

=============================================================================
