----------------------------- MODULE MCGbridge -----------------------------
(***************************************************************************)
(* Gbridge for TLC.                                                        *)
(***************************************************************************)
EXTENDS Gbridge, TLC

CONSTANTS c1, c2

MCCallers == {c1, c2}

MCWords == STRING

\* A key and an endpoint, each set or not, and the endpoint or the level set
\* to nothing or to a word.
MCEnvironments ==
  UNION {[S -> {"notice"}] : S \in SUBSET {"subscriptionKey", "listenEndpoint"}}
  \cup [{"listenEndpoint"} -> {""}]
  \cup [{"logLevel"} -> {"", "notice"}]

\* Up to two settings, repeated and misleading ones included.
MCSettings ==
  LET settings == {<<>>, <<"-k", "2">>, <<"-m", "-k">>, <<"-k2">>}
  IN {a \o b : a, b \in settings}

\* What follows the settings: operands, with and without "--", and what is
\* refused.
MCTails ==
  {<<>>, <<"endpoint">>, <<"endpoint", "-k", "2">>, <<"--", "-k">>, <<"-m">>,
   <<"-1">>}

\* These, and the documented command lines with a level.
MCArguments ==
  {settings \o tail : settings \in MCSettings, tail \in MCTails} \cup
  {<<"-k", "key", "-d", l, "endpoint">> : l \in DocumentedLevels} \cup
  {<<"-k", "key", "-d", "verbose", "-m", "2", "endpoint">>,
   <<"-k", "key", "-m", "-1", "-t", "gst", "endpoint">>,
   <<"-k", "key", "-m2", "-k2", "-t", "-k2", "endpoint">>}

MCUnknown == {"-x", "-1"}

MCAttached == {"-k2", "-m2"}

MCLetter(word) == IF word = "-k2" THEN "-k" ELSE "-m"

MCRest(word) == "2"

\* A minus sign wraps around twice, and a word that is no number is 0.
MCNumber(word) == CASE word = "2" -> 2 [] word = "-1" -> -1 [] OTHER -> 0

=============================================================================
