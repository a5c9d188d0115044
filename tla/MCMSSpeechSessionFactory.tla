---------------------- MODULE MCMSSpeechSessionFactory ----------------------
(***************************************************************************)
(* MSSpeechSessionFactory for TLC.                                         *)
(***************************************************************************)
EXTENDS MSSpeechSessionFactory, TLC

CONSTANTS c1, c2, u1, u2

MCCallers == {c1, c2}

MCUris == {u1, u2}

\* Callers and URLs are interchangeable, in the runs that check no liveness;
\* the addresses of sessions are not, since std::set orders them.
Symmetry == Permutations(MCCallers) \cup Permutations(MCUris)

=============================================================================
