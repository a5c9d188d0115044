--------------------------- MODULE RecognitionCall ---------------------------
(***************************************************************************)
(* What a recognition call promises its client: results come one at a      *)
(* time, the call ends with one status, nothing comes after the status,    *)
(* and a call that was refused has no results.                             *)
(*                                                                         *)
(* GoogleCloudSpeechServiceImpl implements it, for each method.            *)
(***************************************************************************)
EXTENDS Integers, Sequences

VARIABLES
  responses,  \* the responses so far
  status      \* the status of the call, or "none"

cvars == <<responses, status>>

Init == responses = <<>> /\ status = "none"

Respond ==
  /\ status = "none"
  /\ Len(responses') = Len(responses) + 1
  /\ SubSeq(responses', 1, Len(responses)) = responses
  /\ UNCHANGED status

Complete ==
  /\ status = "none"
  /\ status' = "OK"
  /\ UNCHANGED responses

Refuse ==
  /\ status = "none"
  /\ responses = <<>>
  /\ status' \in {"INVALID_ARGUMENT", "FAILED_PRECONDITION", "UNIMPLEMENTED"}
  /\ UNCHANGED responses

Next == Respond \/ Complete \/ Refuse

Spec == Init /\ [][Next]_cvars

=============================================================================
