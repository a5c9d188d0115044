------------------------- MODULE MSSpeechRecoConfig -------------------------
(***************************************************************************)
(* MSSpeechRecoConfig (src/src/msspeechrecoconfig.h, .cpp): a Google       *)
(* recognition configuration as the mode, the language and the filter of   *)
(* the speech service, and as the URL that carries them.                   *)
(*                                                                         *)
(* A URL is the triple of what getMSSpeechUrl formats into it: the text    *)
(* around the three is fixed.                                              *)
(***************************************************************************)
EXTENDS Integers

\* The members after the constructor; _language is an empty string.
Default ==
  [recognitionMode |-> "INTERACTIVE", profanityFilterMode |-> "MASK",
   language |-> "", enableIntermediateResults |-> FALSE]

\* load answers INVALID_ARGUMENT for anything else.
Supported(config) ==
  /\ config.encoding = "LINEAR16"
  /\ config.maxAlternatives <= 5
  /\ ~config.speechContexts

\* load(RecognitionConfig) of a supported configuration.
Load(config) ==
  [Default EXCEPT
     !.language = config.languageCode,
     !.profanityFilterMode = IF config.profanityFilter THEN "MASK" ELSE "NONE"]

\* Faulty variant: the constructor's mode is kept.
LoadModeless(config) ==
  [Load(config) EXCEPT !.enableIntermediateResults = config.interimResults]

\* load(StreamingRecognitionConfig), which ends up in the one above first.
LoadStreaming(config) ==
  [Load(config) EXCEPT
     !.recognitionMode =
        IF config.singleUtterance THEN "INTERACTIVE" ELSE "DICTATION",
     !.enableIntermediateResults = config.interimResults]

MSSpeechUrl(reco) ==
  <<IF reco.recognitionMode = "INTERACTIVE" THEN "interactive" ELSE "dictation",
    reco.language,
    IF reco.profanityFilterMode = "MASK" THEN "mask" ELSE "raw">>

=============================================================================
