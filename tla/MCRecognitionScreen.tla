-------------------------- MODULE MCRecognitionScreen --------------------------
(***************************************************************************)
(* Three taps: one whose recording or INSERT is still winding down, one    *)
(* that was cancelled after it and one that is under way.                  *)
(***************************************************************************)
EXTENDS RecognitionScreen
=============================================================================
