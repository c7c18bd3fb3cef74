---------------------------- MODULE MCRecognition ---------------------------
(***************************************************************************)
(* One client with as many requests as its retries can make of one tap,    *)
(* all of whose handlers may be alive at once; two songs that may be       *)
(* deleted, two versions, and one stop or crash of the backend.            *)
(***************************************************************************)
EXTENDS Recognition
=============================================================================
