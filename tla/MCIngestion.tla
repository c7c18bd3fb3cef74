---------------------------- MODULE MCIngestion -----------------------------
(***************************************************************************)
(* Two overlapping runs over two sources: `old` was ingested before        *)
(* artwork extraction existed and has a picture, `new` is not in the       *)
(* catalogue yet.                                                          *)
(***************************************************************************)
EXTENDS Ingestion, TLC

CONSTANTS old, new

OneLegacyId == old :> 1
NoLegacyId == <<>>

RunSymmetry == Permutations(Runs)
=============================================================================
