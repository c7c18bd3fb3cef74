----------------------------- MODULE MCAdminApi -----------------------------
(***************************************************************************)
(* A song that an admin ingests, and that is updated and deleted, while    *)
(* two clients read it through the cache.                                  *)
(***************************************************************************)
EXTENDS AdminApi, TLC

ReaderSymmetry == Permutations(Readers)
=============================================================================
