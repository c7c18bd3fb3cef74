---------------------------- MODULE MCRateLimiter ---------------------------
(***************************************************************************)
(* Two addresses with a burst of two.  A token takes two ticks to come     *)
(* back, so that levels lie between whole tokens; a bucket may be          *)
(* forgotten as soon as it is full again, the tightest case the assumption *)
(* allows.                                                                 *)
(***************************************************************************)
EXTENDS RateLimiter, TLC

AddressSymmetry == Permutations(Addresses)
=============================================================================
