------------------------------- MODULE Scoring ------------------------------
(***************************************************************************)
(* Ranking and the acceptance gates (backend/src/matching/scoring.rs and   *)
(* the second half of MatchingEngine::recognize).                          *)
(*                                                                         *)
(* A candidate is a record [song, dominant, total, covered]: votes of its  *)
(* dominant bucket, votes altogether, and distinct query hashes in the     *)
(* dominant bucket.  The code computes ratios in f64; here a ratio is a    *)
(* pair <<numerator, denominator>> and comparisons are cross-multiplied,   *)
(* so two ratios are equal exactly when the fractions are.                 *)
(***************************************************************************)
EXTENDS Integers, FiniteSets, Sequences

CONSTANTS
    MinDominantVotes,   \* MATCH_MIN_DOMINANT_VOTES
    MinScore,           \* MATCH_MIN_SCORE, a ratio
    MinCoverage,        \* MATCH_MIN_COVERAGE, a ratio
    MinMarginRatio      \* MATCH_MIN_MARGIN_RATIO, a ratio

IsRatio(q) == q \in Nat \X (Nat \ {0})

ASSUME ScoringAssumption ==
    /\ MinDominantVotes \in Nat
    /\ IsRatio(MinScore) /\ IsRatio(MinCoverage) /\ IsRatio(MinMarginRatio)

AtLeast(p, q) == p[1] * q[2] >= q[1] * p[2]

\* dominant * concentration = dominant * dominant / total
Score(c) == <<c.dominant * c.dominant, c.total>>

\* The share of the query's landmarks that the dominant offset explains.
Coverage(c, queryCount) == <<c.covered, queryCount>>

(***************************************************************************)
(* The orders sort_by may leave.  The sort is stable, but its input is the *)
(* iteration of a HashMap, so candidates with equal scores come in any     *)
(* order.                                                                  *)
(***************************************************************************)
Rankings(cands) ==
    {q \in [1..Cardinality(cands) -> cands] :
        /\ \A i, j \in DOMAIN q : i # j => q[i] # q[j]
        /\ \A i, j \in DOMAIN q : i < j => AtLeast(Score(q[i]), Score(q[j]))}

\* Mutant: the ratio replaced by "at least as many votes".
MarginNotWorse(ranking) ==
    Len(ranking) > 1 => ranking[1].dominant >= ranking[2].dominant

\* Only the candidate ranked second is compared with the best.
MarginOk(ranking) ==
    Len(ranking) > 1 =>
        \/ ranking[2].dominant = 0
        \/ AtLeast(<<ranking[1].dominant, ranking[2].dominant>>, MinMarginRatio)

\* The gates, in the order the code tries them.
Gates == <<"InsufficientVotes", "BelowScoreThreshold",
           "BelowCoverageThreshold", "AmbiguousMargin">>

Fails(gate, ranking, queryCount) ==
    CASE gate = "InsufficientVotes" -> ranking[1].dominant < MinDominantVotes
      [] gate = "BelowScoreThreshold" -> ~AtLeast(Score(ranking[1]), MinScore)
      [] gate = "BelowCoverageThreshold" ->
             ~AtLeast(Coverage(ranking[1], queryCount), MinCoverage)
      [] gate = "AmbiguousMargin" -> ~MarginOk(ranking)

\* The first gate that turns the best candidate away; "Accept" if none does.
Verdict(ranking, queryCount) ==
    LET failing == {i \in DOMAIN Gates : Fails(Gates[i], ranking, queryCount)}
    IN  IF failing = {} THEN "Accept"
        ELSE Gates[CHOOSE i \in failing : \A j \in failing : i <= j]

Reasons == {"NoQueryFingerprints", "NoCandidates"} \cup {Gates[i] : i \in DOMAIN Gates}
=============================================================================
