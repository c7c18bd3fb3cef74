-------------------------- MODULE MCMatchingEngine --------------------------
(***************************************************************************)
(* A small catalogue and a few queries for MatchingEngine.                 *)
(*                                                                         *)
(* Song 1 has any three or fewer of six landmarks, song 2 one of a few     *)
(* row sets (among them copies of song 1's), song 3 one row or none, and   *)
(* one row of song 1 belongs to another algorithm version.  Offsets lie    *)
(* on, beside and between the boundaries of a 4 ms bucket, on both sides   *)
(* of zero.                                                                *)
(***************************************************************************)
EXTENDS MatchingEngine

Row(n, h, s, o, v) == [row |-> n, hash |-> h, song |-> s, offset |-> o, version |-> v]

Marks == {<<1, 0>>, <<1, 6>>, <<1, 7>>, <<2, 2>>, <<2, 5>>, <<2, 9>>}

RowsOf(s, marks) == {Row(0, m[1], s, m[2], 1) : m \in marks}

Small(n) == {marks \in SUBSET Marks : Cardinality(marks) <= n}

Song2 == {{}, {<<1, 6>>}, {<<1, 0>>, <<2, 2>>}, {<<1, 0>>, <<2, 5>>, <<2, 9>>}}

MCCatalogs ==
    {RowsOf(1, a) \cup RowsOf(2, b) \cup c \cup {Row(0, 1, 1, 3, 2)} :
        a \in Small(3), b \in Song2, c \in {{}, {Row(0, 2, 3, 5, 1), Row(1, 2, 3, 5, 1)}}}

\* The gates: score 1.0, coverage 1/3, and the default margin of 1.3.
MinScoreValue == <<1, 1>>
MinCoverageValue == <<1, 3>>
MinMarginRatioValue == <<13, 10>>

At(h, o) == [hash |-> h, offset |-> o]

MCQueries ==
    {<<>>,
     <<At(1, 0), At(2, 2)>>,
     <<At(1, 6), At(1, 7), At(2, 4)>>,
     <<At(1, 0), At(1, 6)>>,
     <<At(3, 0), At(1, 8), At(2, 11)>>}
=============================================================================
