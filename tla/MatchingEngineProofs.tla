------------------------ MODULE MatchingEngineProofs ------------------------
(***************************************************************************)
(* Proofs about the matching engine (backend/src/matching), for every      *)
(* catalogue, every query and every configuration: what the quantisation   *)
(* of offsets does, that the vote table is a tally of the rows looked up,  *)
(* and what follows for an answer.                                         *)
(***************************************************************************)
EXTENDS MatchingEngine, FiniteSetTheorems, TLAPS

\* A bucket has a positive width.
LEMMA WidthIsPositive == Width \in Nat \ {0} /\ Half \in Nat /\ 2 * Half \in {Width, Width - 1}
<1>1. Width \in Nat \ {0}
    BY BucketAssumption DEF Width
<1>2. /\ Half \in Int
      /\ 2 * Half \in {Width, Width - 1}
    BY <1>1 DEF Half
<1>3. QED
    BY <1>1, <1>2

\* What integer division by a bucket width means.
LEMMA DivisionByWidth ==
    ASSUME NEW n \in Nat
    PROVE  /\ n \div Width \in Nat
           /\ Width * (n \div Width) <= n
           /\ n < Width * (n \div Width) + Width
<1>1. Width \in Nat \ {0}
    BY WidthIsPositive
<1>2. \A w \in Nat \ {0} :
          n \div w \in Nat /\ w * (n \div w) <= n /\ n < w * (n \div w) + w
    BY SMT
<1>3. QED
    BY <1>1, <1>2

\* Every offset lies within half a bucket of the one it is put in.
THEOREM QuantizeIsNearest ==
    \A offset \in Int :
        /\ Quantize(offset) \in Int
        /\ -Width <= 2 * (offset - Width * Quantize(offset))
        /\ 2 * (offset - Width * Quantize(offset)) <= Width
<1> SUFFICES ASSUME NEW offset \in Int
             PROVE  /\ Quantize(offset) \in Int
                    /\ -Width <= 2 * (offset - Width * Quantize(offset))
                    /\ 2 * (offset - Width * Quantize(offset)) <= Width
    OBVIOUS
<1>1. Width \in Nat \ {0} /\ Half \in Nat /\ 2 * Half \in {Width, Width - 1}
    BY WidthIsPositive
<1>2. CASE offset >= 0
  <2> DEFINE n == offset + Half
             q == n \div Width
  <2>1. n \in Nat /\ Quantize(offset) = q
      BY <1>1, <1>2 DEF Quantize
  <2>2. q \in Nat /\ Width * q <= n /\ n < Width * q + Width
      BY <2>1, DivisionByWidth
  <2> HIDE DEF q
  <2> DEFINE m == Width * q
  <2>3. m \in Int /\ m <= n /\ n < m + Width
      BY <1>1, <2>2
  <2> HIDE DEF m
  <2>4. -Width <= 2 * (offset - m) /\ 2 * (offset - m) <= Width
      BY <1>1, <2>1, <2>3
  <2>5. QED
      BY <2>1, <2>2, <2>4 DEF m
<1>3. CASE offset < 0
  <2> DEFINE n == Half - offset
             q == n \div Width
  <2>1. n \in Nat /\ Quantize(offset) = -q
      BY <1>1, <1>3 DEF Quantize
  <2>2. q \in Nat /\ Width * q <= n /\ n < Width * q + Width
      BY <2>1, DivisionByWidth
  <2> HIDE DEF q
  <2> DEFINE m == Width * q
  <2>3. m \in Int /\ m <= n /\ n < m + Width /\ Width * (-q) = -m
      BY <1>1, <2>2
  <2> HIDE DEF m
  <2>4. -Width <= 2 * (offset + m) /\ 2 * (offset + m) <= Width
      BY <1>1, <2>1, <2>3
  <2>5. offset - Width * Quantize(offset) = offset + m
      BY <2>1, <2>3
  <2>6. QED
      BY <2>1, <2>2, <2>4, <2>5
<1>4. QED
    BY <1>2, <1>3

\* Offsets of opposite sign go to opposite buckets: rounding has no bias (voting.rs 119-126).
THEOREM QuantizeIsOdd == \A offset \in Int : Quantize(-offset) = -Quantize(offset)
<1> SUFFICES ASSUME NEW offset \in Int PROVE Quantize(-offset) = -Quantize(offset)
    OBVIOUS
<1>1. Width \in Nat \ {0} /\ Half \in Nat /\ 2 * Half \in {Width, Width - 1}
    BY WidthIsPositive
<1>2. CASE offset = 0
  <2>1. Half \div Width = 0
    <3>1. /\ Half \div Width \in Nat
          /\ Width * (Half \div Width) <= Half
        BY <1>1, DivisionByWidth
    <3>2. Half < Width
        BY <1>1
    <3> DEFINE q == Half \div Width
    <3> HIDE DEF q
    <3>3. q >= 1 => Width * q >= Width
        BY <1>1, <3>1 DEF q
    <3>4. q = 0
        BY <1>1, <3>1, <3>2, <3>3 DEF q
    <3>5. QED
        BY <3>4 DEF q
  <2>2. QED
      BY <1>1, <1>2, <2>1 DEF Quantize
<1>3. CASE offset > 0
  <2>1. /\ Quantize(offset) = (offset + Half) \div Width
        /\ Quantize(-offset) = -((Half - (-offset)) \div Width)
      BY <1>3 DEF Quantize
  <2>2. Half - (-offset) = offset + Half
      BY <1>1
  <2>3. QED
      BY <2>1, <2>2
<1>4. CASE offset < 0
  <2>1. /\ Quantize(offset) = -((Half - offset) \div Width)
        /\ Quantize(-offset) = (-offset + Half) \div Width
      BY <1>4 DEF Quantize
  <2>2. -offset + Half = Half - offset
      BY <1>1
  <2>3. (Half - offset) \div Width \in Nat
      BY <1>1, <1>4, DivisionByWidth
  <2>4. QED
      BY <2>1, <2>2, <2>3
<1>5. QED
    BY <1>2, <1>3, <1>4

\* Numbers less than a width apart are in the same interval of a width or in
\* neighbouring ones.
LEMMA DivisionIsSteady ==
    ASSUME NEW m \in Nat, NEW n \in Nat, m <= n, n < m + Width
    PROVE  (n \div Width) - (m \div Width) \in {0, 1}
<1> DEFINE q == m \div Width
           r == n \div Width
<1>1. Width \in Nat \ {0}
    BY WidthIsPositive
<1>2. q \in Nat /\ Width * q <= m /\ m < Width * q + Width
    BY DivisionByWidth
<1>3. r \in Nat /\ Width * r <= n /\ n < Width * r + Width
    BY DivisionByWidth
<1> HIDE DEF q, r
<1>4. \A w, x, y \in Nat : x < y => w * x + w <= w * y
  <2>1. \A w, x, d \in Nat : w * (x + 1 + d) = w * x + w + w * d /\ w * d \in Nat
      BY SMT
  <2> TAKE w \in Nat, x \in Nat, y \in Nat
  <2> HAVE x < y
  <2>2. PICK d \in Nat : y = x + 1 + d
      <3>1. y - x - 1 \in Nat /\ y = x + 1 + (y - x - 1)
          OBVIOUS
      <3>2. QED
          BY <3>1
  <2>3. w * y = w * x + w + w * d /\ w * d \in Nat /\ w * x \in Nat
      BY <2>1, <2>2
  <2>4. QED
      BY <2>3
<1>5. Width * q \in Nat /\ Width * r \in Nat
    BY <1>1, <1>2, <1>3
<1>6. ~(r < q)
    BY <1>1, <1>2, <1>3, <1>4, <1>5
<1>7. ~(q + 1 < r)
  <2>1. Width * q + Width <= Width * (q + 1)
      BY <1>1, <1>2, <1>4
  <2>2. q + 1 < r => Width * (q + 1) + Width <= Width * r
      BY <1>1, <1>2, <1>3, <1>4
  <2> DEFINE s == Width * (q + 1)
  <2>3. s \in Nat
      BY <1>1, <1>2
  <2> HIDE DEF s
  <2>4. q + 1 < r => Width * q + Width + Width <= n
      BY <1>1, <1>3, <1>5, <2>1, <2>2, <2>3 DEF s
  <2>5. QED
      BY <1>1, <1>2, <1>3, <1>5, <2>4
<1>8. r - q \in {0, 1}
    BY <1>2, <1>3, <1>6, <1>7
<1>9. QED
    BY <1>8 DEF q, r

(***************************************************************************)
(* Offsets less than a bucket apart get the same bucket or neighbouring    *)
(* ones, on either side of zero and across it (voting.rs 115-127): votes   *)
(* that a rounding error sets apart are split between two buckets at most. *)
(***************************************************************************)
THEOREM QuantizeIsSteady ==
    \A a, b \in Int : a <= b /\ b < a + Width => Quantize(b) - Quantize(a) \in {0, 1}
<1> TAKE a \in Int, b \in Int
<1> HAVE a <= b /\ b < a + Width
<1>1. Width \in Nat \ {0} /\ Half \in Nat /\ 2 * Half \in {Width, Width - 1}
    BY WidthIsPositive
<1>2. CASE a >= 0
  <2>1. /\ Quantize(a) = (a + Half) \div Width
        /\ Quantize(b) = (b + Half) \div Width
      BY <1>2 DEF Quantize
  <2>2. /\ a + Half \in Nat /\ b + Half \in Nat
        /\ a + Half <= b + Half /\ b + Half < a + Half + Width
      BY <1>1, <1>2
  <2>3. QED
      BY <2>1, <2>2, DivisionIsSteady
<1>3. CASE b < 0
  <2> DEFINE q == (Half - a) \div Width
             r == (Half - b) \div Width
  <2>1. Quantize(a) = -q /\ Quantize(b) = -r
      BY <1>3 DEF Quantize
  <2>2. /\ Half - a \in Nat /\ Half - b \in Nat
        /\ Half - b <= Half - a /\ Half - a < Half - b + Width
      BY <1>1, <1>3
  <2>3. q - r \in {0, 1} /\ q \in Nat /\ r \in Nat
      BY <2>2, DivisionIsSteady, DivisionByWidth
  <2> HIDE DEF q, r
  <2>4. QED
      BY <2>1, <2>3
<1>4. CASE a < 0 /\ b >= 0
  <2> DEFINE q == (Half - a) \div Width
             r == (b + Half) \div Width
  <2>1. Quantize(a) = -q /\ Quantize(b) = r
      BY <1>4 DEF Quantize
  <2>2. Half - a \in Nat /\ b + Half \in Nat
      BY <1>1, <1>4
  <2>3. /\ q \in Nat /\ Width * q <= Half - a
        /\ r \in Nat /\ Width * r <= b + Half
      BY <2>2, DivisionByWidth
  <2> HIDE DEF q, r
  <2>4. \A w, k, x \in Nat : x >= k => w * x >= w * k
      BY SMT
  <2>5. /\ q >= 1 => Half - a >= Width
        /\ q >= 2 => Half - a >= 2 * Width
        /\ r >= 1 => b + Half >= Width
        /\ r >= 2 => b + Half >= 2 * Width
    <3>1. /\ Width * q \in Nat /\ Width * r \in Nat
          /\ Width * 1 = Width /\ Width * 2 = 2 * Width
        BY <1>1, <2>3
    <3>2. /\ q >= 1 => Width * q >= Width * 1
          /\ q >= 2 => Width * q >= Width * 2
          /\ r >= 1 => Width * r >= Width * 1
          /\ r >= 2 => Width * r >= Width * 2
        BY <1>1, <2>3, <2>4
    <3>3. QED
        BY <1>1, <2>2, <2>3, <3>1, <3>2
  <2>6. ~(q >= 2) /\ ~(r >= 2) /\ ~(q >= 1 /\ r >= 1)
      BY <1>1, <1>4, <2>5
  <2>7. QED
      BY <2>1, <2>3, <2>6
<1>5. QED
    BY <1>2, <1>3, <1>4

-----------------------------------------------------------------------------
(***************************************************************************)
(* Finite sets.                                                            *)
(***************************************************************************)

\* Among sets of subsets of a finite set there is a smallest one.
LEMMA SmallestSubset ==
    ASSUME NEW S, IsFiniteSet(S), NEW B \in SUBSET (SUBSET S), B # {}
    PROVE  \E T \in B : \A U \in B : U \subseteq T => U = T
<1>1. IsWellFoundedOn(StrictSubsetOrdering(S), SUBSET S)
    BY FS_FiniteSubsetsOfFinite, FS_StrictSubsetOrderingWellFounded
<1>2. PICK T \in B : \A U \in B : ~ (<<U, T>> \in StrictSubsetOrdering(S))
    BY <1>1, WFMin
<1>3. ASSUME NEW U \in B, U \subseteq T PROVE U = T
    BY <1>2, <1>3 DEF StrictSubsetOrdering
<1>4. QED
    BY <1>3

\* A total and transitive relation has a greatest element in a finite set.
LEMMA FiniteSetHasGreatest ==
    ASSUME NEW S, IsFiniteSet(S), S # {}, NEW R,
           \A x, y \in S : <<x, y>> \in R \/ <<y, x>> \in R,
           \A x, y, z \in S : <<x, y>> \in R /\ <<y, z>> \in R => <<x, z>> \in R
    PROVE  \E x \in S : \A y \in S : <<x, y>> \in R
<1> DEFINE Great(T) == \E x \in T : \A y \in T : <<x, y>> \in R
           B == {T \in SUBSET S : T # {} /\ ~Great(T)}
<1>1. SUFFICES ASSUME ~Great(S) PROVE FALSE
    OBVIOUS
<1>2. B \in SUBSET (SUBSET S) /\ B # {}
    BY <1>1
<1>3. \A T \in SUBSET S : T \in B <=> T # {} /\ ~Great(T)
    OBVIOUS
<1> HIDE DEF B
<1>4. PICK T \in B : \A U \in B : U \subseteq T => U = T
    BY <1>2, SmallestSubset
<1>5. T \subseteq S /\ ~Great(T)
    BY <1>2, <1>3
<1>6. PICK m \in T : TRUE
    BY <1>2, <1>3
<1>7. CASE T \ {m} = {}
  <2>1. \A y \in T : <<m, y>> \in R
      BY <1>5, <1>6, <1>7
  <2>2. QED
      BY <1>5, <1>6, <2>1
<1>8. CASE T \ {m} # {}
  <2>1. Great(T \ {m})
    <3>1. T \ {m} \subseteq T /\ T \ {m} # T
        BY <1>6
    <3>2. T \ {m} \notin B
        BY <1>4, <3>1
    <3>3. QED
        BY <1>3, <1>5, <1>8, <3>2
  <2>2. PICK x \in T \ {m} : \A y \in T \ {m} : <<x, y>> \in R
      BY <2>1
  <2>3. CASE <<x, m>> \in R
    <3>1. \A y \in T : <<x, y>> \in R
        BY <2>2, <2>3
    <3>2. QED
        BY <1>5, <3>1
  <2>4. CASE <<m, x>> \in R
    <3>1. \A y \in T : <<m, y>> \in R
        BY <1>5, <1>6, <2>2, <2>4
    <3>2. QED
        BY <1>5, <1>6, <3>1
  <2>5. QED
      BY <1>5, <1>6, <2>3, <2>4
<1>9. QED
    BY <1>7, <1>8

\* A set that can be told apart in a finite set is finite and no larger.
LEMMA ToldApart ==
    ASSUME NEW S, NEW T, IsFiniteSet(T), NEW f \in [S -> T],
           \A x, y \in S : f[x] = f[y] => x = y
    PROVE  IsFiniteSet(S) /\ Cardinality(S) <= Cardinality(T)
<1>1. f \in Injection(S, T)
    BY DEF Injection, IsInjective
<1>2. QED
    BY <1>1, FS_Injection

\* What a finite set is mapped onto is finite.
LEMMA MappedOnto ==
    ASSUME NEW S, NEW T, IsFiniteSet(S), NEW f \in [S -> T], \A y \in T : \E x \in S : f[x] = y
    PROVE  IsFiniteSet(T) /\ Cardinality(T) <= Cardinality(S)
<1>1. f \in Surjection(S, T)
    BY DEF Surjection
<1>2. QED
    BY <1>1, FS_Surjection

-----------------------------------------------------------------------------
(***************************************************************************)
(* The vote table as a tally.                                              *)
(***************************************************************************)

\* One ballot per returned row and position of the query with its hash ...
Ballots(q, rows) == {b \in rows \X DOMAIN q : q[b[2]].hash = b[1][2].hash}

\* ... of which bucket k gets those.
Cast(q, rows, k) == {b \in Ballots(q, rows) : Ballot(q, b[1][2], b[2]) = k}

\* The table vs and the hashes hs are what `rows` have voted for.
Counted(q, rows, vs, hs) ==
    /\ DOMAIN vs = {Ballot(q, b[1][2], b[2]) : b \in Ballots(q, rows)}
    /\ DOMAIN hs = DOMAIN vs
    /\ \A k \in DOMAIN vs :
          /\ vs[k] = Cardinality(Cast(q, rows, k))
          /\ hs[k] = {b[1][2].hash : b \in Cast(q, rows, k)}

\* The positions of a query are finitely many.
LEMMA PositionsAreFinite ==
    ASSUME NEW q \in Seq(Mark)
    PROVE  /\ DOMAIN q = 1..Len(q) /\ Len(q) \in Nat
           /\ IsFiniteSet(DOMAIN q) /\ Cardinality(DOMAIN q) = Len(q)
           /\ \A j \in DOMAIN q : q[j] \in Mark
<1>1. DOMAIN q = 1..Len(q) /\ Len(q) \in Nat /\ \A j \in DOMAIN q : q[j] \in Mark
    OBVIOUS
<1>2. IsFiniteSet(1..Len(q)) /\ Cardinality(1..Len(q)) = Len(q)
    BY <1>1, FS_Interval
<1>3. QED
    BY <1>1, <1>2

\* A lookup in a finite table returns finitely many rows.
LEMMA LookupIsFinite ==
    ASSUME NEW q \in Seq(Mark), NEW rows, IsFiniteSet(rows), NEW v
    PROVE  IsFiniteSet(Lookup(q, rows, v)) /\ Lookup(q, rows, v) \subseteq (DOMAIN q) \X rows
<1>1. IsFiniteSet(DOMAIN q)
    BY PositionsAreFinite
<1>2. IsFiniteSet((DOMAIN q) \X rows)
    BY <1>1, FS_Product
<1>3. Lookup(q, rows, v) \subseteq (DOMAIN q) \X rows
    BY DEF Lookup
<1>4. QED
    BY <1>2, <1>3, FS_Subset

\* So do its ballots.
LEMMA BallotsAreFinite ==
    ASSUME NEW q \in Seq(Mark), NEW rows, IsFiniteSet(rows)
    PROVE  /\ IsFiniteSet(Ballots(q, rows))
           /\ \A k : IsFiniteSet(Cast(q, rows, k)) /\ Cast(q, rows, k) \subseteq Ballots(q, rows)
<1>1. IsFiniteSet(DOMAIN q)
    BY PositionsAreFinite
<1>2. IsFiniteSet(rows \X DOMAIN q)
    BY <1>1, FS_Product
<1>3. Ballots(q, rows) \subseteq rows \X DOMAIN q
    BY DEF Ballots
<1>4. IsFiniteSet(Ballots(q, rows))
    BY <1>2, <1>3, FS_Subset
<1>5. \A k : Cast(q, rows, k) \subseteq Ballots(q, rows)
    BY DEF Cast
<1>6. QED
    BY <1>4, <1>5, FS_Subset

\* A bucket that is in the table has a vote and a hash.
LEMMA BucketsAreTypeCorrect ==
    ASSUME NEW q \in Seq(Mark), NEW rows \in SUBSET ((DOMAIN q) \X TableRow), IsFiniteSet(rows),
           NEW vs, NEW hs, Counted(q, rows, vs, hs)
    PROVE  /\ IsFiniteSet(DOMAIN vs)
           /\ DOMAIN vs \subseteq (Nat \ {0}) \X Int
           /\ \A k \in DOMAIN vs : vs[k] \in Nat \ {0} /\ hs[k] # {} /\ IsFiniteSet(hs[k])
<1>1. IsFiniteSet(Ballots(q, rows))
    BY BallotsAreFinite
<1>2. IsFiniteSet(DOMAIN vs)
  <2> DEFINE B == Ballots(q, rows)
             f == [b \in B |-> Ballot(q, b[1][2], b[2])]
  <2>1. f \in [B -> DOMAIN vs] /\ \A k \in DOMAIN vs : \E b \in B : f[b] = k
      BY DEF Counted
  <2> HIDE DEF f, B
  <2>2. QED
      BY <1>1, <2>1, MappedOnto DEF B
<1>3. ASSUME NEW k \in DOMAIN vs PROVE k \in (Nat \ {0}) \X Int
  <2>1. PICK b \in Ballots(q, rows) : k = Ballot(q, b[1][2], b[2])
      BY DEF Counted
  <2> DEFINE r == b[1][2]
             x == q[b[2]]
  <2>2. b \in rows \X DOMAIN q
      BY DEF Ballots
  <2>3. r \in TableRow /\ x \in Mark
      BY <2>2, PositionsAreFinite
  <2>4. k = <<r.song, Quantize(r.offset - x.offset)>>
      BY <2>1 DEF Ballot
  <2> HIDE DEF r, x
  <2>5. r.song \in Nat \ {0} /\ r.offset \in Int /\ x.offset \in Int
      BY <2>3 DEF TableRow, Mark
  <2>6. r.offset - x.offset \in Int
      BY <2>5
  <2>7. QED
      BY <2>4, <2>5, <2>6, QuantizeIsNearest
<1>4. ASSUME NEW k \in DOMAIN vs PROVE vs[k] \in Nat \ {0} /\ hs[k] # {} /\ IsFiniteSet(hs[k])
  <2>1. Cast(q, rows, k) # {}
      BY DEF Counted, Cast
  <2>2. IsFiniteSet(Cast(q, rows, k))
      BY BallotsAreFinite
  <2>3. Cardinality(Cast(q, rows, k)) \in Nat \ {0}
      BY <2>1, <2>2, FS_CardinalityType, FS_EmptySet
  <2>4. vs[k] = Cardinality(Cast(q, rows, k)) /\ hs[k] = {b[1][2].hash : b \in Cast(q, rows, k)}
      BY DEF Counted
  <2>5. IsFiniteSet(hs[k])
    <3> DEFINE C == Cast(q, rows, k)
               f == [b \in C |-> b[1][2].hash]
    <3>1. f \in [C -> hs[k]] /\ \A h \in hs[k] : \E b \in C : f[b] = h
        BY <2>4
    <3> HIDE DEF f
    <3>2. QED
        BY <2>2, <3>1, MappedOnto
  <2>6. QED
      BY <2>1, <2>3, <2>4, <2>5
<1>5. QED
    BY <1>2, <1>3, <1>4

\* One turn of the voting loop adds the ballots of one more row.
LEMMA OneMoreRow ==
    ASSUME NEW q \in Seq(Mark), NEW rows, IsFiniteSet(rows), NEW m, m \notin rows,
           NEW vs, NEW hs, Counted(q, rows, vs, hs)
    PROVE  Counted(q, rows \cup {m}, CastVotes(q, vs, m[2]), MarkHits(q, hs, m[2]))
<1> DEFINE all == rows \cup {m}
           occ == Occurrences(q, m[2].hash)
           ballots == {Ballot(q, m[2], j) : j \in occ}
           New(k) == {j \in occ : Ballot(q, m[2], j) = k}
           more == CastVotes(q, vs, m[2])
           marked == MarkHits(q, hs, m[2])
<1>1. \A b : b \in Ballots(q, all) <=>
                 b \in Ballots(q, rows) \/ \E j \in occ : b = <<m, j>>
    BY DEF Ballots, Occurrences
<1>2. \A k, b : b \in Cast(q, all, k) <=>
                 b \in Cast(q, rows, k) \/ \E j \in New(k) : b = <<m, j>>
  <2> TAKE k, b
  <2>1. ASSUME NEW j \in occ, b = <<m, j>>
        PROVE  Ballot(q, b[1][2], b[2]) = Ballot(q, m[2], j)
      BY <2>1
  <2>2. b \in Cast(q, all, k) <=> b \in Ballots(q, all) /\ Ballot(q, b[1][2], b[2]) = k
      BY DEF Cast
  <2>3. b \in Cast(q, rows, k) <=> b \in Ballots(q, rows) /\ Ballot(q, b[1][2], b[2]) = k
      BY DEF Cast
  <2>4. \A j : j \in New(k) <=> j \in occ /\ Ballot(q, m[2], j) = k
      OBVIOUS
  <2> HIDE DEF all, occ, New
  <2>5. QED
      BY <1>1, <2>1, <2>2, <2>3, <2>4
<1>3. \A k : k \in DOMAIN vs <=> Cast(q, rows, k) # {}
    BY DEF Counted, Cast
<1>4. \A k : k \in ballots <=> New(k) # {}
    OBVIOUS
<1>5. \A k : IsFiniteSet(New(k))
  <2>1. IsFiniteSet(DOMAIN q)
      BY PositionsAreFinite
  <2>2. \A k : New(k) \subseteq DOMAIN q
      BY DEF Occurrences
  <2> HIDE DEF New
  <2>3. QED
      BY <2>1, <2>2, FS_Subset
<1>6. ASSUME NEW k
      PROVE  Cardinality(Cast(q, all, k)) = Cardinality(Cast(q, rows, k)) + Cardinality(New(k))
  <2> DEFINE old == Cast(q, rows, k)
             fresh == {<<m, j>> : j \in New(k)}
             f == [j \in New(k) |-> <<m, j>>]
  <2>1. Cast(q, all, k) = old \cup fresh
      BY <1>2
  <2>2. old \cap fresh = {}
      BY DEF Cast, Ballots
  <2>3. f \in Bijection(New(k), fresh)
      BY DEF Bijection, Injection, Surjection, IsInjective
  <2>4. IsFiniteSet(old)
      BY BallotsAreFinite
  <2>5. IsFiniteSet(New(k))
      BY <1>5
  <2> HIDE DEF old, fresh, f, New
  <2>6. IsFiniteSet(fresh) /\ Cardinality(fresh) = Cardinality(New(k))
      BY <2>3, <2>5, FS_Bijection DEF ExistsBijection
  <2>7. Cardinality(old \cup fresh) = Cardinality(old) + Cardinality(fresh) - Cardinality({})
      BY <2>2, <2>4, <2>6, FS_Union
  <2>8. Cardinality({}) = 0 /\ Cardinality(old) \in Nat /\ Cardinality(fresh) \in Nat
      BY <2>4, <2>6, FS_EmptySet, FS_CardinalityType
  <2>9. Cardinality(old \cup fresh) = Cardinality(old) + Cardinality(New(k))
      BY <2>6, <2>7, <2>8
  <2>10. QED
      BY <2>1, <2>9 DEF old
<1>7. DOMAIN more = DOMAIN vs \cup ballots /\ DOMAIN marked = DOMAIN vs \cup ballots
    BY DEF CastVotes, MarkHits, Counted
<1>8. DOMAIN more = {Ballot(q, b[1][2], b[2]) : b \in Ballots(q, all)}
  <2>1. DOMAIN vs = {Ballot(q, b[1][2], b[2]) : b \in Ballots(q, rows)}
      BY DEF Counted
  <2>2. ASSUME NEW k \in DOMAIN vs \cup ballots
        PROVE  \E b \in Ballots(q, all) : k = Ballot(q, b[1][2], b[2])
    <3>1. CASE k \in DOMAIN vs
        BY <1>1, <2>1, <3>1
    <3>2. CASE k \in ballots
      <4>1. PICK j \in occ : k = Ballot(q, m[2], j)
          BY <3>2
      <4>2. <<m, j>> \in Ballots(q, all)
          BY <1>1
      <4>3. QED
          BY <4>1, <4>2
    <3>3. QED
        BY <3>1, <3>2
  <2>3. ASSUME NEW b \in Ballots(q, all)
        PROVE  Ballot(q, b[1][2], b[2]) \in DOMAIN vs \cup ballots
    <3>1. CASE b \in Ballots(q, rows)
        BY <2>1, <3>1
    <3>2. CASE \E j \in occ : b = <<m, j>>
        BY <3>2
    <3>3. QED
        BY <1>1, <3>1, <3>2
  <2>4. QED
      BY <1>7, <2>2, <2>3
<1>9. ASSUME NEW k \in DOMAIN vs \cup ballots
      PROVE  /\ more[k] = Cardinality(Cast(q, all, k))
             /\ marked[k] = {b[1][2].hash : b \in Cast(q, all, k)}
  <2>1. more[k] = VotesAt(vs, k) + Cardinality(New(k))
      BY DEF CastVotes
  <2>2. VotesAt(vs, k) = Cardinality(Cast(q, rows, k))
      BY <1>3, FS_EmptySet DEF VotesAt, Counted
  <2>3. marked[k] = (IF k \in DOMAIN hs THEN hs[k] ELSE {})
                    \cup (IF k \in ballots THEN {m[2].hash} ELSE {})
      BY <1>7 DEF MarkHits, Counted
  <2>4. (IF k \in DOMAIN hs THEN hs[k] ELSE {}) = {b[1][2].hash : b \in Cast(q, rows, k)}
      BY <1>3 DEF Counted
  <2>5. (IF k \in ballots THEN {m[2].hash} ELSE {}) = {m[2].hash : j \in New(k)}
      BY <1>4
  <2>6. {b[1][2].hash : b \in Cast(q, all, k)}
            = {b[1][2].hash : b \in Cast(q, rows, k)} \cup {m[2].hash : j \in New(k)}
    <3>1. \A b \in Cast(q, all, k) :
              b[1][2].hash \in {c[1][2].hash : c \in Cast(q, rows, k)} \cup {m[2].hash : j \in New(k)}
        BY <1>2
    <3>2. \A b \in Cast(q, rows, k) : b \in Cast(q, all, k)
        BY <1>2
    <3>3. \A j \in New(k) : <<m, j>> \in Cast(q, all, k) /\ <<m, j>>[1][2].hash = m[2].hash
        BY <1>2
    <3> HIDE DEF New, all
    <3>4. QED
        BY <3>1, <3>2, <3>3
  <2>7. QED
      BY <1>6, <2>1, <2>2, <2>3, <2>4, <2>5, <2>6
<1>10. QED
    BY <1>7, <1>8, <1>9 DEF Counted

-----------------------------------------------------------------------------
(***************************************************************************)
(* What a vote table says of a song.                                       *)
(***************************************************************************)
VoteTable(vs) ==
    /\ IsFiniteSet(DOMAIN vs)
    /\ DOMAIN vs \subseteq (Nat \ {0}) \X Int
    /\ \A k \in DOMAIN vs : vs[k] \in Nat \ {0}

\* The buckets of a song are finitely many numbers.
LEMMA BucketsOfSong ==
    ASSUME NEW vs, VoteTable(vs), NEW s
    PROVE  /\ IsFiniteSet(BucketsOf(vs, s))
           /\ BucketsOf(vs, s) \subseteq Int
           /\ \A b : b \in BucketsOf(vs, s) <=> <<s, b>> \in DOMAIN vs
           /\ s \in Voted(vs) <=> BucketsOf(vs, s) # {}
<1> DEFINE K == {k \in DOMAIN vs : k[1] = s}
           f == [k \in K |-> k[2]]
<1>1. \A k \in DOMAIN vs : k = <<k[1], k[2]>> /\ k[1] \in Nat /\ k[2] \in Int
    BY DEF VoteTable
<1>2. BucketsOf(vs, s) \subseteq Int
    BY <1>1 DEF BucketsOf
<1>3. \A b : b \in BucketsOf(vs, s) <=> <<s, b>> \in DOMAIN vs
  <2> TAKE b
  <2>1. ASSUME b \in BucketsOf(vs, s) PROVE <<s, b>> \in DOMAIN vs
    <3>1. PICK k \in DOMAIN vs : k[1] = s /\ k[2] = b
        BY <2>1 DEF BucketsOf
    <3>2. QED
        BY <1>1, <3>1
  <2>2. ASSUME <<s, b>> \in DOMAIN vs PROVE b \in BucketsOf(vs, s)
    <3>1. <<s, b>>[1] = s /\ <<s, b>>[2] = b
        OBVIOUS
    <3>2. QED
        BY <2>2, <3>1 DEF BucketsOf
  <2>3. QED
      BY <2>1, <2>2
<1>4. s \in Voted(vs) <=> BucketsOf(vs, s) # {}
    BY DEF Voted, BucketsOf
<1>5. IsFiniteSet(K)
    BY FS_Subset DEF VoteTable
<1>6. f \in [K -> BucketsOf(vs, s)] /\ \A b \in BucketsOf(vs, s) : \E k \in K : f[k] = b
    BY DEF BucketsOf
<1> HIDE DEF K, f
<1>7. IsFiniteSet(BucketsOf(vs, s))
    BY <1>5, <1>6, MappedOnto
<1>8. QED
    BY <1>2, <1>3, <1>4, <1>7

\* The dominant bucket is one of the song's and no other one has more votes.
LEMMA DominantBucketIsOne ==
    ASSUME NEW vs, VoteTable(vs), NEW s \in Voted(vs)
    PROVE  /\ DominantBucket(vs, s) \in Int
           /\ <<s, DominantBucket(vs, s)>> \in DOMAIN vs
           /\ DominantVotes(vs, s) \in Nat \ {0}
           /\ \A b : <<s, b>> \in DOMAIN vs => vs[<<s, b>>] <= DominantVotes(vs, s)
<1> DEFINE B == BucketsOf(vs, s)
           Beats(b, c) == \/ vs[<<s, b>>] > vs[<<s, c>>]
                          \/ vs[<<s, b>>] = vs[<<s, c>>] /\ b <= c
           R == {p \in B \X B : Beats(p[1], p[2])}
<1>1. IsFiniteSet(B) /\ B # {} /\ B \subseteq Int
    BY BucketsOfSong
<1>2. \A b : b \in B <=> <<s, b>> \in DOMAIN vs
    BY BucketsOfSong
<1>3. \A b \in B : vs[<<s, b>>] \in Nat \ {0}
    BY <1>2 DEF VoteTable
<1> HIDE DEF B
<1>4. \A b, c \in B : <<b, c>> \in R <=> Beats(b, c)
    OBVIOUS
<1>5. \A b, c \in B : Beats(b, c) \/ Beats(c, b)
    BY <1>1, <1>3
<1>6. \A b, c, d \in B : Beats(b, c) /\ Beats(c, d) => Beats(b, d)
    BY <1>1, <1>3
<1> HIDE DEF R, Beats
<1>7. /\ \A b, c \in B : <<b, c>> \in R \/ <<c, b>> \in R
      /\ \A b, c, d \in B : <<b, c>> \in R /\ <<c, d>> \in R => <<b, d>> \in R
    BY <1>4, <1>5, <1>6
<1>8. \E b \in B : \A c \in B : <<b, c>> \in R
    BY <1>1, <1>7, FiniteSetHasGreatest
<1>9. \E b \in B : \A c \in B : Beats(b, c)
    BY <1>4, <1>8
<1>10. DominantBucket(vs, s) \in B /\ \A c \in B : Beats(DominantBucket(vs, s), c)
  <2>1. DominantBucket(vs, s) = CHOOSE b \in B : \A c \in B : Beats(b, c)
      BY DEF DominantBucket, B, Beats
  <2>2. QED
      BY <1>9, <2>1
<1>11. DominantVotes(vs, s) \in Nat \ {0}
    BY <1>3, <1>10 DEF DominantVotes
<1>12. ASSUME NEW b, <<s, b>> \in DOMAIN vs PROVE vs[<<s, b>>] <= DominantVotes(vs, s)
  <2>1. b \in B
      BY <1>2, <1>12
  <2>2. Beats(DominantBucket(vs, s), b) /\ vs[<<s, b>>] \in Nat
      BY <1>3, <1>10, <2>1
  <2>3. QED
      BY <1>11, <2>2 DEF Beats, DominantVotes
<1>13. QED
    BY <1>1, <1>2, <1>10, <1>11, <1>12

\* The votes of a song add up to a number.
LEMMA TotalIsNumber ==
    ASSUME NEW vs, VoteTable(vs), NEW s
    PROVE  TotalVotes(vs, s) \in Nat
<1> DEFINE B == BucketsOf(vs, s)
           Pile(b) == {b} \X (1..vs[<<s, b>>])
           P == {Pile(b) : b \in B}
           f == [b \in B |-> Pile(b)]
<1>1. IsFiniteSet(B)
    BY BucketsOfSong
<1>2. ASSUME NEW b \in B PROVE IsFiniteSet(Pile(b))
  <2>1. vs[<<s, b>>] \in Nat
      BY BucketsOfSong DEF VoteTable
  <2>2. IsFiniteSet({b})
      BY FS_Singleton
  <2>3. IsFiniteSet(1..vs[<<s, b>>])
      BY <2>1, FS_Interval
  <2>4. QED
      BY <2>2, <2>3, FS_Product
<1>3. f \in [B -> P] /\ \A p \in P : \E b \in B : f[b] = p
    OBVIOUS
<1>4. \A p \in P : IsFiniteSet(p)
    BY <1>2
<1>5. TotalVotes(vs, s) = Cardinality(UNION P)
    BY DEF TotalVotes
<1> HIDE DEF B, P, f
<1>6. IsFiniteSet(P)
    BY <1>1, <1>3, MappedOnto
<1>7. IsFiniteSet(UNION P)
    BY <1>4, <1>6, FS_UNION
<1>8. QED
    BY <1>5, <1>7, FS_CardinalityType

\* Every order of the candidates has each of them.
LEMMA RankingIsWhole ==
    ASSUME NEW C, IsFiniteSet(C), NEW q \in Rankings(C)
    PROVE  /\ q \in Seq(C) /\ Len(q) = Cardinality(C) /\ DOMAIN q = 1..Len(q)
           /\ \A c \in C : \E n \in 1..Len(q) : q[n] = c
           /\ \A m, n \in 1..Len(q) : m # n => q[m] # q[n]
           /\ \A m, n \in 1..Len(q) : m < n => AtLeast(Score(q[m]), Score(q[n]))
<1> DEFINE n == Cardinality(C)
           I == 1..n
<1>1. n \in Nat
    BY FS_CardinalityType
<1>2. IsFiniteSet(I) /\ Cardinality(I) = n
    BY <1>1, FS_Interval
<1>3. q \in [I -> C] /\ DOMAIN q = I
    BY DEF Rankings
<1>4. \A x, y \in I : q[x] = q[y] => x = y
    BY <1>3 DEF Rankings
<1>5. q \in Injection(I, C)
    BY <1>3, <1>4 DEF Injection, IsInjective
<1>6. q \in Surjection(I, C)
  <2> HIDE DEF I
  <2>1. Cardinality(I) = Cardinality(C) <=> q \in Surjection(I, C)
      BY <1>5, FS_Injection
  <2>2. QED
      BY <1>2, <2>1
<1>7. q \in Seq(C) /\ Len(q) = n
    BY <1>1, <1>3
<1>8. \A c \in C : \E x \in I : q[x] = c
    BY <1>6 DEF Surjection
<1>9. \A x, y \in I : x < y => AtLeast(Score(q[x]), Score(q[y]))
    BY <1>3 DEF Rankings
<1>10. QED
    BY <1>3, <1>4, <1>7, <1>8, <1>9

-----------------------------------------------------------------------------
(***************************************************************************)
(* The inductive invariant.                                                *)
(***************************************************************************)

Returned == Lookup(query, found, Version)

\* The rows that have voted.
Done == Returned \ pending

Accepted == Verdict(ranking, Len(query)) = "Accept"

\* What the rows, the query and the sets of rows are.
TablesTyped ==
    /\ songs \subseteq Nat \ {0}
    /\ table \subseteq TableRow /\ IsFiniteSet(table) /\ SongsOf(table) \subseteq songs
    /\ query \in Seq(Mark)

RequestTyped ==
    /\ found \subseteq TableRow /\ IsFiniteSet(found)
    /\ pending \subseteq Returned
    /\ pc \in {"lookup", "vote", "fetch", "done"}
    /\ outcome.reason \in Reasons \cup {"none", "Match", "Error"}

\* How far a request is, and what it holds there.
Controlled ==
    /\ pc = "lookup" => Fresh
    /\ pc = "vote" => ranking = <<>> /\ Returned # {}
    /\ ranking # <<>> => pending = {} /\ ranking \in Rankings(Candidates) /\ Candidates # {}
    /\ pc = "fetch" => ranking # <<>> /\ Accepted
    /\ outcome.reason = "Match" =>
           pc = "done" /\ ranking # <<>> /\ Accepted /\ outcome = Found(ranking[1].song)

Inv ==
    /\ TablesTyped
    /\ RequestTyped
    /\ Counted(query, Done, votes, hits)
    /\ Controlled

\* The verdict is one of the gates, or "Accept".
LEMMA VerdictIsGate ==
    ASSUME NEW q, NEW n
    PROVE  /\ Verdict(q, n) \in Reasons \cup {"Accept"}
           /\ Verdict(q, n) # "Match"
           /\ Verdict(q, n) = "Accept" => \A g \in DOMAIN Gates : ~Fails(Gates[g], q, n)
<1> DEFINE failing == {g \in DOMAIN Gates : Fails(Gates[g], q, n)}
           first == CHOOSE g \in failing : \A h \in failing : g <= h
<1>1. DOMAIN Gates = 1..4
    BY DEF Gates
<1>2. \A g \in DOMAIN Gates : Gates[g] \in Reasons /\ Gates[g] \notin {"Accept", "Match"}
    BY DEF Gates, Reasons
<1>3. CASE failing = {}
  <2>1. Verdict(q, n) = "Accept"
      BY <1>3 DEF Verdict
  <2>2. QED
      BY <1>3, <2>1
<1>4. CASE failing # {}
  <2>1. failing \subseteq {1, 2, 3, 4}
      BY <1>1
  <2>2. Verdict(q, n) = Gates[first]
      BY <1>4 DEF Verdict
  <2> HIDE DEF failing
  <2>3. \E g \in failing : \A h \in failing : g <= h
    <3>1. CASE 1 \in failing
        BY <2>1, <3>1
    <3>2. CASE 1 \notin failing /\ 2 \in failing
        BY <2>1, <3>2
    <3>3. CASE 1 \notin failing /\ 2 \notin failing /\ 3 \in failing
        BY <2>1, <3>3
    <3>4. CASE 1 \notin failing /\ 2 \notin failing /\ 3 \notin failing
      <4>1. failing = {4}
          BY <1>4, <2>1, <3>4
      <4>2. QED
          BY <4>1
    <3>5. QED
        BY <3>1, <3>2, <3>3, <3>4
  <2>4. first \in failing
      BY <2>3
  <2>5. first \in DOMAIN Gates
      BY <2>4 DEF failing
  <2> HIDE DEF first
  <2>6. QED
      BY <1>2, <2>2, <2>5
<1>5. QED
    BY <1>3, <1>4

\* A request that has not begun has counted nothing.
LEMMA FreshIsCounted ==
    ASSUME Fresh, query \in Seq(Mark)
    PROVE  RequestTyped /\ Counted(query, Done, votes, hits) /\ Controlled
<1>1. Returned = {} /\ Done = {}
    BY DEF Fresh, Returned, Done, Lookup
<1>2. Ballots(query, Done) = {}
    BY <1>1 DEF Ballots
<1>3. Counted(query, Done, votes, hits)
    BY <1>2 DEF Counted, Fresh
<1>4. outcome.reason = "none"
    BY DEF Fresh, NoOutcome
<1>5. IsFiniteSet(found)
    BY FS_EmptySet DEF Fresh
<1>6. RequestTyped
    BY <1>1, <1>4, <1>5 DEF RequestTyped, Fresh
<1>7. Controlled
    BY <1>4 DEF Controlled, Fresh
<1>8. QED
    BY <1>3, <1>6, <1>7

\* When all rows have voted, the returned ones have.
LEMMA AllCounted ==
    ASSUME Inv, pending = {}
    PROVE  /\ Counted(query, Returned, votes, hits)
           /\ VoteTable(votes)
           /\ IsFiniteSet(Returned) /\ Returned \subseteq (DOMAIN query) \X TableRow
           /\ \A k \in DOMAIN votes : hits[k] # {} /\ IsFiniteSet(hits[k])
<1>1. Done = Returned
    BY DEF Done
<1>2. IsFiniteSet(Returned) /\ Returned \subseteq (DOMAIN query) \X TableRow
    BY LookupIsFinite DEF Inv, TablesTyped, RequestTyped, Returned
<1>3. Counted(query, Returned, votes, hits) /\ query \in Seq(Mark)
    BY <1>1 DEF Inv, TablesTyped
<1>4. /\ IsFiniteSet(DOMAIN votes)
      /\ DOMAIN votes \subseteq (Nat \ {0}) \X Int
      /\ \A k \in DOMAIN votes : votes[k] \in Nat \ {0} /\ hits[k] # {} /\ IsFiniteSet(hits[k])
    BY <1>2, <1>3, BucketsAreTypeCorrect
<1>5. QED
    BY <1>2, <1>3, <1>4 DEF VoteTable

\* The candidates are finitely many, and each is its song's summary.
LEMMA CandidatesAreTyped ==
    ASSUME VoteTable(votes), \A k \in DOMAIN votes : IsFiniteSet(hits[k])
    PROVE  /\ IsFiniteSet(Candidates)
           /\ DOMAIN votes # {} => Candidates # {}
           /\ \A c \in Candidates :
                 /\ c = Candidate(c.song) /\ c.song \in Voted(votes)
                 /\ c.dominant \in Nat \ {0} /\ c.total \in Nat /\ c.covered \in Nat
<1> DEFINE V == Voted(votes)
           f == [s \in V |-> Candidate(s)]
           g == [k \in DOMAIN votes |-> k[1]]
<1>1. IsFiniteSet(V)
  <2>1. g \in [DOMAIN votes -> V] /\ \A s \in V : \E k \in DOMAIN votes : g[k] = s
      BY DEF Voted
  <2>2. IsFiniteSet(DOMAIN votes)
      BY DEF VoteTable
  <2> HIDE DEF V, g
  <2>3. QED
      BY <2>1, <2>2, MappedOnto
<1>2. f \in [V -> Candidates] /\ \A c \in Candidates : \E s \in V : f[s] = c
    BY DEF Candidates
<1>3. IsFiniteSet(Candidates)
  <2> HIDE DEF V, f
  <2>1. QED
      BY <1>1, <1>2, MappedOnto
<1>4. DOMAIN votes # {} => Candidates # {}
    BY DEF Candidates, Voted
<1>5. ASSUME NEW c \in Candidates
      PROVE  /\ c = Candidate(c.song) /\ c.song \in V
             /\ c.dominant \in Nat \ {0} /\ c.total \in Nat /\ c.covered \in Nat
  <2>1. PICK s \in V : c = Candidate(s)
      BY DEF Candidates
  <2>2. /\ c.song = s /\ c.dominant = DominantVotes(votes, s) /\ c.total = TotalVotes(votes, s)
        /\ c.covered = Cardinality(hits[<<s, DominantBucket(votes, s)>>])
      BY <2>1 DEF Candidate, DominantHashes
  <2>3. DominantVotes(votes, s) \in Nat \ {0} /\ <<s, DominantBucket(votes, s)>> \in DOMAIN votes
      BY DominantBucketIsOne
  <2>4. TotalVotes(votes, s) \in Nat
      BY TotalIsNumber
  <2>5. IsFiniteSet(hits[<<s, DominantBucket(votes, s)>>])
      BY <2>3
  <2>6. Cardinality(hits[<<s, DominantBucket(votes, s)>>]) \in Nat
      BY <2>5, FS_CardinalityType
  <2>7. QED
      BY <2>1, <2>2, <2>3, <2>4, <2>6
<1>6. QED
    BY <1>3, <1>4, <1>5

\* A row that was returned has voted, hence there is a candidate.
LEMMA ReturnedMakesCandidate ==
    ASSUME Inv, pending = {}, Returned # {}
    PROVE  IsFiniteSet(Candidates) /\ Candidates # {}
<1>1. PICK m \in Returned : TRUE
    OBVIOUS
<1>2. <<m, m[1]>> \in Ballots(query, Returned)
    BY DEF Ballots, Returned, Lookup
<1>3. Counted(query, Returned, votes, hits)
    BY AllCounted
<1>4. DOMAIN votes # {}
    BY <1>2, <1>3 DEF Counted
<1>5. VoteTable(votes) /\ \A k \in DOMAIN votes : IsFiniteSet(hits[k])
    BY AllCounted
<1>6. QED
    BY <1>4, <1>5, CandidatesAreTyped

\* What is left alone keeps its part of the invariant.
LEMMA RequestUntouched ==
    ASSUME Inv, UNCHANGED request
    PROVE  RequestTyped' /\ Counted(query, Done, votes, hits)' /\ Controlled' /\ query' \in Seq(Mark)
<1>1. /\ query' = query /\ found' = found /\ pending' = pending /\ votes' = votes
      /\ hits' = hits /\ ranking' = ranking /\ pc' = pc /\ outcome' = outcome
    BY DEF request
<1>2. Returned' = Returned /\ Done' = Done
    BY <1>1 DEF Returned, Done
<1>3. Candidates' = Candidates
    BY <1>1 DEF Candidates, Candidate
<1>4. Counted(query, Done, votes, hits)'
    BY <1>1, <1>2 DEF Inv
<1>5. RequestTyped'
    BY <1>1, <1>2 DEF Inv, RequestTyped
<1>6. Fresh' <=> Fresh
    BY <1>1 DEF Fresh
<1>7. Controlled'
    BY <1>1, <1>2, <1>3, <1>6 DEF Inv, Controlled, Accepted, Found
<1>8. QED
    BY <1>1, <1>4, <1>5, <1>7 DEF Inv, TablesTyped

\* A request that ends without a match keeps the invariant.
LEMMA EndsWithoutMatch ==
    ASSUME Inv, NEW reason \in (Reasons \cup {"Error"}) \ {"Match"}, Finish(NoMatch(reason)),
           UNCHANGED <<songs, table, query, found, pending, votes, hits, ranking>>
    PROVE  Inv'
<1>1. outcome'.reason = reason
    BY DEF Finish, NoMatch, NoOutcome
<1>2. Returned' = Returned /\ Done' = Done
    BY DEF Returned, Done
<1>3. Candidates' = Candidates
    BY DEF Candidates, Candidate
<1>4. Counted(query, Done, votes, hits)'
    BY <1>2 DEF Inv
<1>5. TablesTyped'
    BY DEF Inv, TablesTyped
<1>6. RequestTyped'
    BY <1>1, <1>2 DEF Inv, RequestTyped, Finish
<1>7. Controlled'
    BY <1>1, <1>2, <1>3 DEF Inv, Controlled, Finish
<1>8. QED
    BY <1>4, <1>5, <1>6, <1>7 DEF Inv

LEMMA RunLookupPreserves == Inv /\ RunLookup => Inv'
<1> SUFFICES ASSUME Inv, RunLookup PROVE Inv'
    OBVIOUS
<1>1. Fresh /\ UNCHANGED <<songs, table, query, votes, hits>> /\ found' = table
    BY DEF Inv, Controlled, RunLookup
<1>2. pending' = Returned' /\ ranking' = <<>>
    BY DEF RunLookup, Returned, Inv, Controlled, Fresh
<1>3. TablesTyped' /\ IsFiniteSet(found') /\ found' \subseteq TableRow
    BY <1>1 DEF Inv, TablesTyped
<1>4. \/ pending' = {} /\ pc' = "done" /\ outcome' = NoMatch("NoCandidates")
      \/ pending' # {} /\ pc' = "vote" /\ outcome' = outcome
    BY DEF RunLookup, Finish
<1>5. outcome'.reason \in Reasons \cup {"none"} /\ outcome'.reason # "Match"
    BY <1>1, <1>4 DEF Fresh, NoMatch, NoOutcome, Reasons, Gates
<1>6. Done' = {}
    BY <1>2 DEF Done
<1>7. Ballots(query', Done') = {} /\ votes' = <<>> /\ hits' = <<>>
    BY <1>1, <1>6 DEF Ballots, Fresh
<1>8. Counted(query, Done, votes, hits)'
    BY <1>7 DEF Counted
<1>9. RequestTyped'
    BY <1>2, <1>3, <1>4, <1>5 DEF RequestTyped
<1>10. Controlled'
    BY <1>2, <1>4, <1>5 DEF Controlled
<1>11. QED
    BY <1>3, <1>8, <1>9, <1>10 DEF Inv

LEMMA VotePreserves == ASSUME NEW m \in pending, Inv, Vote(m) PROVE Inv'
<1>1. /\ votes' = CastVotes(query, votes, m[2]) /\ hits' = MarkHits(query, hits, m[2])
      /\ pending' = pending \ {m} /\ pc = "vote"
      /\ UNCHANGED <<songs, table, query, found, ranking, pc, outcome>>
    BY DEF Vote
<1>2. Returned' = Returned /\ Done' = Done \cup {m} /\ m \notin Done
  <2>1. Returned' = Returned
      BY <1>1 DEF Returned
  <2>2. m \in Returned
      BY DEF Inv, RequestTyped
  <2>3. QED
      BY <1>1, <2>1, <2>2 DEF Done
<1>3. IsFiniteSet(Done)
    BY LookupIsFinite, FS_Subset DEF Inv, TablesTyped, RequestTyped, Returned, Done
<1>4. Counted(query, Done \cup {m}, votes', hits')
    BY <1>1, <1>2, <1>3, OneMoreRow DEF Inv, TablesTyped
<1>5. Counted(query, Done, votes, hits)'
    BY <1>1, <1>2, <1>4
<1>6. TablesTyped'
    BY <1>1 DEF Inv, TablesTyped
<1>7. RequestTyped'
    BY <1>1, <1>2 DEF Inv, RequestTyped
<1>8. Controlled'
    BY <1>1, <1>2 DEF Inv, Controlled
<1>9. QED
    BY <1>5, <1>6, <1>7, <1>8 DEF Inv

LEMMA JudgePreserves == Inv /\ Judge => Inv'
<1> SUFFICES ASSUME Inv, Judge PROVE Inv'
    OBVIOUS
<1>1. /\ pc = "vote" /\ pending = {} /\ ranking' \in Rankings(Candidates)
      /\ UNCHANGED <<songs, table, query, found, pending, votes, hits>>
    BY DEF Judge
<1>2. Returned' = Returned /\ Done' = Done /\ Candidates' = Candidates
    BY <1>1 DEF Returned, Done, Candidates, Candidate
<1>3. IsFiniteSet(Candidates) /\ Candidates # {}
    BY <1>1, ReturnedMakesCandidate DEF Inv, Controlled
<1>4. ranking' # <<>>
  <2>1. PICK c \in Candidates : TRUE
      BY <1>3
  <2>2. \E n \in 1..Len(ranking') : ranking'[n] = c
      BY <1>1, <1>3, RankingIsWhole
  <2>3. Len(<<>>) = 0
      OBVIOUS
  <2>4. QED
      BY <2>2, <2>3
<1>5. outcome.reason # "Match"
    BY <1>1 DEF Inv, Controlled
<1>6. \/ Accepted' /\ pc' = "fetch" /\ outcome' = outcome
      \/ /\ pc' = "done" /\ outcome'.reason = Verdict(ranking', Len(query))
         /\ ~Accepted'
    BY <1>1 DEF Judge, Finish, NoMatch, NoOutcome, Accepted
<1>7. outcome'.reason \in Reasons \cup {"none", "Error"} /\ outcome'.reason # "Match"
    BY <1>1, <1>5, <1>6, VerdictIsGate DEF Inv, RequestTyped, Accepted
<1>8. TablesTyped' /\ Counted(query, Done, votes, hits)'
    BY <1>1, <1>2 DEF Inv, TablesTyped
<1>9. RequestTyped'
    BY <1>1, <1>2, <1>6, <1>7 DEF Inv, RequestTyped
<1>10. Controlled'
    BY <1>1, <1>2, <1>3, <1>4, <1>6, <1>7 DEF Controlled
<1>11. QED
    BY <1>8, <1>9, <1>10 DEF Inv

LEMMA FetchPreserves == Inv /\ Fetch => Inv'
<1> SUFFICES ASSUME Inv, Fetch PROVE Inv'
    OBVIOUS
<1> DEFINE best == ranking[1].song
<1>1. /\ pc = "fetch"
      /\ UNCHANGED <<songs, table, query, found, pending, votes, hits, ranking>>
      /\ Finish(IF best \in songs THEN Found(best) ELSE NoMatch("NoCandidates"))
    BY DEF Fetch
<1>2. CASE best \notin songs
  <2>1. "NoCandidates" \in (Reasons \cup {"Error"}) \ {"Match"}
      BY DEF Reasons
  <2>2. QED
      BY <1>1, <1>2, <2>1, EndsWithoutMatch
<1>3. CASE best \in songs
  <2>1. pc' = "done" /\ outcome' = Found(best)
      BY <1>1, <1>3 DEF Finish
  <2>2. outcome'.reason = "Match" /\ outcome' = Found(ranking[1].song)'
      BY <1>1, <2>1 DEF Found
  <2>3. Returned' = Returned /\ Done' = Done /\ Candidates' = Candidates /\ Accepted' = Accepted
      BY <1>1 DEF Returned, Done, Candidates, Candidate, Accepted
  <2>4. TablesTyped' /\ Counted(query, Done, votes, hits)'
      BY <1>1, <2>3 DEF Inv, TablesTyped
  <2>5. RequestTyped'
      BY <1>1, <2>1, <2>2, <2>3 DEF Inv, RequestTyped
  <2>6. Controlled'
      BY <1>1, <2>1, <2>2, <2>3 DEF Inv, Controlled
  <2>7. QED
      BY <2>4, <2>5, <2>6 DEF Inv
<1>4. QED
    BY <1>2, <1>3

\* Deletions take rows away.
LEMMA DeletionPreserves ==
    ASSUME Inv, NEW s, DeleteSong(s) \/ DeleteFingerprints(s)
    PROVE  Inv'
<1>1. table' = {r \in table : r.song # s} /\ songs' \in {songs, songs \ {s}} /\ UNCHANGED request
    BY DEF DeleteSong, DeleteFingerprints
<1>2. IsFiniteSet(table') /\ table' \subseteq TableRow
    BY <1>1, FS_Subset DEF Inv, TablesTyped
<1>3. SongsOf(table') \subseteq songs'
    BY <1>1 DEF Inv, TablesTyped, SongsOf
<1>4. TablesTyped'
    BY <1>1, <1>2, <1>3, RequestUntouched DEF Inv, TablesTyped
<1>5. QED
    BY <1>1, <1>4, RequestUntouched DEF Inv

\* Every step of a request, or of somebody else, keeps the invariant.
LEMMA InvStep == Inv /\ [Next]_vars => Inv'
<1> SUFFICES ASSUME Inv, [Next]_vars PROVE Inv'
    OBVIOUS
<1>1. CASE RejectEmptyQuery
  <2>1. "NoQueryFingerprints" \in (Reasons \cup {"Error"}) \ {"Match"}
      BY DEF Reasons
  <2>2. QED
      BY <1>1, <2>1, EndsWithoutMatch DEF RejectEmptyQuery
<1>2. CASE RunLookup
    BY <1>2, RunLookupPreserves
<1>3. CASE Judge
    BY <1>3, JudgePreserves
<1>4. CASE Fetch
    BY <1>4, FetchPreserves
<1>5. CASE DatabaseError
    BY <1>5, EndsWithoutMatch DEF DatabaseError
<1>6. CASE \E m \in pending : Vote(m)
    BY <1>6, VotePreserves
<1>7. CASE \E s \in songs : DeleteSong(s) \/ DeleteFingerprints(s)
    BY <1>7, DeletionPreserves
<1>8. CASE UNCHANGED vars
  <2>1. UNCHANGED request /\ UNCHANGED <<songs, table>>
      BY <1>8 DEF vars
  <2>2. TablesTyped'
      BY <2>1, RequestUntouched DEF Inv, TablesTyped
  <2>3. QED
      BY <2>1, <2>2, RequestUntouched DEF Inv
<1>9. QED
    BY <1>1, <1>2, <1>3, <1>4, <1>5, <1>6, <1>7, <1>8 DEF Next

LEMMA InvInit == Init => Inv
<1> SUFFICES ASSUME Init PROVE Inv
    OBVIOUS
<1>1. /\ table \subseteq TableRow /\ IsFiniteSet(table) /\ songs = SongsOf(table)
      /\ query \in Seq(Mark) /\ Fresh
    BY EngineAssumption DEF Init
<1>2. SongsOf(table) \subseteq Nat \ {0}
    BY <1>1 DEF SongsOf, TableRow
<1>3. TablesTyped
    BY <1>1, <1>2 DEF TablesTyped
<1>4. QED
    BY <1>1, <1>3, FreshIsCounted DEF Inv

-----------------------------------------------------------------------------
(***************************************************************************)
(* What follows from the invariant.                                        *)
(***************************************************************************)
LEMMA TypeOKFromInv == Inv => TypeOK
<1> SUFFICES ASSUME Inv PROVE TypeOK
    OBVIOUS
<1>1. Done \subseteq Returned /\ IsFiniteSet(Returned) /\ Returned \subseteq (DOMAIN query) \X TableRow
    BY LookupIsFinite DEF Inv, TablesTyped, RequestTyped, Returned, Done
<1>2. IsFiniteSet(Done)
    BY <1>1, FS_Subset
<1>3. \A k \in DOMAIN votes : votes[k] \in Nat \ {0} /\ hits[k] # {}
    BY <1>1, <1>2, BucketsAreTypeCorrect DEF Inv, TablesTyped
<1>4. DOMAIN votes = DOMAIN hits
    BY DEF Inv, Counted
<1>5. QED
    BY <1>3, <1>4 DEF Inv, TablesTyped, RequestTyped, TypeOK, Returned

LEMMA OrderFreeFromInv == Inv => VotesAreOrderFree
<1> SUFFICES ASSUME Inv, pc = "vote", pending = {}
             PROVE  VotesAreOrderFree
    BY DEF VotesAreOrderFree
<1> DEFINE ballots == {b \in Lookup(query, found, Version) \X DOMAIN query :
                            query[b[2]].hash = b[1][2].hash}
<1>1. ballots = Ballots(query, Returned)
    BY DEF Ballots, Returned
<1>2. Counted(query, Returned, votes, hits)
    BY AllCounted
<1>3. \A k : {b \in ballots : Ballot(query, b[1][2], b[2]) = k} = Cast(query, Returned, k)
    BY <1>1 DEF Cast
<1>4. DOMAIN votes = {Ballot(query, b[1][2], b[2]) : b \in ballots}
    BY <1>1, <1>2 DEF Counted
<1>5. \A k \in DOMAIN votes :
          votes[k] = Cardinality({b \in ballots : Ballot(query, b[1][2], b[2]) = k})
    BY <1>2, <1>3 DEF Counted
<1> HIDE DEF ballots
<1>6. QED
    BY <1>4, <1>5 DEF VotesAreOrderFree, ballots

\* Once there is a ranking, all rows have voted and the query has a landmark.
LEMMA RankedIsCounted ==
    ASSUME Inv, ranking # <<>>
    PROVE  /\ Counted(query, Returned, votes, hits) /\ VoteTable(votes)
           /\ IsFiniteSet(Returned) /\ Returned \subseteq (DOMAIN query) \X TableRow
           /\ \A k \in DOMAIN votes : hits[k] # {} /\ IsFiniteSet(hits[k])
           /\ query \in Seq(Mark) /\ found \subseteq TableRow /\ IsFiniteSet(found)
           /\ 1 \in DOMAIN query
           /\ IsFiniteSet(Candidates) /\ ranking \in Rankings(Candidates) /\ Candidates # {}
<1>1. pending = {} /\ Candidates # {} /\ ranking \in Rankings(Candidates)
    BY DEF Inv, Controlled
<1>2. query \in Seq(Mark) /\ found \subseteq TableRow /\ IsFiniteSet(found)
    BY DEF Inv, TablesTyped, RequestTyped
<1>3. /\ Counted(query, Returned, votes, hits) /\ VoteTable(votes)
      /\ IsFiniteSet(Returned) /\ Returned \subseteq (DOMAIN query) \X TableRow
      /\ \A k \in DOMAIN votes : hits[k] # {} /\ IsFiniteSet(hits[k])
    BY <1>1, AllCounted
<1>4. DOMAIN votes # {}
    BY <1>1 DEF Candidates, Voted
<1>5. Ballots(query, Returned) # {}
    BY <1>3, <1>4 DEF Counted
<1>6. DOMAIN query # {}
    BY <1>5 DEF Ballots
<1>7. 1 \in DOMAIN query
    BY <1>2, <1>6
<1>8. IsFiniteSet(Candidates)
    BY <1>3, CandidatesAreTyped
<1>9. QED
    BY <1>1, <1>2, <1>3, <1>7, <1>8

(***************************************************************************)
(* For each position of an excerpt there is a row that votes for the       *)
(* bucket of its shift, and these ballots are told apart by the position.  *)
(***************************************************************************)
LEMMA ExcerptVotes ==
    ASSUME Inv, ranking # <<>>, NEW s, NEW shift \in Int, IsExcerpt(s, shift)
    PROVE  DominantVotes(votes, s) >= Len(query)
<1>1. query \in Seq(Mark) /\ found \subseteq TableRow /\ 1 \in DOMAIN query
    BY RankedIsCounted
<1>2. Counted(query, Returned, votes, hits) /\ VoteTable(votes) /\ IsFiniteSet(Returned)
    BY RankedIsCounted
<1>3. /\ DOMAIN query = 1..Len(query) /\ Len(query) \in Nat
      /\ IsFiniteSet(DOMAIN query) /\ Cardinality(DOMAIN query) = Len(query)
      /\ \A p \in DOMAIN query : query[p] \in Mark
    BY <1>1, PositionsAreFinite
<1> DEFINE k == <<s, Quantize(shift)>>
           row == [p \in DOMAIN query |->
                      CHOOSE r \in Rows(found, s) :
                          /\ r.hash = query[p].hash
                          /\ r.version = Version
                          /\ r.offset = query[p].offset + shift]
           ballot == [p \in DOMAIN query |-> <<<<p, row[p]>>, p>>]
<1>4. ASSUME NEW p \in DOMAIN query
      PROVE  /\ row[p] \in found /\ row[p].song = s /\ row[p].hash = query[p].hash
             /\ row[p].version = Version /\ row[p].offset = query[p].offset + shift
  <2>1. \E r \in Rows(found, s) :
            r.hash = query[p].hash /\ r.version = Version /\ r.offset = query[p].offset + shift
      BY DEF IsExcerpt
  <2>2. /\ row[p] \in Rows(found, s) /\ row[p].hash = query[p].hash
        /\ row[p].version = Version /\ row[p].offset = query[p].offset + shift
      BY <2>1
  <2>3. QED
      BY <2>2 DEF Rows
<1> HIDE DEF row
<1>5. ASSUME NEW p \in DOMAIN query PROVE ballot[p] \in Cast(query, Returned, k)
  <2>1. <<p, row[p]>> \in Returned
      BY <1>4 DEF Returned, Lookup
  <2>2. ballot[p] \in Ballots(query, Returned)
      BY <1>4, <2>1 DEF Ballots
  <2>3. row[p].offset - query[p].offset = shift
      BY <1>3, <1>4 DEF Mark
  <2>4. Ballot(query, row[p], p) = k
      BY <1>4, <2>3 DEF Ballot
  <2>5. ballot[p][1][2] = row[p] /\ ballot[p][2] = p
      OBVIOUS
  <2>6. Ballot(query, ballot[p][1][2], ballot[p][2]) = k
      BY <2>4, <2>5
  <2> HIDE DEF ballot, k
  <2>7. QED
      BY <2>2, <2>6 DEF Cast
<1>6. ballot \in [DOMAIN query -> Cast(query, Returned, k)]
    BY <1>5
<1>7. \A p, n \in DOMAIN query : ballot[p] = ballot[n] => p = n
    OBVIOUS
<1>8. IsFiniteSet(Cast(query, Returned, k))
    BY <1>1, <1>2, BallotsAreFinite
<1>9. k \in DOMAIN votes
  <2>1. \E b \in Ballots(query, Returned) : Ballot(query, b[1][2], b[2]) = k
      BY <1>1, <1>5 DEF Cast
  <2>2. QED
      BY <1>2, <2>1 DEF Counted
<1> HIDE DEF ballot
<1>10. Len(query) <= Cardinality(Cast(query, Returned, k))
    BY <1>3, <1>6, <1>7, <1>8, ToldApart
<1>11. votes[k] = Cardinality(Cast(query, Returned, k))
    BY <1>2, <1>9 DEF Counted
<1>12. s \in Voted(votes)
    BY <1>9 DEF Voted
<1>13. votes[k] <= DominantVotes(votes, s) /\ DominantVotes(votes, s) \in Nat
    BY <1>2, <1>9, <1>12, DominantBucketIsOne
<1>14. votes[k] \in Nat
    BY <1>2, <1>9 DEF VoteTable
<1>15. QED
    BY <1>3, <1>10, <1>11, <1>13, <1>14

LEMMA ExcerptFromInv == Inv => ExcerptHasItsVotes
<1> SUFFICES ASSUME Inv, ranking # <<>>, NEW s \in SongsOf(found), NEW r \in Rows(found, s),
                    IsExcerpt(s, r.offset - query[1].offset)
             PROVE  DominantVotes(votes, s) >= Len(query)
    BY DEF ExcerptHasItsVotes
<1>1. query[1] \in Mark /\ r \in TableRow
    BY RankedIsCounted DEF Rows
<1>2. r.offset - query[1].offset \in Int
    BY <1>1 DEF Mark, TableRow
<1>3. QED
    BY <1>2, ExcerptVotes

\* A count that is no smaller passes where one passes.
LEMMA MoreIsAtLeast ==
    ASSUME NEW m \in Nat, NEW n \in Nat, m <= n, NEW d \in Nat, NEW q, IsRatio(q), AtLeast(<<m, d>>, q)
    PROVE  AtLeast(<<n, d>>, q)
<1>1. q[1] \in Nat /\ q[2] \in Nat
    BY DEF IsRatio
<1>2. m * q[2] >= q[1] * d
    BY DEF AtLeast
<1>3. \A w, x, y \in Nat : x <= y => x * w <= y * w
    BY SMT
<1>4. m * q[2] <= n * q[2]
    BY <1>1, <1>3
<1>5. m * q[2] \in Nat /\ n * q[2] \in Nat /\ q[1] * d \in Nat
    BY <1>1
<1>6. n * q[2] >= q[1] * d
    BY <1>2, <1>4, <1>5
<1>7. QED
    BY <1>6 DEF AtLeast

(***************************************************************************)
(* The hashes of the dominant bucket come from rows that the rounding of   *)
(* Quantize keeps within half a bucket of the offset that is reported.     *)
(***************************************************************************)
LEMMA AlignedFromInv == Inv /\ BucketMs >= 1 => AnswerIsAligned
<1> SUFFICES ASSUME Inv, BucketMs >= 1, outcome.reason = "Match"
             PROVE  LET explained == {m[2].hash : m \in Aligned(outcome.song, outcome.offset)}
                    IN  /\ explained # {}
                        /\ AtLeast(<<Cardinality(explained), Len(query)>>, MinCoverage)
                        /\ Cardinality(explained) <= outcome.matched
    BY DEF AnswerIsAligned
<1> DEFINE s == ranking[1].song
           k == <<s, DominantBucket(votes, s)>>
           at == DominantBucket(votes, s) * BucketMs
           aligned == Aligned(s, at)
           explained == {m[2].hash : m \in aligned}
           matched == MatchedHashes(hits, s)
<1>1. ranking # <<>> /\ Accepted /\ outcome = Found(s)
    BY DEF Inv, Controlled
<1>2. /\ Counted(query, Returned, votes, hits) /\ VoteTable(votes)
      /\ IsFiniteSet(Returned) /\ Returned \subseteq (DOMAIN query) \X TableRow
      /\ \A b \in DOMAIN votes : hits[b] # {} /\ IsFiniteSet(hits[b])
      /\ query \in Seq(Mark) /\ IsFiniteSet(Candidates) /\ ranking \in Rankings(Candidates)
      /\ Candidates # {}
    BY <1>1, RankedIsCounted
<1>3. Cardinality(Candidates) \in Nat \ {0}
    BY <1>2, FS_CardinalityType, FS_EmptySet
<1>4. ranking[1] \in Candidates
    BY <1>2, <1>3, RankingIsWhole
<1>5. /\ ranking[1] = Candidate(s) /\ s \in Voted(votes) /\ ranking[1].covered \in Nat
    BY <1>2, <1>4, CandidatesAreTyped
<1>6. /\ DominantBucket(votes, s) \in Int /\ k \in DOMAIN votes
    BY <1>2, <1>5, DominantBucketIsOne
<1>7. Width = BucketMs /\ BucketMs \in Nat
    BY BucketAssumption DEF Width
<1>8. outcome.song = s /\ outcome.offset = at /\ outcome.matched = Cardinality(matched)
    BY <1>1 DEF Found
<1>9. hits[k] \subseteq explained
  <2>1. hits[k] = {b[1][2].hash : b \in Cast(query, Returned, k)}
      BY <1>2, <1>6 DEF Counted
  <2>2. ASSUME NEW b \in Cast(query, Returned, k)
        PROVE  b[1][2].hash \in explained
    <3> DEFINE r == b[1][2]
               p == b[2]
               d == r.offset - query[p].offset
    <3>1. /\ b[1] \in Returned /\ p \in DOMAIN query /\ query[p].hash = r.hash
          /\ Ballot(query, r, p) = k
        BY DEF Cast, Ballots
    <3>2. r \in found /\ r.version = Version /\ r \in TableRow /\ query[p] \in Mark
        BY <1>2, <3>1, PositionsAreFinite DEF Returned, Lookup
    <3>3. <<p, r>> \in Returned
        BY <3>1, <3>2 DEF Returned, Lookup
    <3>4. r.song = s /\ Quantize(d) = DominantBucket(votes, s)
        BY <3>1 DEF Ballot
    <3>5. d \in Int
        BY <3>2 DEF TableRow, Mark
    <3> HIDE DEF d
    <3>6. -Width <= 2 * (d - Width * Quantize(d)) /\ 2 * (d - Width * Quantize(d)) <= Width
        BY <3>5, QuantizeIsNearest
    <3>7. at \in Int /\ Width * Quantize(d) = at
        BY <1>6, <1>7, <3>4
    <3> HIDE DEF at
    <3>8. 2 * Abs(d - at) <= Width
        BY <1>7, <3>5, <3>6, <3>7 DEF Abs
    <3>9. <<p, r>> \in aligned
        BY <3>3, <3>4, <3>8 DEF Aligned, Returned, d
    <3>10. <<p, r>>[2].hash = r.hash
        OBVIOUS
    <3> HIDE DEF r, aligned
    <3>11. r.hash \in explained
        BY <3>9, <3>10
    <3>12. QED
        BY <3>11 DEF r
  <2> HIDE DEF explained
  <2>3. QED
      BY <2>1, <2>2
<1>10. explained \subseteq matched
  <2> SUFFICES ASSUME NEW m \in aligned PROVE m[2].hash \in matched
      OBVIOUS
  <2>1. m \in Returned /\ m[2].song = s
      BY DEF Aligned, Returned
  <2>2. m[1] \in DOMAIN query /\ query[m[1]].hash = m[2].hash
      BY <2>1 DEF Returned, Lookup
  <2> DEFINE b == <<m, m[1]>>
             c == Ballot(query, m[2], m[1])
  <2>3. b \in Ballots(query, Returned)
      BY <2>1, <2>2 DEF Ballots
  <2>4. c \in DOMAIN votes /\ c \in DOMAIN hits
      BY <1>2, <2>3 DEF Counted
  <2>5. b \in Cast(query, Returned, c)
      BY <2>3 DEF Cast
  <2>6. m[2].hash \in hits[c]
      BY <1>2, <2>4, <2>5 DEF Counted
  <2>7. c[1] = s
      BY <2>1 DEF Ballot
  <2> HIDE DEF c
  <2>8. QED
      BY <2>4, <2>6, <2>7 DEF MatchedHashes
<1>11. IsFiniteSet(matched)
  <2> DEFINE K == {b \in DOMAIN hits : b[1] = s}
             sets == {hits[b] : b \in K}
             f == [b \in K |-> hits[b]]
  <2>1. DOMAIN hits = DOMAIN votes
      BY <1>2 DEF Counted
  <2>2. IsFiniteSet(K)
      BY <1>2, <2>1, FS_Subset DEF VoteTable
  <2>3. f \in [K -> sets] /\ \A h \in sets : \E b \in K : f[b] = h
      OBVIOUS
  <2>4. \A h \in sets : IsFiniteSet(h)
      BY <1>2, <2>1
  <2>5. matched = UNION sets
      BY DEF MatchedHashes
  <2> HIDE DEF K, sets, f
  <2>6. IsFiniteSet(sets)
      BY <2>2, <2>3, MappedOnto
  <2>7. IsFiniteSet(UNION sets)
      BY <2>4, <2>6, FS_UNION
  <2>8. QED
      BY <2>5, <2>7
<1>12. ranking[1].covered = Cardinality(hits[k])
    BY <1>5 DEF Candidate, DominantHashes
<1>13. hits[k] # {}
    BY <1>2, <1>6
<1>14. AtLeast(<<ranking[1].covered, Len(query)>>, MinCoverage)
  <2>1. 3 \in DOMAIN Gates /\ Gates[3] = "BelowCoverageThreshold"
      BY DEF Gates
  <2>2. ~Fails("BelowCoverageThreshold", ranking, Len(query))
      BY <1>1, <2>1, VerdictIsGate DEF Accepted
  <2>3. QED
      BY <2>2 DEF Fails, Coverage
<1> HIDE DEF explained, matched, k
<1>15. IsFiniteSet(explained) /\ Cardinality(explained) <= Cardinality(matched)
    BY <1>10, <1>11, FS_Subset
<1>16. Cardinality(hits[k]) <= Cardinality(explained) /\ Cardinality(explained) \in Nat
    BY <1>9, <1>15, FS_Subset, FS_CardinalityType
<1>17. AtLeast(<<Cardinality(explained), Len(query)>>, MinCoverage)
  <2>1. IsRatio(MinCoverage) /\ Len(query) \in Nat
      BY <1>2, ScoringAssumption
  <2>2. ranking[1].covered <= Cardinality(explained)
      BY <1>12, <1>16
  <2>3. QED
      BY <1>5, <1>14, <1>16, <2>1, <2>2, MoreIsAtLeast
<1>18. explained # {}
    BY <1>9, <1>13
<1>19. QED
    BY <1>8, <1>15, <1>17, <1>18 DEF explained, matched

\* Only the fetch answers with a match, and it has just asked for the song.
LEMMA MatchStep ==
    Inv /\ [Next]_vars => (outcome'.reason = "Match" /\ outcome' # outcome => outcome'.song \in songs)
<1> SUFFICES ASSUME Inv, [Next]_vars, outcome'.reason = "Match", outcome' # outcome
             PROVE  outcome'.song \in songs
    OBVIOUS
<1>1. CASE Fetch
  <2> DEFINE best == ranking[1].song
  <2>1. outcome' = IF best \in songs THEN Found(best) ELSE NoMatch("NoCandidates")
      BY <1>1 DEF Fetch, Finish
  <2>2. outcome' # NoMatch("NoCandidates")
      BY DEF NoMatch, NoOutcome
  <2>3. best \in songs /\ outcome' = Found(best)
      BY <2>1, <2>2
  <2>4. QED
      BY <2>3 DEF Found
<1>2. CASE Judge
  <2>1. outcome'.reason = Verdict(ranking', Len(query))
      BY <1>2 DEF Judge, Finish, NoMatch, NoOutcome
  <2>2. QED
      BY <2>1, VerdictIsGate
<1>3. CASE RejectEmptyQuery \/ RunLookup \/ DatabaseError
    BY <1>3 DEF RejectEmptyQuery, RunLookup, DatabaseError, Finish, NoMatch, NoOutcome
<1>4. CASE \E m \in pending : Vote(m)
    BY <1>4 DEF Vote
<1>5. CASE \E s \in songs : DeleteSong(s) \/ DeleteFingerprints(s)
    BY <1>5 DEF DeleteSong, DeleteFingerprints, request
<1>6. CASE UNCHANGED vars
    BY <1>6 DEF vars, request
<1>7. QED
    BY <1>1, <1>2, <1>3, <1>4, <1>5, <1>6 DEF Next

-----------------------------------------------------------------------------
(***************************************************************************)
(* Copies of one recording.                                                *)
(***************************************************************************)

\* The rows of song u that a lookup of the requested version may return.
Own(u) == {r \in Rows(found, u) : r.version = Version}

LEMMA CopiesAreSymmetric == \A s, t : Copies(s, t) => Copies(t, s)
BY DEF Copies

\* Where each landmark has as many rows of the one as of the other, the rows
\* can be matched up.
LEMMA CopiesMatchUp ==
    ASSUME IsFiniteSet(found), NEW s, NEW t, Copies(s, t)
    PROVE  \E f \in [Own(s) -> Own(t)] :
              /\ \A r \in Own(s) : Landmark(f[r]) = Landmark(r)
              /\ \A r, u \in Own(s) : f[r] = f[u] => r = u
<1> DEFINE Fibre(u, mark) == {r \in Rows(found, u) : r.version = Version /\ Landmark(r) = mark}
           marks == {Landmark(r) : r \in found}
           Between(mark) == Bijection(Fibre(s, mark), Fibre(t, mark))
           pick == [mark \in marks |-> CHOOSE g : g \in Between(mark)]
           f == [r \in Own(s) |-> pick[Landmark(r)][r]]
<1>1. ASSUME NEW mark \in marks PROVE pick[mark] \in Between(mark)
  <2>1. IsFiniteSet(Fibre(s, mark)) /\ IsFiniteSet(Fibre(t, mark))
    <3>1. Fibre(s, mark) \subseteq found /\ Fibre(t, mark) \subseteq found
        BY DEF Rows
    <3> HIDE DEF Fibre
    <3>2. QED
        BY <3>1, FS_Subset
  <2>2. Cardinality(Fibre(s, mark)) = Cardinality(Fibre(t, mark))
      BY DEF Copies, Contribution
  <2> HIDE DEF Fibre
  <2>3. Between(mark) # {}
      BY <2>1, <2>2, FS_SameCardinalityBij DEF ExistsBijection
  <2> HIDE DEF Between
  <2>4. QED
      BY <2>3
<1> HIDE DEF pick
<1>2. ASSUME NEW mark \in marks, NEW r \in Fibre(s, mark) PROVE pick[mark][r] \in Fibre(t, mark)
    BY <1>1, <1>2 DEF Bijection, Injection
<1>3. ASSUME NEW mark \in marks, NEW r \in Fibre(s, mark), NEW u \in Fibre(s, mark),
             pick[mark][r] = pick[mark][u]
      PROVE  r = u
    BY <1>1, <1>3 DEF Bijection, Injection, IsInjective
<1>4. \A r \in Own(s) : r \in Fibre(s, Landmark(r)) /\ Landmark(r) \in marks
    BY DEF Own, Rows
<1>5. \A r \in Own(s) : f[r] \in Own(t) /\ Landmark(f[r]) = Landmark(r)
  <2> TAKE r \in Own(s)
  <2>1. f[r] \in Fibre(t, Landmark(r))
      BY <1>2, <1>4
  <2>2. QED
      BY <2>1 DEF Own
<1>6. \A r, u \in Own(s) : f[r] = f[u] => r = u
  <2> TAKE r, u \in Own(s)
  <2> HAVE f[r] = f[u]
  <2>1. Landmark(r) = Landmark(u)
      BY <1>5
  <2>2. pick[Landmark(r)][r] = pick[Landmark(r)][u]
      BY <2>1
  <2>3. r \in Fibre(s, Landmark(r)) /\ u \in Fibre(s, Landmark(r)) /\ Landmark(r) \in marks
      BY <1>4, <2>1
  <2> HIDE DEF Fibre, marks
  <2>4. QED
      BY <1>3, <2>2, <2>3
<1>7. f \in [Own(s) -> Own(t)]
    BY <1>5
<1>8. QED
    BY <1>5, <1>6, <1>7

\* A copy collects no fewer votes in any bucket.
LEMMA CopyVotesToo ==
    ASSUME Inv, ranking # <<>>, NEW s, NEW t, Copies(s, t), NEW x, <<s, x>> \in DOMAIN votes
    PROVE  <<t, x>> \in DOMAIN votes /\ votes[<<s, x>>] <= votes[<<t, x>>]
<1>1. /\ Counted(query, Returned, votes, hits)
      /\ IsFiniteSet(Returned) /\ query \in Seq(Mark) /\ IsFiniteSet(found)
    BY RankedIsCounted
<1>2. PICK f \in [Own(s) -> Own(t)] :
          /\ \A r \in Own(s) : Landmark(f[r]) = Landmark(r)
          /\ \A r, u \in Own(s) : f[r] = f[u] => r = u
    BY <1>1, CopiesMatchUp
<1> DEFINE S == Cast(query, Returned, <<s, x>>)
           T == Cast(query, Returned, <<t, x>>)
           g == [b \in S |-> <<<<b[1][1], f[b[1][2]]>>, b[2]>>]
<1>3. ASSUME NEW b \in S
      PROVE  /\ b = <<<<b[1][1], b[1][2]>>, b[2]>>
             /\ b[1][2] \in Own(s) /\ <<<<b[1][1], f[b[1][2]]>>, b[2]>> \in T
  <2> DEFINE n == b[1][1]
             r == b[1][2]
             p == b[2]
             u == f[r]
  <2>1. b \in Returned \X DOMAIN query /\ query[p].hash = r.hash /\ Ballot(query, r, p) = <<s, x>>
      BY DEF Cast, Ballots
  <2>2. b[1] \in Returned /\ p \in DOMAIN query /\ b = <<b[1], p>>
      BY <2>1
  <2>3. /\ b[1] = <<n, r>> /\ n \in DOMAIN query /\ r \in found
        /\ query[n].hash = r.hash /\ r.version = Version
      BY <2>2 DEF Returned, Lookup
  <2>4. r.song = s /\ Quantize(r.offset - query[p].offset) = x
      BY <2>1 DEF Ballot
  <2>5. r \in Own(s)
      BY <2>3, <2>4 DEF Own, Rows
  <2>6. u \in Own(t) /\ Landmark(u) = Landmark(r)
      BY <1>2, <2>5
  <2>7. /\ u.hash = r.hash /\ u.offset = r.offset /\ u \in found /\ u.song = t
        /\ u.version = Version
      BY <2>6 DEF Own, Rows, Landmark
  <2> HIDE DEF n, r, p, u
  <2>8. <<n, u>> \in Returned
      BY <2>3, <2>7 DEF Returned, Lookup
  <2> DEFINE c == <<<<n, u>>, p>>
  <2>9. c \in Ballots(query, Returned)
      BY <2>1, <2>2, <2>7, <2>8 DEF Ballots
  <2>10. Ballot(query, u, p) = <<t, x>>
      BY <2>4, <2>7 DEF Ballot
  <2>11. c \in T
      BY <2>9, <2>10 DEF Cast
  <2>12. QED
      BY <2>2, <2>3, <2>5, <2>11 DEF n, r, p, u
<1>4. g \in [S -> T]
    BY <1>3
<1>5. \A b, c \in S : g[b] = g[c] => b = c
  <2> TAKE b, c \in S
  <2> HAVE g[b] = g[c]
  <2>1. b[1][1] = c[1][1] /\ f[b[1][2]] = f[c[1][2]] /\ b[2] = c[2]
      OBVIOUS
  <2>2. b[1][2] \in Own(s) /\ c[1][2] \in Own(s)
      BY <1>3
  <2>3. b[1][2] = c[1][2]
      BY <1>2, <2>1, <2>2
  <2>4. b = <<<<b[1][1], b[1][2]>>, b[2]>> /\ c = <<<<c[1][1], c[1][2]>>, c[2]>>
      BY <1>3
  <2> HIDE DEF S, g
  <2>5. QED
      BY <2>1, <2>3, <2>4
<1>6. IsFiniteSet(T)
    BY <1>1, BallotsAreFinite
<1>7. S # {} /\ votes[<<s, x>>] = Cardinality(S)
    BY <1>1 DEF Counted, Cast
<1> HIDE DEF g
<1>8. T # {}
    BY <1>4, <1>7
<1>9. <<t, x>> \in DOMAIN votes /\ votes[<<t, x>>] = Cardinality(T)
    BY <1>1, <1>8 DEF Counted, Cast
<1> HIDE DEF S, T
<1>10. Cardinality(S) <= Cardinality(T)
    BY <1>4, <1>5, <1>6, ToldApart
<1>11. QED
    BY <1>7, <1>9, <1>10

\* Copies collect the same votes, bucket by bucket, hence the same score.
LEMMA CopiesScoreAlike ==
    ASSUME Inv, ranking # <<>>, NEW s \in Voted(votes), NEW t, Copies(s, t)
    PROVE  /\ t \in Voted(votes)
           /\ Candidate(s).dominant = Candidate(t).dominant
           /\ Candidate(s).total = Candidate(t).total
<1>1. VoteTable(votes)
    BY RankedIsCounted
<1>2. \A x : <<s, x>> \in DOMAIN votes =>
                 <<t, x>> \in DOMAIN votes /\ votes[<<s, x>>] <= votes[<<t, x>>]
    BY CopyVotesToo
<1>3. \A x : <<t, x>> \in DOMAIN votes =>
                 <<s, x>> \in DOMAIN votes /\ votes[<<t, x>>] <= votes[<<s, x>>]
    BY CopyVotesToo, CopiesAreSymmetric
<1>4. ASSUME NEW x, <<s, x>> \in DOMAIN votes PROVE votes[<<s, x>>] = votes[<<t, x>>]
  <2>1. votes[<<s, x>>] \in Nat /\ votes[<<t, x>>] \in Nat
      BY <1>1, <1>2, <1>4 DEF VoteTable
  <2>2. QED
      BY <1>2, <1>3, <1>4, <2>1
<1>5. /\ <<s, DominantBucket(votes, s)>> \in DOMAIN votes /\ DominantVotes(votes, s) \in Nat
      /\ \A b : <<s, b>> \in DOMAIN votes => votes[<<s, b>>] <= DominantVotes(votes, s)
    BY <1>1, DominantBucketIsOne
<1>6. t \in Voted(votes)
  <2>1. <<t, DominantBucket(votes, s)>> \in DOMAIN votes
      BY <1>2, <1>5
  <2>2. <<t, DominantBucket(votes, s)>>[1] = t
      OBVIOUS
  <2>3. QED
      BY <2>1, <2>2 DEF Voted
<1>7. /\ <<t, DominantBucket(votes, t)>> \in DOMAIN votes /\ DominantVotes(votes, t) \in Nat
      /\ \A b : <<t, b>> \in DOMAIN votes => votes[<<t, b>>] <= DominantVotes(votes, t)
    BY <1>1, <1>6, DominantBucketIsOne
<1>8. DominantVotes(votes, s) = DominantVotes(votes, t)
  <2>1. DominantVotes(votes, s) <= DominantVotes(votes, t)
    <3>1. DominantVotes(votes, s) = votes[<<t, DominantBucket(votes, s)>>]
        BY <1>4, <1>5 DEF DominantVotes
    <3>2. QED
        BY <1>2, <1>5, <1>7, <3>1
  <2>2. DominantVotes(votes, t) <= DominantVotes(votes, s)
    <3>1. DominantVotes(votes, t) = votes[<<s, DominantBucket(votes, t)>>]
        BY <1>3, <1>4, <1>7 DEF DominantVotes
    <3>2. QED
        BY <1>3, <1>5, <1>7, <3>1
  <2>3. QED
      BY <1>5, <1>7, <2>1, <2>2
<1>9. TotalVotes(votes, s) = TotalVotes(votes, t)
  <2>1. \A b : b \in BucketsOf(votes, s) <=> <<s, b>> \in DOMAIN votes
      BY <1>1, BucketsOfSong
  <2>2. \A b : b \in BucketsOf(votes, t) <=> <<t, b>> \in DOMAIN votes
      BY <1>1, BucketsOfSong
  <2>3. BucketsOf(votes, s) = BucketsOf(votes, t)
      BY <1>2, <1>3, <2>1, <2>2
  <2>4. \A b \in BucketsOf(votes, s) : votes[<<s, b>>] = votes[<<t, b>>]
      BY <1>4, <2>1
  <2>5. {{b} \X (1..votes[<<s, b>>]) : b \in BucketsOf(votes, s)}
            = {{b} \X (1..votes[<<t, b>>]) : b \in BucketsOf(votes, t)}
      BY <2>3, <2>4
  <2>6. QED
      BY <2>5 DEF TotalVotes
<1>10. QED
    BY <1>6, <1>8, <1>9 DEF Candidate

\* The margin gate turns an answer away whose runner-up has as many votes.
LEMMA MarginRefusesEqual ==
    ASSUME MinMarginRatio[1] > MinMarginRatio[2], NEW q, Verdict(q, Len(query)) = "Accept",
           Len(q) > 1, q[1].dominant \in Nat \ {0}
    PROVE  q[2].dominant # q[1].dominant
<1>1. MarginOk(q)
  <2>1. 4 \in DOMAIN Gates /\ Gates[4] = "AmbiguousMargin"
      BY DEF Gates
  <2>2. ~Fails("AmbiguousMargin", q, Len(query))
      BY <2>1, VerdictIsGate
  <2>3. QED
      BY <2>2 DEF Fails
<1>2. SUFFICES ASSUME q[2].dominant = q[1].dominant PROVE FALSE
    OBVIOUS
<1> DEFINE d == q[1].dominant
           a == MinMarginRatio[1]
           b == MinMarginRatio[2]
<1>3. d * b >= a * d
    BY <1>1, <1>2 DEF MarginOk, AtLeast
<1>4. a \in Nat /\ b \in Nat /\ a > b /\ d \in Nat \ {0}
    BY ScoringAssumption DEF IsRatio
<1> HIDE DEF a, b, d
<1>5. \A w \in Nat \ {0}, x, y \in Nat : x > y => x * w > w * y
  <2>1. \A w \in Nat, x, y \in Nat : x >= y + 1 => x * w >= w * y + w
    <3>1. \A w, y, e \in Nat : (y + 1 + e) * w = w * y + w + e * w /\ e * w \in Nat
        BY SMT
    <3> TAKE w \in Nat, x, y \in Nat
    <3> HAVE x >= y + 1
    <3>2. PICK e \in Nat : x = y + 1 + e
      <4>1. x - y - 1 \in Nat /\ x = y + 1 + (x - y - 1)
          OBVIOUS
      <4>2. QED
          BY <4>1
    <3>3. x * w = w * y + w + e * w /\ e * w \in Nat /\ w * y \in Nat
        BY <3>1, <3>2
    <3>4. QED
        BY <3>3
  <2> TAKE w \in Nat \ {0}, x, y \in Nat
  <2> HAVE x > y
  <2>2. x >= y + 1
      OBVIOUS
  <2>3. x * w >= w * y + w /\ w * y \in Nat /\ x * w \in Nat
      BY <2>1, <2>2
  <2>4. QED
      BY <2>3
<1>6. a * d > d * b
    BY <1>4, <1>5
<1>7. a * d \in Nat /\ d * b \in Nat
    BY <1>4
<1>8. QED
    BY <1>3, <1>6, <1>7

LEMMA CopyRefusedFromInv == Inv /\ MinMarginRatio[1] > MinMarginRatio[2] => CopyIsRefused
<1> SUFFICES ASSUME Inv, MinMarginRatio[1] > MinMarginRatio[2], outcome.reason = "Match",
                    NEW t \in SongsOf(found) \ {ranking[1].song}, Copies(ranking[1].song, t)
             PROVE  \E n \in DOMAIN ranking :
                        /\ ranking[n].song \notin {ranking[1].song, t}
                        /\ Score(ranking[n])[1] * ranking[1].total
                             = Score(ranking[1])[1] * ranking[n].total
    BY DEF CopyIsRefused
<1> DEFINE s == ranking[1].song
<1>1. ranking # <<>> /\ Accepted
    BY DEF Inv, Controlled
<1>2. /\ VoteTable(votes) /\ \A k \in DOMAIN votes : IsFiniteSet(hits[k])
      /\ IsFiniteSet(Candidates) /\ ranking \in Rankings(Candidates) /\ Candidates # {}
    BY <1>1, RankedIsCounted
<1>3. /\ ranking \in Seq(Candidates) /\ Len(ranking) \in Nat \ {0} /\ DOMAIN ranking = 1..Len(ranking)
      /\ \A c \in Candidates : \E n \in 1..Len(ranking) : ranking[n] = c
      /\ \A m, n \in 1..Len(ranking) : m # n => ranking[m] # ranking[n]
      /\ \A m, n \in 1..Len(ranking) : m < n => AtLeast(Score(ranking[m]), Score(ranking[n]))
  <2>1. Cardinality(Candidates) \in Nat \ {0}
      BY <1>2, FS_CardinalityType, FS_EmptySet
  <2>2. QED
      BY <1>2, <2>1, RankingIsWhole
<1>4. \A c \in Candidates :
          /\ c = Candidate(c.song) /\ c.song \in Voted(votes)
          /\ c.dominant \in Nat \ {0} /\ c.total \in Nat
    BY <1>2, CandidatesAreTyped
<1>5. \A n \in 1..Len(ranking) : ranking[n] \in Candidates
    BY <1>3
<1>6. 1 \in 1..Len(ranking) /\ s \in Voted(votes) /\ ranking[1] = Candidate(s)
    BY <1>3, <1>4, <1>5
<1>7. /\ t \in Voted(votes)
      /\ Candidate(s).dominant = Candidate(t).dominant /\ Candidate(s).total = Candidate(t).total
    BY <1>1, <1>6, CopiesScoreAlike
<1>8. PICK n \in 1..Len(ranking) : ranking[n] = Candidate(t)
    BY <1>3, <1>7 DEF Candidates
<1>9. Candidate(t).song = t
    BY DEF Candidate
<1>10. n # 1 /\ Len(ranking) > 1 /\ 2 \in 1..Len(ranking)
    BY <1>3, <1>6, <1>8, <1>9
<1>11. ranking[2].dominant # ranking[1].dominant
    BY <1>1, <1>4, <1>5, <1>6, <1>10, MarginRefusesEqual DEF Accepted
<1>12. n # 2 /\ 2 < n
    BY <1>3, <1>6, <1>7, <1>8, <1>10, <1>11
<1>13. ranking[2].song \notin {s, t}
  <2>1. ranking[2] # Candidate(s) /\ ranking[2] # Candidate(t)
      BY <1>3, <1>6, <1>8, <1>10, <1>12
  <2>2. ranking[2] = Candidate(ranking[2].song)
      BY <1>4, <1>5, <1>10
  <2>3. QED
      BY <2>1, <2>2
<1>14. Score(ranking[2])[1] * ranking[1].total = Score(ranking[1])[1] * ranking[2].total
  <2> DEFINE d1 == ranking[1].dominant * ranking[1].dominant
             t1 == ranking[1].total
             d2 == ranking[2].dominant * ranking[2].dominant
             t2 == ranking[2].total
  <2>1. /\ Score(ranking[1]) = <<d1, t1>> /\ Score(ranking[2]) = <<d2, t2>>
        /\ Score(ranking[n]) = <<d1, t1>>
      BY <1>6, <1>7, <1>8 DEF Score
  <2>2. AtLeast(Score(ranking[1]), Score(ranking[2])) /\ AtLeast(Score(ranking[2]), Score(ranking[n]))
      BY <1>3, <1>6, <1>10, <1>12
  <2>3. d1 * t2 >= d2 * t1 /\ d2 * t1 >= d1 * t2
      BY <2>1, <2>2 DEF AtLeast
  <2>4. d1 \in Nat /\ t1 \in Nat /\ d2 \in Nat /\ t2 \in Nat
      BY <1>4, <1>5, <1>6, <1>10
  <2>5. Score(ranking[2])[1] = d2 /\ Score(ranking[1])[1] = d1
      BY <2>1
  <2> HIDE DEF d1, t1, d2, t2
  <2>6. d1 * t2 \in Nat /\ d2 * t1 \in Nat
      BY <2>4
  <2>7. d2 * t1 = d1 * t2
      BY <2>3, <2>6
  <2>8. QED
      BY <2>5, <2>7 DEF t1, t2
<1>15. QED
    BY <1>3, <1>10, <1>13, <1>14

-----------------------------------------------------------------------------
(***************************************************************************)
(* Theorems.                                                               *)
(***************************************************************************)

\* The vote table holds what the voted rows cast, and a request is where its
\* results say (engine.rs 49-160).
THEOREM Invariance == Spec => []Inv
BY InvInit, InvStep, PTL DEF Spec

\* Rows, queries and vote tables stay well formed (engine.rs 49-152).
THEOREM TypeCorrect == Spec => []TypeOK
BY Invariance, TypeOKFromInv, PTL

\* The vote table does not depend on the order of the rows (voting.rs 80-113).
THEOREM OrderFree == Spec => []VotesAreOrderFree
BY Invariance, OrderFreeFromInv, PTL

\* A clean excerpt of a song is never short of votes (voting.rs 30-46, 80-127).
THEOREM ExcerptVoted == Spec => []ExcerptHasItsVotes
BY Invariance, ExcerptFromInv, PTL

\* Looked-up rows back an answer, at the offset it reports, in a configuration
\* whose bucket width needs no clamping (engine.rs 63-152, voting.rs 80-127).
THEOREM AnswerBacked == ASSUME BucketMs >= 1 PROVE Spec => []AnswerIsAligned
<1>1. Inv => AnswerIsAligned
    BY AlignedFromInv
<1>2. QED
    BY <1>1, Invariance, PTL

\* A margin above 1 refuses a recording that is in the catalogue twice
\* (scoring.rs 78-82, engine.rs 112-124).
THEOREM CopyRefused ==
    ASSUME MinMarginRatio[1] > MinMarginRatio[2] PROVE Spec => []CopyIsRefused
<1>1. Inv => CopyIsRefused
    BY CopyRefusedFromInv
<1>2. QED
    BY <1>1, Invariance, PTL

\* A song deleted between the two reads is not returned (engine.rs 126-137).
THEOREM DeletedNotReturned == Spec => DeletedSongIsNotReturned
<1>1. Inv /\ [Next]_vars =>
          [outcome'.reason = "Match" /\ outcome' # outcome => outcome'.song \in songs]_vars
    BY MatchStep
<1>2. QED
    BY <1>1, Invariance, PTL DEF Spec, DeletedSongIsNotReturned
=============================================================================
