------------------------------- MODULE Voting -------------------------------
(***************************************************************************)
(* Temporal offset voting (backend/src/matching/index.rs and voting.rs):   *)
(* the join that finds reference rows for a query, the quantisation of an  *)
(* offset into a bucket, and what a candidate's vote table says.           *)
(*                                                                         *)
(* A query is a sequence of [hash, offset] records, a reference row a      *)
(* record [row, hash, song, offset, version]; `row` tells apart two equal  *)
(* rows of a table that has no key.  A vote table is a function from       *)
(* <<song, bucket>> pairs to numbers of votes; `hits` gives each of the    *)
(* same pairs the set of hashes that voted for it.                         *)
(***************************************************************************)
EXTENDS Integers, FiniteSets, Sequences

CONSTANT BucketMs      \* MATCH_OFFSET_BUCKET_MS

ASSUME BucketAssumption == BucketMs \in Int

\* A bucket is at least one millisecond wide, whatever the configuration says.
Width == IF BucketMs < 1 THEN 1 ELSE BucketMs

Half == Width \div 2

\* Mutant: truncate instead of rounding.
QuantizeTruncating(offset) ==
    IF offset >= 0 THEN offset \div Width ELSE -((-offset) \div Width)

(***************************************************************************)
(* Round to the nearest bucket, halves away from zero: the code divides    *)
(* magnitudes, because Rust's integer division truncates towards zero.     *)
(***************************************************************************)
Quantize(offset) ==
    IF offset >= 0 THEN (offset + Half) \div Width
                   ELSE -((Half - offset) \div Width)

(***************************************************************************)
(* The rows of FingerprintIndex::lookup.  The hashes of the query go into  *)
(* UNNEST as they are, repetitions included, so a reference row comes back *)
(* once for every position of the query that carries its hash.             *)
(***************************************************************************)
Lookup(query, table, version) ==
    {m \in (DOMAIN query) \X table :
        /\ query[m[1]].hash = m[2].hash
        /\ m[2].version = version}

\* query_offsets_by_hash: the positions of the query that carry hash h.
Occurrences(query, h) == {j \in DOMAIN query : query[j].hash = h}

\* Where reference row r puts its vote for position j of the query.
Ballot(query, r, j) == <<r.song, Quantize(r.offset - query[j].offset)>>

VotesAt(votes, k) == IF k \in DOMAIN votes THEN votes[k] ELSE 0

\* Mutant: one vote per returned row and bucket instead of one per occurrence.
CastOneVote(query, votes, r) ==
    LET ballots == {Ballot(query, r, j) : j \in Occurrences(query, r.hash)}
    IN  [k \in DOMAIN votes \cup ballots |->
            VotesAt(votes, k) + (IF k \in ballots THEN 1 ELSE 0)]

\* One returned row casts a vote for every occurrence of its hash.
CastVotes(query, votes, r) ==
    LET occ     == Occurrences(query, r.hash)
        ballots == {Ballot(query, r, j) : j \in occ}
    IN  [k \in DOMAIN votes \cup ballots |->
            VotesAt(votes, k) + Cardinality({j \in occ : Ballot(query, r, j) = k})]

\* ... and leaves its hash in every bucket it votes for.
MarkHits(query, hits, r) ==
    LET ballots == {Ballot(query, r, j) : j \in Occurrences(query, r.hash)}
    IN  [k \in DOMAIN hits \cup ballots |->
            (IF k \in DOMAIN hits THEN hits[k] ELSE {})
            \cup (IF k \in ballots THEN {r.hash} ELSE {})]

-----------------------------------------------------------------------------
(***************************************************************************)
(* What SongCandidate reports of song s.                                   *)
(***************************************************************************)
Voted(votes) == {k[1] : k \in DOMAIN votes}

BucketsOf(votes, s) == {k[2] : k \in {k \in DOMAIN votes : k[1] = s}}

\* Mutant: the comparison of the vote counts dropped, the tie-break left.
LowestBucket(votes, s) ==
    CHOOSE b \in BucketsOf(votes, s) : \A c \in BucketsOf(votes, s) : b <= c

\* The bucket with most votes, the lowest of them on a tie.
DominantBucket(votes, s) ==
    CHOOSE b \in BucketsOf(votes, s) :
        \A c \in BucketsOf(votes, s) :
            \/ votes[<<s, b>>] > votes[<<s, c>>]
            \/ votes[<<s, b>>] = votes[<<s, c>>] /\ b <= c

DominantVotes(votes, s) == votes[<<s, DominantBucket(votes, s)>>]

\* The votes in all of the buckets, one by one.
TotalVotes(votes, s) ==
    Cardinality(UNION {{b} \X (1..votes[<<s, b>>]) : b \in BucketsOf(votes, s)})

DominantHashes(votes, hits, s) == hits[<<s, DominantBucket(votes, s)>>]

MatchedHashes(hits, s) ==
    UNION {hits[k] : k \in {k \in DOMAIN hits : k[1] = s}}
=============================================================================
