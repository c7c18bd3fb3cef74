--------------------------- MODULE MatchingEngine ---------------------------
(***************************************************************************)
(* MatchingEngine::recognize (backend/src/matching/engine.rs) for one      *)
(* query: look the hashes up, vote row by row, score, pass the gates,      *)
(* fetch the song.  The lookup and the fetch are two separate database     *)
(* reads; between them an operator may delete the song and an admin its    *)
(* fingerprints.                                                           *)
(***************************************************************************)
EXTENDS Voting, Scoring

CONSTANTS
    Catalogs,   \* the fingerprints tables to start from: sets of rows
    Queries,    \* the queries to ask: sequences of [hash, offset]
    Version     \* the algorithm version the request names

\* What POST /recognitions and the processor send: an i64 and an i32.
Mark == [hash : Int, offset : Int]

TableRow == [row : Nat, hash : Int, song : Nat \ {0}, offset : Int, version : Nat]

ASSUME EngineAssumption ==
    /\ \A rows \in Catalogs : rows \subseteq TableRow /\ IsFiniteSet(rows)
    /\ \A asked \in Queries : asked \in Seq(Mark)

VARIABLES
    songs,      \* ids with a row in songs
    table,      \* the fingerprints table
    query,      \* query_fingerprints
    found,      \* history: the table as the lookup saw it
    pending,    \* looked-up rows the voting loop has not reached
    votes,      \* SongCandidate.buckets of every candidate
    hits,       \* SongCandidate.all_matched_hashes of every candidate
    ranking,    \* scored
    pc,
    outcome     \* the RecognitionOutcome

request == <<query, found, pending, votes, hits, ranking, pc, outcome>>
vars == <<songs, table, request>>

SongsOf(rows) == {r.song : r \in rows}

NoOutcome == [reason |-> "none", song |-> 0, offset |-> 0, matched |-> 0]

\* no_match: no song, no score, no offset.
NoMatch(reason) == [NoOutcome EXCEPT !.reason = reason]

-----------------------------------------------------------------------------
\* Nothing of the request is done yet.
Fresh ==
    /\ found = {}
    /\ pending = {}
    /\ votes = <<>>
    /\ hits = <<>>
    /\ ranking = <<>>
    /\ pc = "lookup"
    /\ outcome = NoOutcome

Init ==
    /\ table \in Catalogs
    /\ songs = SongsOf(table)
    /\ query \in Queries
    /\ Fresh

Finish(result) ==
    /\ outcome' = result
    /\ pc' = "done"

RejectEmptyQuery ==
    /\ pc = "lookup"
    /\ query = <<>>
    /\ Finish(NoMatch("NoQueryFingerprints"))
    /\ UNCHANGED <<songs, table, query, found, pending, votes, hits, ranking>>

RunLookup ==
    /\ pc = "lookup"
    /\ query # <<>>
    /\ LET rows == Lookup(query, table, Version)
       IN  /\ found' = table
           /\ pending' = rows
           /\ IF rows = {}
              THEN Finish(NoMatch("NoCandidates"))
              ELSE pc' = "vote" /\ UNCHANGED outcome
    /\ UNCHANGED <<songs, table, query, votes, hits, ranking>>

\* One turn of the loop over matches; the rows come back in no set order.
Vote(m) ==
    /\ pc = "vote"
    /\ votes' = CastVotes(query, votes, m[2])
    /\ hits' = MarkHits(query, hits, m[2])
    /\ pending' = pending \ {m}
    /\ UNCHANGED <<songs, table, query, found, ranking, pc, outcome>>

\* The summary score_candidates keeps of song s.
Candidate(s) ==
    [song |-> s,
     dominant |-> DominantVotes(votes, s),
     total |-> TotalVotes(votes, s),
     covered |-> Cardinality(DominantHashes(votes, hits, s))]

Candidates == {Candidate(s) : s \in Voted(votes)}

\* Score, sort and gate: no await, hence one step.
Judge ==
    /\ pc = "vote"
    /\ pending = {}
    /\ ranking' \in Rankings(Candidates)
    /\ LET verdict == Verdict(ranking', Len(query))
       IN  IF verdict = "Accept"
           THEN pc' = "fetch" /\ UNCHANGED outcome
           ELSE Finish(NoMatch(verdict))
    /\ UNCHANGED <<songs, table, query, found, pending, votes, hits>>

Found(best) ==
    [reason |-> "Match", song |-> best,
     offset |-> DominantBucket(votes, best) * BucketMs,
     matched |-> Cardinality(MatchedHashes(hits, best))]

\* Mutant: answer from the index alone, without asking whether the song is left.
FetchUnchecked ==
    /\ pc = "fetch"
    /\ Finish(Found(ranking[1].song))
    /\ UNCHANGED <<songs, table, query, found, pending, votes, hits, ranking>>

\* find_by_id on the best candidate, and the answer.
Fetch ==
    LET best == ranking[1].song
    IN  /\ pc = "fetch"
        /\ Finish(IF best \in songs THEN Found(best) ELSE NoMatch("NoCandidates"))
        /\ UNCHANGED <<songs, table, query, found, pending, votes, hits, ranking>>

\* Either database read may fail; the handler answers 500 and nothing is kept.
DatabaseError ==
    /\ pc = "fetch" \/ (pc = "lookup" /\ query # <<>>)
    /\ Finish(NoMatch("Error"))
    /\ UNCHANGED <<songs, table, query, found, pending, votes, hits, ranking>>

(***************************************************************************)
(* The engine's memory is its own between the two reads, so a deletion     *)
(* during the voting loop is a deletion just before the fetch.             *)
(***************************************************************************)
AtDatabase == pc \in {"lookup", "fetch"}

\* Mutant: a foreign key without ON DELETE CASCADE.
DeleteSongOnly(s) ==
    /\ AtDatabase
    /\ songs' = songs \ {s}
    /\ UNCHANGED <<table, request>>

\* An operator deletes a song; its fingerprints go with it (ON DELETE CASCADE).
DeleteSong(s) ==
    /\ AtDatabase
    /\ songs' = songs \ {s}
    /\ table' = {r \in table : r.song # s}
    /\ UNCHANGED request

\* DELETE /admin/songs/{id}/fingerprints
DeleteFingerprints(s) ==
    /\ AtDatabase
    /\ table' = {r \in table : r.song # s}
    /\ UNCHANGED <<songs, request>>

Next ==
    \/ RejectEmptyQuery \/ RunLookup \/ Judge \/ Fetch \/ DatabaseError
    \/ \E m \in pending : Vote(m)
    \/ \E s \in songs : DeleteSong(s) \/ DeleteFingerprints(s)

Spec == Init /\ [][Next]_vars

-----------------------------------------------------------------------------
(***************************************************************************)
(* Properties.                                                             *)
(***************************************************************************)
Rows(rows, s) == {r \in rows : r.song = s}

Abs(n) == IF n < 0 THEN -n ELSE n

\* Rows, queries and vote tables are well formed, no fingerprint has lost its
\* song, and only rows that were looked up are voted on (engine.rs 49-152).
TypeOK ==
    /\ songs \subseteq Nat \ {0}
    /\ table \subseteq TableRow /\ SongsOf(table) \subseteq songs
    /\ query \in Seq(Mark)
    /\ found \subseteq TableRow
    /\ pending \subseteq Lookup(query, found, Version)
    /\ DOMAIN votes = DOMAIN hits
    /\ \A k \in DOMAIN votes : votes[k] \in Nat \ {0} /\ hits[k] # {}
    /\ pc \in {"lookup", "vote", "fetch", "done"}
    /\ outcome.reason \in Reasons \cup {"none", "Match", "Error"}

\* The returned rows that agree with an answer (song s heard at `offset`): the
\* reference and the query landmark are `offset` apart, give or take half a
\* bucket.
Aligned(s, offset) ==
    {m \in Lookup(query, found, Version) :
        /\ m[2].song = s
        /\ 2 * Abs(m[2].offset - query[m[1]].offset - offset) <= Width}

(***************************************************************************)
(* An answer is backed by the data the lookup saw: at the offset it        *)
(* reports, the song's rows of the requested version really explain the    *)
(* share of the query that MATCH_MIN_COVERAGE asks for.  This relates the  *)
(* last step to the first through quantisation, voting, the tie-breaking   *)
(* of buckets and the ranking (engine.rs 63-152, voting.rs 80-127).        *)
(***************************************************************************)
AnswerIsAligned ==
    outcome.reason = "Match" =>
        LET explained == {m[2].hash : m \in Aligned(outcome.song, outcome.offset)}
        IN  /\ explained # {}
            /\ AtLeast(<<Cardinality(explained), Len(query)>>, MinCoverage)
            /\ Cardinality(explained) <= outcome.matched

(***************************************************************************)
(* The vote table does not depend on the order in which the database       *)
(* returns rows: when the loop ends, a bucket of a song holds one vote per *)
(* returned row and position that carries its hash, and no bucket is       *)
(* missing (voting.rs 80-113).                                             *)
(***************************************************************************)
VotesAreOrderFree ==
    pc = "vote" /\ pending = {} =>
        LET ballots == {b \in Lookup(query, found, Version) \X DOMAIN query :
                            query[b[2]].hash = b[1][2].hash}
        IN  /\ DOMAIN votes = {Ballot(query, b[1][2], b[2]) : b \in ballots}
            /\ \A k \in DOMAIN votes :
                  votes[k] = Cardinality({b \in ballots :
                                             Ballot(query, b[1][2], b[2]) = k})

\* The query is a recording of song s that starts `shift` into it.
IsExcerpt(s, shift) ==
    \A j \in DOMAIN query :
        \E r \in Rows(found, s) :
            /\ r.hash = query[j].hash
            /\ r.version = Version
            /\ r.offset = query[j].offset + shift

(***************************************************************************)
(* A clean excerpt is never short of votes: whatever other rows the song   *)
(* has and however often the query repeats a hash, the song's dominant     *)
(* bucket collects at least one vote per landmark of the query             *)
(* (voting.rs 30-46, 80-127).                                              *)
(***************************************************************************)
ExcerptHasItsVotes ==
    ranking # <<>> =>
        \A s \in SongsOf(found) :
            (\E r \in Rows(found, s) : IsExcerpt(s, r.offset - query[1].offset))
                => DominantVotes(votes, s) >= Len(query)

\* What song s contributes to a lookup of the requested version.
Landmark(r) == <<r.hash, r.offset>>
Contribution(s, mark) ==
    Cardinality({r \in Rows(found, s) : r.version = Version /\ Landmark(r) = mark})

\* Songs s and t were ingested from the same recording.
Copies(s, t) ==
    \A mark \in {Landmark(r) : r \in found} :
        Contribution(s, mark) = Contribution(t, mark)

(***************************************************************************)
(* A recording that is in the catalogue twice is never answered with one   *)
(* of its copies: both collect the same votes and the margin gate refuses. *)
(* Only a third song with exactly the same score can come between the two  *)
(* in the ranking and hide the copy (scoring.rs 78-82, engine.rs 112-124). *)
(***************************************************************************)
CopyIsRefused ==
    outcome.reason = "Match" =>
        LET best == ranking[1]
        IN  \A t \in SongsOf(found) \ {best.song} :
                Copies(best.song, t) =>
                    \E i \in DOMAIN ranking :
                        /\ ranking[i].song \notin {best.song, t}
                        /\ Score(ranking[i])[1] * best.total
                             = Score(best)[1] * ranking[i].total

(***************************************************************************)
(* A song deleted while its request was between the two database reads is  *)
(* not returned (engine.rs 126-137).                                       *)
(***************************************************************************)
DeletedSongIsNotReturned ==
    [][outcome'.reason = "Match" /\ outcome' # outcome => outcome'.song \in songs]_vars

(***************************************************************************)
(* What config.rs 67-69 promises of the margin, that two similar songs do  *)
(* not produce an unstable result: the verdict is a function of the        *)
(* candidates, not of the order a HashMap happens to list equal scores in. *)
(***************************************************************************)
VerdictIsStable ==
    pc = "vote" /\ pending = {} =>
        \A p, q \in Rankings(Candidates) :
            /\ Verdict(p, Len(query)) = Verdict(q, Len(query))
            /\ Verdict(p, Len(query)) = "Accept" => p[1].song = q[1].song

(***************************************************************************)
(* What voting.rs 72-76 promises: one vote for every matched pair of a     *)
(* query fingerprint and a reference row.                                  *)
(***************************************************************************)
OneVotePerPair ==
    pc = "vote" /\ pending = {} =>
        \A s \in Voted(votes) :
            TotalVotes(votes, s)
                = Cardinality({m \in Lookup(query, found, Version) : m[2].song = s})
=============================================================================
