# A formal model of loony-shazam

TLA+ modules, TLC models and TLAPS proofs about the program in `src/`: an audio
recognition service (Rust backend, Python fingerprint processor, PostgreSQL and
Redis) with an Android client. Source paths below are relative to `src/`.

`PROJECT.json` lists the components, the runs, the mutants that show each
property can fail, the source lines behind every definition, the findings, the
hazards and the theorems.

## The system

| Component | State it keeps | Operations | Correct when |
|---|---|---|---|
| Matching engine (`backend/src/matching`) | none between requests; in one request the rows looked up, a vote table, a ranking | lookup, vote, score, gate, fetch the song | an answer is backed by rows of the catalogue at the offset it reports; it does not depend on the order of rows; a deleted song is not returned; similar songs are refused, not guessed |
| Catalogue ingestion (`processor/.../ingestion.py`, `cli.py`) | tables songs, fingerprints, ingested_sources; artwork files | `ingest`, `backfill-artwork` over a directory | a file makes at most one song, whole or not at all; what is reported is true; a crash leaves nothing behind that a rerun cannot mend; runs end |
| Database schema (`database/migrations`) | four tables | keys, cascades, the unique index on sha256 | no dangling keys; provenance outlives the song |
| Recognition service (`services/recognition_service.rs`, its handler and repository, `fingerprint/client.rs`) | recognitions (an audit row per request) | recognise an upload or a fingerprint query, read a recognition, statistics | version mismatches are refused; a request has at most one audit row and none if it was refused; an answered id leads to that very row; counters and log agree |
| Admin API (`services/admin_service.rs`) | songs, fingerprints | ingest a song with its fingerprints, delete fingerprints | no fingerprints without a song; what was answered is whole; what a DELETE has removed stays away |
| Rate limiter (`routes/rate_limit.rs`) | a token bucket per address | take a token, evict idle buckets | no address gets more than burst + rate × time; forgetting a bucket neither gives nor takes a token |
| Router, request timeout (`routes/mod.rs`, `main.rs`) | none | wiring, 15 s timeout around every handler, graceful shutdown | a dropped handler leaves the database consistent; a shutdown ends |
| Song cache (`services/song_service.rs`, `storage/redis_cache.rs`) | songs in Redis, with a time to live | read through | staleness is bounded; a song is reported missing only while it is |
| Android recognition (`viewmodel/RecognitionViewModel.kt`, `data/repository`, `audio`) | UI state, the capture coroutine | start, cancel, reset, retry, save to history | at most one recognition; the screen tells its state; a shown result is in the history; the microphone is let go |
| Android history (`viewmodel/HistoryViewModel.kt`, `data/db`) | Room table | list, load details | the details shown are of the entry asked for last |
| Audio encoding on the phone (`audio/PcmAccumulator.kt`, `WavEncoder.kt`) | a bounded sample buffer | append, encode | bounded; header and data agree |
| Landmark hashing (`peaks.py` from the thinning on, `constellation.py`, `fingerprint.py`, `hashing.py`) | the loops over the peaks | thin, sort, pair peaks, pack a hash | the landmarks are the documented ones; a clip's are the song's, at the right place |
| Signal processing (`audio.py`, `spectrogram.py`, `peaks.py` up to the candidates) | none | decode, resample, STFT | numeric, not modelled |
| Processor HTTP service (`service.py`) | none | fingerprint an upload | stateless |
| Configuration, telemetry, screens, scripts, tests | | | not modelled |

How they interact. The phone uploads a recording to the backend over HTTP. The
rate limiter, then the timeout layer, stand before the handlers. The
recognition service sends the audio to the processor, checks the algorithm
version of what comes back, asks the matching engine, and writes an audit row.
The engine reads `fingerprints` and then `songs`, in two statements on a pool.
The ingestion CLI writes the same tables directly, not through the backend, in
one transaction per file; the admin API writes them through the backend without
a transaction. Song details go through Redis. So the database is the only shared
state, and its writers do not know of each other.

What is hard: writers that overlap (two CLI runs, an admin, an operator with
psql) and readers that read twice; a process or connection that dies around a
COMMIT; locks of clients that have gone; files written outside the transaction;
ties and repetitions in the voting; the timeout that drops a handler at any
await; client retries; the coroutines of the phone. The hazards in
`PROJECT.json` name the lines.

## The modules

    Voting ----+
               +--> MatchingEngine --+--> MCMatchingEngine
    Scoring ---+          |          |          |
                          |          +--> Pipeline --> MCPipeline
    Landmarks ------------|----------+       |
                          |                  |
              MatchingEngineProofs --> PipelineProofs

    Catalog (abstract) <-- refined by -- Ingestion --> MCIngestion
                                             |
                                      IngestionProofs

    TokenBuckets (abstract) <-- refined by -- RateLimiter --> MCRateLimiter
                                                  |
                                           RateLimiterProofs

    SongCache --> AdminApi --> MCAdminApi        Recognition --> MCRecognition
        |            |                                |
    SongCacheProofs --> AdminApiProofs           RecognitionProofs

    RecognitionScreen --> MCRecognitionScreen
            |
    RecognitionScreenProofs

The requests of `Recognition` pass the limiter of `RateLimiter` (an open choice
there) and ask the engine of `MatchingEngine` (an open choice again); the phone
of `RecognitionScreen` sends them, and its upload with its one retry is the
client of `Recognition`. These cuts keep each product small enough to search.
Where components share state they are composed: `AdminApi` extends `SongCache`
with the writers of its table, `Pipeline` feeds the landmarks of the processor
into the index and the query of the engine.

### Voting, Scoring, MatchingEngine

`Voting` translates `index.rs` and `voting.rs`. `Lookup` is the SQL join: the
hashes of the query go into UNNEST with their repetitions, so a returned row is
a pair of a query position and a reference row. `CastVotes` and `MarkHits` are
the body of the loop, `Quantize` the rounding, `DominantBucket` the comparison
with its tie-break. `Scoring` translates `scoring.rs` and the gates of
`engine.rs`: `Rankings` is the set of orders that a stable sort by score can
leave of an input in HashMap order, `Verdict` the first gate that fails.

`MatchingEngine` is the state machine of one `recognize` call: `RunLookup`,
`Vote` for each row in any order, `Judge`, `Fetch`. `DeleteSong` (an operator)
and `DeleteFingerprints` (the admin endpoint) interleave with it at its two
database reads; in the voting loop the engine touches only its own memory, so a
deletion there is the same as one just before the fetch. Either read may fail
(`DatabaseError`).

Abstractions. A hash is a small number. The code's f64 ratios are exact
fractions, compared by cross-multiplication; two scores are therefore equal
here exactly when the fractions are. `confidence`, latency and logging are left
out. `found` is a history variable, the table at the moment of the lookup.

### Landmarks, Pipeline

`Landmarks` translates the processor from the peaks on. `DetectPeaks` is the
thinning of `detect_peaks` with its two stable sorts, `Detect`, `Skip`, `Pair`
and `NextAnchor` are the nested loops of `_generate_landmarks` with their two
ways to stop, `PackHash` and `UnpackHash` the fields of a hash, `TimeBinToMs`
Python's `round`. A field is given by its size, `1 << bits` in the code, so that
shifts are products and quotients, and a peak's place in a sorted list is the
number of peaks before it (`Rank`, `InOrder`), which has one answer because a bin
of a frame has one peak at most. Time is exact where the code has floats. Finding
the peaks of a spectrogram is left out: the clip is cut on the frame grid and
shows the peaks the song has there, which is what the code relies on.

`Pipeline` composes it with the engine: `Ingest` makes the song's fingerprints
rows of the index, `Ask` makes the clip's the query, in the order they were
made, and `Recognize` is a step of `MatchingEngine`. A request that brings its
fingerprints along (`POST /recognitions` as JSON) starts at `FromJson`, with any
catalogue and query, so that one run covers both routes.

### Catalog, Ingestion

`Catalog` is what ingestion promises (`docs/ingestion.md`): a file enters the
catalogue in one indivisible step and at most once; afterwards artwork may be
set, fingerprints dropped, the song removed with its fingerprints while its
ledger row stays.

`Ingestion` is the CLI against PostgreSQL. A run is one process with one
connection that works through the files of a directory. `pc` is its place in
`ingest_file` or `backfill_artwork`, `job` its local variables, `status` what it
reported. `tx` is its transaction as the server sees it, which may outlive the
process: `SendCommit` is the client's step, `ServerCommit` the server's,
`ReceiveAck` the client's again. A transaction's rows become visible when it
commits, but its ledger row already keeps others from inserting the same sha256:
`RecordSource` waits while another transaction holds the key, and `RejectSource`
fails once the key is committed. Artwork is written outside the transaction, in
two steps (`OpenArtwork` truncates, `WriteArtwork` fills).

What goes wrong: unreadable files, failing extraction and disk writes, failing
statements, a broken connection at any point (`LoseConnection`; around a COMMIT
the file may be ingested though the run reports a failure; `UpdateUnanswered`
for the UPDATE), a killed process, and a server that notices late
(`ServerAbort`). `ingest` reports a failing file and goes on; `backfill-artwork`
catches nothing and ends. An admin deletes fingerprints and an operator deletes
songs at any moment.

Abstractions. A file is the SHA-256 of its bytes, a directory a set of contents
(two identical files in one directory behave as two runs one after the other). A
song's fingerprints are one row [song, version], since COPY writes all or none.
A retry is a later run. Metadata and progress reports are left out.

### TokenBuckets, RateLimiter

`TokenBuckets` is the promise of `docs/api.md`: every address has a bucket at
all times, that gains tokens with every tick. `RateLimiter` is the code: a
bucket is made when an address is first seen, refilled when it calls again
(`Check`), and forgotten by a task that wakes every `Period` (`Evict`, which
drops what has been idle for `IdleFor`). The mutex makes a check and an
eviction one step each. `Observe` lets an observer begin to count the grants of
an address at any time. f64 levels are exact fractions, in units of which the
rate adds a whole number per tick.

### Recognition

One upload from the client to its audit row and back. `req` is the future of
each request's handler: `Accept` (the limiter's verdict is open), `ReadBody`
(all kinds of upload, and the body limit), `Extract` (the processor answers
with any version, refuses, or is unavailable), `Lookup` and `Fetch` (the
engine's two reads), `Insert` (PostgreSQL executes the INSERT, refuses it since
the song is gone, or fails), `Answer` (the rest of `finalize`, the metrics and
the response). A handler is dropped at whatever it awaits by the timeout layer
(`Timeout`, answered 408) or when its client's connection is gone
(`Disconnect`); an INSERT that was sent may still be executed afterwards. The
client's second attempt may run while the handler of the first does (`Lose`).
`Shutdown` and `Stop` are the graceful end, `Crash` and `Boot` the other one;
the counters restart with the process, the log does not.

### SongCache, AdminApi

`SongCache` is `GET /songs/{id}`: `Get`, `Select`, `Set` are the replies of
Redis, PostgreSQL and Redis again, `Answer` the end; each of the Redis calls may
fail, Redis may be disabled, and a handler may be dropped with its SET executed
or not. The row of a song is its version, its fields are functions to versions,
so that a mixture of two rows would be seen; `past` records what was current
until when. Nobody invalidates an entry.

`AdminApi` adds the admin endpoints as writers of that table. An ingest is two
statements without a transaction, and ends (`End`) at any await by a failure, a
lost reply or a drop, the statement executed or not (the ingest counts as under
way until then); an operator may then send it again. `promised` records the
ingests that were answered, `cleared` the songs for which a DELETE of fingerprints
was. A DELETE may come between the two statements of an ingest; it answers that it
has deleted nothing, and the INSERT follows. `early` records that this is how a
song was cleared last.

### RecognitionScreen

The phone. Steps on the main thread are atomic up to a suspension. A tap starts
a job; `Chunk`, `Captured`, `Recognized` and `Saved` are where its coroutine is
resumed, `Open`, `Release` and `Execute` are the recorder's and the database's
threads. `Cancel` only puts the job into `cancelled`: flowOn and Room's withContext
make the coroutine wait for the other thread, and an exception of that thread goes
before the CancellationException. So a cancelled job ends in silence (`Unwind`),
or as `Error` or `PermissionDenied` over whatever the state is by then, because
the catch clauses (`RecognitionViewModel.kt` 72-76) do not ask whether they are
still concerned. `ui` carries the job that has settled, so that `LateFailure` can
tell such a state from a failure of the current job. A cancelled upload is never
followed by an INSERT, an answer that comes after the cancellation is dropped.

`shown` is the state that was last composed: clicks and the navigation follow
`shown`, not `ui`. `PermissionResult` may arrive after anything else. The
lifecycle is `AppStop` and `AppStart`, `Close` (onCleared: the activity is
finished, or the system destroys it while it is stopped) and `Kill` (the process
dies, and nobody is asked: recordings end, each INSERT under way is executed or
not, and the permission may have been revoked). After both there is a new, Idle
view model, and the screen is Home or, when the activity was stopped, the one
that `rememberNavController` has saved. The jobs of a view model that is gone
write to a state nobody sees; their threads go on unless the process has ended.

## The runs

| Run | Question | Result |
|---|---|---|
| `matching_engine` | Are answers backed by the rows the lookup saw, in whatever order they come and whatever is deleted meanwhile? Does a clip of a song point to its place? | holds, 237,003 states |
| `ingestion` | Do two overlapping runs with every failure implement `Catalog`, and is what they report true? | holds, about 2 million states up to symmetry |
| `ingestion_ends` | Do runs that compete for one key end? | holds, 40,379 states |
| `rate_limiter` | Can anybody notice that buckets are refilled lazily and forgotten? | no: it implements `TokenBuckets`, 1,032,045 states up to symmetry |
| `recognition` | Do answers, audit rows and counters agree, through timeouts, lost replies, retries, deletions and crashes, and does a shutdown end? | holds, 389,900 states |
| `catalogue_reads` | How stale is an answer, and what does an admin's ingest leave behind? | holds, 1,717,139 states up to symmetry |
| `recognition_screen` | Does the screen tell the truth and does every tap settle? | holds, 116,768 states |
| `verdict_is_stable` | Is the verdict a function of the candidates? | no |
| `one_vote_per_pair` | Does a matched pair cast one vote? | no |
| `reingest` | Does ingesting a file again restore fingerprints an admin dropped? | no |
| `artwork_whole` | Is rewriting artwork harmless? | no |
| `background` | Does the app stop its network call when it goes to the background? | no |

The properties of `matching_engine`: `AnswerIsAligned` (the reported song and
offset explain the share of the query the coverage gate asks for, recomputed
from the looked-up rows without the vote table), `VotesAreOrderFree` (the vote
table at the end is a function of the rows), `ExcerptHasItsVotes` (a clean
excerpt collects a vote per landmark whatever else is there), `CopyIsRefused` (a
recording that is in the catalogue twice is never answered, unless a third song
with an equal score comes between), `DeletedSongIsNotReturned`. Of the processor
in front of it: `LandmarksAreAsDocumented` (the loops against the definition in
`docs/fingerprinting.md`), `ClipPointsToItsPlace` (every landmark of a clean
clip is one of the song's, give or take a millisecond of rounding, although the
clip cuts zones short) and `ClipKeepsHalfItsVotes` (the rounding may set the
votes over the border of a bucket, but half of them stay together). The last two
do not hold for tracks that were thinned, which rank their peaks for
themselves, and do not claim it.

Of `ingestion`: `OneSongPerSource`, `NoPartialSong`, `ArtworkIsThere`,
`ReportsAreTrue`, `LedgerIsPermanent` and the refinement `RefinesCatalog`. Of
`ingestion_ends`: `RunsEnd`.

Of `rate_limiter`: `BurstIsBounded` (from any moment on, an address gets at most
a burst and the rate since), `ForgottenInTime` (the map does not keep what is
idle) and the refinement `RefinesTokenBuckets`. Of `recognition`:
`AnswersAreOnRecord` (`GET /recognitions/{id}` with an answered id gives that
verdict, unless the song has gone), `RowsAreEarned` (at most one row for a
request, none for a refused or failed one), `VersionsAreNotMixed`,
`CountersAddUp` (what separates the counters from the log are exactly the
answers without an id, lost replies and dropped handlers), `ShutdownEnds`. Of
`catalogue_reads`: `StalenessIsBounded` (an answer is one row of the table, which
was current less than TTL and two deadlines ago), `MissingIsCurrent`,
`NoStrayFingerprints`, `AnsweredIngestIsWhole`, `ClearedStaysClear` (fingerprints
are found after a DELETE only when it came between an ingest's two statements). Of
`recognition_screen`: `UiTellsTheTruth` (one job at a time, and its stage is what
is shown, unless a job that was cancelled before it has failed late),
`ResultIsSaved`, `ResultScreenIsAtRest` (nothing is under way behind the result
screen, which is empty beside a new view model or after such a failure and never
else), `EveryTapSettles`, `MicIsReleased`.

### What the failing runs show

* `VerdictIsStable`. Equal scores are ranked in the iteration order of a
  HashMap, and the margin is taken between the first two. With 8 of 16 and 6 of
  9 votes (both score 4.0) the same query is answered in one order and refused
  in the other. `config.rs:67-69` promises that results are not unstable.
* `OneVotePerPair`. `voting.rs:72-79` speaks of one vote per pair. The join
  repeats a reference row for every occurrence of its hash in the query, and the
  loop votes for every occurrence again: k occurrences cast k × k votes.
* `ReingestRestoresFingerprints`. `admin_handler.rs:88-90` and `docs/api.md`
  say that fingerprints can be dropped to ingest the song again. The ledger
  still has its hash, so ingestion skips it as a duplicate.
* `ArtworkStaysWhole`. `ingestion.py:187-191` calls writing artwork trivially
  idempotent. `write_bytes` truncates first; a second run that dies while it
  writes leaves a truncated file behind a published song.
* `NoOrphanedCalls`. `docs/how-song-recognition-works.md:708-710` says that
  backgrounding the app cancels recording and networking. The observer in
  `HomeScreen` calls `cancelListening`, which acts on Listening only
  (`RecognitionViewModel.kt:86-91`), so an upload goes on.

### Bounds

`matching_engine`: 336 catalogues and 5 queries. Song 1 has any three or fewer
of six landmarks, song 2 is one of four row sets (copies of song 1's among
them), song 3 has two equal rows or none, one row is of another version. That
is enough for each gate to refuse and to accept, for equal scores, ties of
buckets, copies, repeated hashes in the query, and offsets on either side of
zero and of a 4 ms bucket's boundaries. The thresholds are small (2 votes, score
1, coverage 1/3) so that small catalogues pass them; the margin is the default
1.3. Besides, 91 songs of two to four of seven peaks with three clips of them,
under the processor's default bins, fields, hop, sample rate and target zone,
but a fanout of 2 and one peak per second: more peaks in a zone than the fanout
allows, a peak beyond a zone, equal loudness, repeated hashes, clips that are
thinned and clips that are not, and places (frames 4 and 7) whose votes the
rounding sets over the border of a 4 ms bucket. A wider bucket than 4 ms only
makes that border rarer.

`ingestion`: two runs, each of either command, over any set of two files, one
ingested before artwork existed and one new; one version, because the ledger is
asked for the hash alone and the version is only copied. Two runs are enough for
each race in the hazards (a check that is stale, two inserts of one key, a
rewrite of a published file). Runs never start again, but the second may start
after the first has ended, which is what a retry is. The ids are bounded by the
number of attempts (a run reaches a file once), so no bound is needed in the
guards. Runs are symmetric: they differ in name only, and no fairness is used.

`ingestion_ends`: one new file and two runs, without symmetry.

`rate_limiter`: two addresses (interchangeable, hence the symmetry; no fairness
is used), a burst of 2, a token every one and a half ticks, so that levels lie
between whole tokens, `IdleFor` = 3 ticks, in which the bucket has just become
full (the tightest case `LimiterAssumption` allows), and an eviction every 2
ticks up to tick 7: an address is seen, forgotten, seen again and forgotten
again. `MaxAsked` = 4 bounds only what is counted.

`recognition`: one tap with both its attempts, whose handlers may be alive at
once; two songs that may be deleted, two versions, one of them expected, all
seven kinds of upload, and one shutdown or crash (`MaxStops`). Requests of
different clients share the songs, the id sequence and the counters only, and
these two attempts race for each of them.

`catalogue_reads`: one song with two versions, two readers (interchangeable), an
admin with one ingest (`MaxTurns`; the id is used up by it), TTL and deadline of one tick and three
ticks: a reader that fills the cache late serves another one after the row has
changed and gone. With one id every read and write conflicts, which is the hard
case; the proofs are for any number of ids.

`recognition_screen`: three taps, one whose microphone or INSERT is still
winding down, one cancelled after it and one under way: a late failure can meet
each stage of a later job, and again the one after that. `background`: one tap.

Deadlock is not checked (`CHECK_DEADLOCK FALSE`): requests are answered, runs and
taps end, bounded clocks stop, and then nothing is left to do.

### Fairness

`RunsEnd` assumes, for each run, weak fairness of `Work(r)`, its next statement
(a live process goes on; waiting for a lock is not progress, as `RecordSource`
is disabled then), and of `Server(r)`: PostgreSQL answers a COMMIT it was sent,
and ends the transaction of a client that has gone (the closed socket, or TCP
keepalive). Nothing is assumed of failures, admins and operators: none of them
need ever act. No assumption of strong fairness is needed because a transaction
holds one key and takes it as its last statement, so waiting runs form no cycle.

`ShutdownEnds` assumes weak fairness of `Timeout(r)`, the timer of
`TimeoutLayer` around every handler, and of `Stop`, axum's wait for the handlers
it still has. Nothing is assumed of clients, the processor, the database: a
handler that waits for one of them for ever is ended by its timer.

`EveryTapSettles` and `MicIsReleased` assume, for each job, weak fairness of
`Coroutine` (the main thread goes on; a recording is 12 seconds long, and OkHttp
has timeouts and two attempts), `Open` and `Release` (the recorder's thread) and
`Execute` (SQLite). Nothing is assumed of the user, the system, or composition.

## The proofs

The proofs hold for every value of the constants that satisfies the named
assumption of its module: `IngestionAssumption` (legacy songs have distinct ids
below the next one), `BucketAssumption` (any integer, the code clamps it to 1),
`LimiterAssumption` (`IdleFor * Rate >= Capacity`: an idle bucket is full when
it is forgotten; the 3600 s of the code satisfy it for bursts up to 60 times the
rate per minute, a configuration beyond that would give tokens away),
`RecognitionAssumption`, `CacheAssumption` and `AdminAssumption` (any time to
live, deadline, bound and number of readers and admins, the real 300 s and 15 s
among them), `ScreenAssumption` (any number of taps), `ScoringAssumption`
(thresholds are numbers), `EngineAssumption` (catalogues are finite sets of rows,
queries sequences of marks) and `PipelineAssumption` (a song is a finite set of
peaks, one for a bin of a frame at most; a hash has room for the version and for
the distances of the target zone, which `hashing.py:12-14` expects of a
configuration; the sample rate is positive). Hops, rates, bins, fanout and zone
are any numbers.

`MatchingEngineProofs` begins with the arithmetic of `Quantize`: an offset lies
within half a bucket of its bucket, opposite offsets go to opposite buckets, and
offsets less than a bucket apart go to the same bucket or to neighbours
(`QuantizeIsSteady`), which is why rounding to milliseconds can split votes in
two parts but not in three. The invariant of a request, `Inv`, is `TablesTyped`,
`RequestTyped`, `Controlled` (what a request holds at each `pc`) and `Counted`: the
vote table is the tally of the rows that have voted, a bucket holding one vote
for each pair of such a row and a position with its hash, and `hits` the hashes of
those pairs. None of the first four properties below is inductive without it.

* `VotesAreOrderFree` is `Counted` when no row is pending.
* `ExcerptHasItsVotes`: every position of the query has a row whose offset
  quantizes to one and the same bucket, so the bucket has a vote for each
  position at least, and `DominantVotes` is the most any bucket has.
* `AnswerIsAligned`: by `Counted` the hashes of the dominant bucket are those of
  rows whose offset quantizes to it, by `QuantizeIsNearest` these rows are within
  half a bucket of its middle, and the coverage gate counted those hashes. The
  theorem asks for `BucketMs >= 1`, since the answer multiplies by the width as
  it was configured (see the observations).
* `CopyIsRefused`: a bijection between the rows of two copies, a mark at a time,
  gives them equal tallies, hence equal scores; if the copy is ranked second, the
  margin gate refuses. The theorem asks for a margin above 1 (1.3 by default): a
  margin of 1 means that ties are welcome.
* `DeletedSongIsNotReturned` follows from `Controlled` at the fetch.

`PipelineProofs` proves the landmarks, for any recording and clip. `Looping` and
`Printing` relate the three loop variables to a definition by pairs: `Chosen`
says that a peak is in the zone of another and that fewer than `Fanout` peaks of
the zone come before it, `Passed` which pairs the loops have been through, and
the fingerprints are always those of the chosen pairs among them. The invariant
holds because the list is sorted (`InOrderIsSorted`): the first peak beyond the
zone then ends the search for good. `FieldsApart` and `HashIsPacked` take a hash
apart again, and so `LandmarksAreAsDocumented` follows. For
`ClipPointsToItsPlace`, a pair of the clip's peaks is a pair of the song's with
the same peaks before it in the zone (`ClipPairIsSongPair`), and `MsAddUp` bounds
what three roundings may add up to. `ClipKeepsHalfItsVotes` takes everything
together: `Fed` says that the table and the query are the fingerprints of the
song and the clip, so every position of the query has a row whose offset is one
of three neighbouring milliseconds; these lie in two buckets at most when a
bucket has 3 ms or more, and one of the two has half of the positions. `PipeInv`
(the engine waits, and then keeps its invariant) carries the theorems about the
engine over to the pipeline, whose index and queries are not constants but what
the processor made.

`IngestionProofs` proves the inductive invariant `IInv`, and from it `TypeOK`
and `OneSongPerSource`. `OneSongPerSource` is not inductive: whether a commit
adds a second song of a file depends on what open transactions hold. `IInv`
adds

* `JobAtHand`: between taking a file up and reporting it, a run has a file;
* `IdsAreFresh`: the ids of songs and of open transactions are below `nextId`,
  and no two of them are the same, since sequence values are not given back;
* `KeysAreUnique`: no sha256 is twice in the ledger, or held by two open
  transactions, or held by one and in the ledger;
* `SongsAreAccounted`: every song is the one its ledger row names.

The argument for a step goes by what it does to the database
(`DatabaseSteps`): it leaves the tables and transactions alone, rolls a
transaction back, moves one a stage on, commits one, or is one of the deletions
and the artwork update; each conjunct has a lemma of its own (`KeysStayUnique`,
...).

It then proves `RefinesCatalog`: `ServerCommit` is `Catalog!Ingest` (that the id
is new and the file not ingested is `IdsAreFresh` and `KeysAreUnique`), an UPDATE
of the artwork and the deletions are their abstract counterparts or change
nothing, everything else is a stutter. `LedgerIsPermanent` and `NoPartialSong`
follow along the same cases.

`ArtworkIsThere` needs `ArtInv`: a run that has written a picture, the transaction
that will name it and the backfill that will add its URL all stand for a file
that exists (`Picture`), and the song a backfill read from the ledger is still
that of its file, or gone, when the UPDATE is made, because an id is never given
to another song (`LedgerNames`, `JobName`). `ReportsAreTrue` needs `ReportInv`: a run
claims a file from the acknowledgement of its COMMIT on, and two claims would
take two rows with one key.

`RateLimiterProofs`: the refinement maps a bucket to its level had it been
refilled at every tick, and a missing bucket to a full one. A check takes from
both the same token; forgetting is a stutter because of the assumption. The
bound on grants follows from an invariant that adds the tokens left to the
tokens granted since the observer began. `ForgottenInTime` follows from
`Scheduled`, which looks ahead to the next eviction: by then no bucket will have
been idle for more than `IdleFor` and a period.

`SongCacheProofs`: the inductive invariant dates every song a reader or the cache
holds: a row read was current within the deadline, an entry's expiry is at most
its SET plus TTL. `AdminApiProofs` shows that admins are steps of `SongCache`, so
its bounds hold with them, and proves the admin's own properties from an
invariant that no two ingests under way hold the same id, and that one which is
about to insert fingerprints holds an id nobody has promised, and nobody has
cleared but by a DELETE that came before. The latter is why what a DELETE has
removed does not come back (`ClearedStaysClear`).

`RecognitionProofs`: `Inv` is `TypeOK` with `RowInv` (a row's INSERT has been
executed, its id is below the sequence, and it tells what its handler holds, with
no song once that has been deleted), `Unique` (no request has two rows, no id is
used twice), `HandlerInv` (a handler holds its INSERT to the end, an answered id
is that of its row, audio has the expected version) and `ClientInv` (nothing has
been sent beyond a client's latest attempt). `AnswersAreOnRecord` is not
inductive without the rows of handlers that have not answered yet.
`CountersAddUp` needs, besides, `CountInv` (until the first restart, a counter is
the number of requests answered with that verdict) and a bijection between the
answered requests that left a row and those rows, which `Unique` and `RowInv`
provide; the log is finite because a request adds one row to it at most.

`RecognitionScreenProofs`: `Inv` relates the coroutine, the INSERT and the
history entry of a job (`RowsInv`), the result on the screen and its job
(`ResultInv`), what is composed, where the navigation stands and what is under way
(`ScreenInv`), and a permission that is asked for with what runs (`GrantInv`: a
refusal that arrives late finds nothing running, since nothing runs before it was
granted and a permission is revoked by killing the process). The proof has one
lemma for a coroutine that settles (`SettleStep`), with a case for one that was
cancelled: it leaves the live jobs alone and can only leave a failure behind.

Only model-checked: liveness (`RunsEnd`, `ShutdownEnds`, `EveryTapSettles`,
`MicIsReleased`), since fairness and ENABLED are out of the prover's reach, and
the runs that expect a violation, whose counterexample is a behaviour. Every
other property of a passing run is a theorem. The library's induction theorems
cannot be instantiated by the installed provers, so no proof uses them. Where a
set has to be gone through element by element, the proof takes a smallest subset
that contradicts the claim (`SmallestSubset`, from the well-foundedness of strict
inclusion); otherwise counts are compared through injections and bijections of
finite sets, a sum of votes (`TotalVotes`) is the size of a disjoint union, and a
rank is the number of smaller elements.

## Not modelled

* Signal processing (decoding, resampling, STFT, local maxima): stateless numeric
  code; the peaks are the input of `Landmarks`.
* Audio encoding on the phone: a bounded buffer and a header, sequential, with
  unit tests that reach its boundaries.
* The processor's HTTP layer: stateless; what the backend can observe of it is
  `Recognition!Extract`.
* Telemetry and health: no decision depends on them; the recognition counters are
  in `Recognition`.
* Rendering, scripts, containers, benchmarks, parsing of the environment
  (thresholds, limits and versions are CONSTANTS), CORS and tracing.
* Refusals of the admin endpoints (token, title, duration, size), which leave no
  trace. Statistics and indexes.
* The history list and its detail screen; a permission granted in the system
  settings; OkHttp's own connection-level retries, which happen below a call;
  reading of request headers, which happens before the timeout layer.
* Whether `HomeScreen`'s observer hears ON_STOP when it is left for the history
  is decided by the framework; the model allows both.

## Observations not shown by a run

* `AUDIO_TOO_LARGE` (413, `docs/api.md:97-98`) cannot be answered: the body limit
  is the same number of bytes and hits first, as a malformed body, which is 400.
* `docs/api.md:101-103` promises a `recognition_id` in every response; there is
  none when the audit INSERT fails (`recognition_service.rs:116`).
* Requests that end in 408 are not in the request counters, which are inside the
  timeout layer.
* `config.rs:54-56` speaks of buckets that do not split what should be one
  dominant offset. A grid has borders: with the default hop, rate and 100 ms
  buckets, a clean clip from frame 281 has offsets of 13,049 and 13,050 ms, in
  buckets 130 and 131. `ClipKeepsHalfItsVotes` says what remains true.
* `MATCH_OFFSET_BUCKET_MS` is read without a check (`config.rs:109`). The voting
  takes a width below 1 as 1 (`voting.rs:119`), but the answer multiplies its
  bucket by the value as configured (`engine.rs:152`): with 0 every answer
  reports offset 0, with a negative width the wrong sign.
* `HistoryViewModel.loadDetail` starts a coroutine per call and neither cancels
  the one before nor compares ids: when an entry is opened while the query of
  another is slow, the wrong one may stay on the screen. `selected` is never
  cleared, so the last entry is shown until the next has been loaded.
* A recorder, an upload or an INSERT that fails after its recognition was cancelled
  writes its error over the state of the next one: flowOn and withContext give the
  failure precedence over the cancellation, and `RecognitionViewModel.kt:72-76` do
  not check `isActive`. Tap, leave, return, tap: the second recognition records while
  the screen says "Recording failed", its button is enabled, and if the app goes to
  the background before the next second is reported, `cancelListening` finds no Listening and lets
  it record on, against `RecognitionViewModel.kt:85` and `HomeScreen.kt:68-69`. The
  model contains it (`Captured`, `LateFailure`), and `UiTellsTheTruth` says how far
  it goes.
* The system's Back from the result screen does not reset the view model, unlike
  its button; Home then navigates to the result again.
