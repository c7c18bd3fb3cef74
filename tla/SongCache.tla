------------------------------ MODULE SongCache -----------------------------
(***************************************************************************)
(* GET /api/v1/songs/{id}: SongService (services/song_service.rs) reads    *)
(* through a Redis cache (storage/redis_cache.rs) that nobody ever         *)
(* invalidates: an entry lives for TTL, whatever becomes of its row.       *)
(*                                                                         *)
(* A row of songs is its version: NotYet before it is inserted, one more   *)
(* with every UPDATE, Gone when it is deleted.  Ids are never reused.      *)
(***************************************************************************)
EXTENDS Integers

CONSTANTS
    Readers,    \* requests at a time
    Ids,        \* of songs
    TTL,        \* of a cache entry: 300 s
    Deadline,   \* HTTP_REQUEST_TIMEOUT_MS: 15 s
    MaxVersion, \* bound: updates of a row
    MaxTime     \* bound: ticks of the clock

ASSUME CacheAssumption ==
    /\ TTL \in Nat \ {0} /\ Deadline \in Nat
    /\ MaxVersion \in Nat \ {0} /\ MaxTime \in Nat

NotYet == 0
Gone == MaxVersion + 1
Rows == 1..MaxVersion
Absent == {NotYet, Gone}

VARIABLES
    now,        \* the clock
    songs,      \* the table: version of every row
    past,       \* history: [id, version, until] of the rows that were
    enabled,    \* RedisCache::connect found a Redis at startup
    cache,      \* Redis: id -> [song, expires]
    reader      \* the handlers: [pc, id, started, song]; once one has
                \* answered, `started` is when it did

table == <<songs, past>>
cacheVars == <<now, table, enabled, cache, reader>>

-----------------------------------------------------------------------------
(***************************************************************************)
(* A song is a function from its fields to the version of the row they     *)
(* come from.                                                              *)
(***************************************************************************)
ShownFields == {"title", "artist", "album", "duration_ms", "artwork_url"}
CachedFields == ShownFields \cup {"album_artist", "isrc", "source"}
RowFields == CachedFields \cup {"release_date", "created_at", "updated_at"}

Row(v) == [f \in RowFields |-> v]

\* CachedSong::from(Song)
ToCached(song) == [f \in CachedFields |-> song[f]]

\* Song::from(CachedSong): no release date, and timestamps of its own.
FromCached(entry) ==
    [f \in RowFields |-> IF f \in CachedFields THEN entry[f] ELSE NotYet]

SongResponse(song) == [f \in ShownFields |-> song[f]]

NoSong == Row(NotYet)
Idle == [pc |-> "idle", id |-> NotYet, started |-> 0, song |-> NoSong]
PCs == {"idle", "get", "select", "set", "found", "missing", "answered", "not found",
        "failed"}
Waiting == {"get", "select", "set", "found", "missing"}

-----------------------------------------------------------------------------
CacheInit ==
    /\ now = 0
    /\ songs = [i \in Ids |-> NotYet]
    /\ past = {}
    /\ enabled \in BOOLEAN
    /\ cache = <<>>
    /\ reader = [r \in Readers |-> Idle]

(***************************************************************************)
(* Time passes.  The timeout layer is punctual, no handler outlives its    *)
(* deadline, and so is Redis with what has expired.                        *)
(***************************************************************************)
Unlimited == TRUE     \* Mutant: no time limit on this route.
Punctual == \A r \in Readers : reader[r].pc \in Waiting => now < reader[r].started + Deadline

Tick ==
    /\ now < MaxTime /\ Punctual
    /\ now' = now + 1
    /\ cache' = [i \in {j \in DOMAIN cache : now' < cache[j].expires} |-> cache[i]]
    /\ UNCHANGED <<table, enabled, reader>>

\* INSERT, UPDATE and DELETE of a row: the next version, or the last.
Change(i, v) ==
    /\ songs' = [songs EXCEPT ![i] = v]
    /\ past' = past \cup {[id |-> i, version |-> songs[i], until |-> now]}
    /\ UNCHANGED <<now, enabled, cache, reader>>

AddSong(i) == songs[i] = NotYet /\ Change(i, 1)
UpdateSong(i) == songs[i] \in Rows /\ songs[i] < MaxVersion /\ Change(i, songs[i] + 1)
DeleteSong(i) == songs[i] \in Rows /\ Change(i, Gone)

-----------------------------------------------------------------------------
(***************************************************************************)
(* The handler.  Each step is a reply: of Redis, of the database, of Redis *)
(* again, and the answer to the client, which may take its time.           *)
(***************************************************************************)
Request(r, i) ==
    /\ reader[r].pc \notin Waiting
    /\ reader' = [reader EXCEPT ![r] = [Idle EXCEPT !.pc = "get", !.id = i,
                                                      !.started = now]]
    /\ UNCHANGED <<now, table, enabled, cache>>

Become(r, pc, song) ==
    reader' = [reader EXCEPT ![r].pc = pc, ![r].song = song]

\* get_json: a hit, or a miss, a disabled cache or a Redis that fails.
Get(r) ==
    /\ reader[r].pc = "get"
    /\ \/ /\ enabled /\ reader[r].id \in DOMAIN cache
          /\ Become(r, "found", FromCached(cache[reader[r].id].song))
       \/ Become(r, "select", NoSong)
    /\ UNCHANGED <<now, table, enabled, cache>>

\* find_by_id
Select(r) ==
    /\ reader[r].pc = "select"
    /\ \/ /\ songs[reader[r].id] \in Rows
          /\ Become(r, "set", Row(songs[reader[r].id]))
       \/ songs[reader[r].id] \notin Rows /\ Become(r, "missing", NoSong)
       \/ Become(r, "failed", NoSong)
    /\ UNCHANGED <<now, table, enabled, cache>>

\* Mutant: SET without a time to live.
StoreForGood(i, song) ==
    cache' = [j \in DOMAIN cache \cup {i} |->
                 IF j = i THEN [song |-> ToCached(song), expires |-> now + TTL + MaxTime]
                 ELSE cache[j]]

\* SETEX: whatever was there is replaced.
Store(i, song) ==
    cache' = [j \in DOMAIN cache \cup {i} |->
                 IF j = i THEN [song |-> ToCached(song), expires |-> now + TTL]
                 ELSE cache[j]]

\* set_json: a failure is not noticed.
Set(r) ==
    /\ reader[r].pc = "set"
    /\ Become(r, "found", reader[r].song)
    /\ \/ enabled /\ Store(reader[r].id, reader[r].song)
       \/ UNCHANGED cache
    /\ UNCHANGED <<now, table, enabled>>

Answer(r) ==
    /\ reader[r].pc \in {"found", "missing"}
    /\ reader' = [reader EXCEPT ![r].started = now,
                     ![r].pc = IF @ = "found" THEN "answered" ELSE "not found"]
    /\ UNCHANGED <<now, table, enabled, cache>>

\* The time limit, or the client, ends a handler; its SETEX may be executed.
Drop(r) ==
    /\ reader[r].pc \in Waiting
    /\ reader' = [reader EXCEPT ![r] = Idle]
    /\ \/ enabled /\ reader[r].pc = "set" /\ Store(reader[r].id, reader[r].song)
       \/ UNCHANGED cache
    /\ UNCHANGED <<now, table, enabled>>

Read ==
    \E r \in Readers :
        \/ \E i \in Ids : Request(r, i)
        \/ Get(r) \/ Select(r) \/ Set(r) \/ Answer(r) \/ Drop(r)

CacheNext ==
    \/ Tick \/ Read
    \/ \E i \in Ids : AddSong(i) \/ UpdateSong(i) \/ DeleteSong(i)

CacheSpec == CacheInit /\ [][CacheNext]_cacheVars

-----------------------------------------------------------------------------
(***************************************************************************)
(* Properties.                                                             *)
(***************************************************************************)
CacheTypeOK ==
    /\ now \in Nat
    /\ songs \in [Ids -> NotYet..Gone]
    /\ past \subseteq [id : Ids, version : NotYet..Gone, until : Nat]
    /\ enabled \in BOOLEAN
    /\ DOMAIN cache \subseteq Ids
    /\ \A i \in DOMAIN cache :
          cache[i].song \in [CachedFields -> Rows] /\ cache[i].expires \in Nat
    /\ reader \in [Readers -> [pc : PCs, id : Ids \cup {NotYet}, started : Nat,
                               song : [RowFields -> NotYet..Gone]]]

\* Row i was at version v at most `ago` before t.
WasCurrent(i, v, t, ago) ==
    \/ songs[i] = v
    \/ \E p \in past : p.id = i /\ p.version = v /\ p.until + ago >= t

(***************************************************************************)
(* With Redis or without, hit or miss, and however slow a reader was that  *)
(* filled the cache, a client is shown a song as one row of the table had  *)
(* it, all its fields of one version, and the row was so less than TTL and *)
(* two deadlines before the answer, or one deadline without a cache        *)
(* (song_service.rs 16-85, redis_cache.rs 41-55).                          *)
(***************************************************************************)
MaxStaleness == IF enabled THEN TTL + Deadline + Deadline - 1 ELSE Deadline

StalenessIsBounded ==
    \A r \in Readers : reader[r].pc = "answered" =>
        \E v \in Rows :
            /\ SongResponse(reader[r].song) = SongResponse(Row(v))
            /\ WasCurrent(reader[r].id, v, reader[r].started, MaxStaleness)

(***************************************************************************)
(* That there is no such song is never out of the cache: it was so while   *)
(* the request was under way (song_service.rs 25-29).                      *)
(***************************************************************************)
MissingIsCurrent ==
    \A r \in Readers : reader[r].pc = "not found" =>
        \E v \in {NotYet, Gone} : WasCurrent(reader[r].id, v, reader[r].started, Deadline)
=============================================================================
