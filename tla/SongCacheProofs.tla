--------------------------- MODULE SongCacheProofs ---------------------------
(***************************************************************************)
(* Theorems of SongCache for every time to live, deadline, number of       *)
(* readers, songs and updates, the code's 300 s and 15 s among them: what  *)
(* a client is shown is not older than the bound.                          *)
(***************************************************************************)
EXTENDS SongCache, TLAPS

\* The age of what a handler holds, counted from the start of its request.
Age == IF enabled THEN TTL + Deadline - 1 ELSE 0

(***************************************************************************)
(* The inductive invariant.  A handler is within its deadline; what it has *)
(* read from the table was so during the request; what it found was so Age *)
(* before the request; a cache entry was so at most TTL and a deadline     *)
(* before it expires.                                                      *)
(***************************************************************************)
HandlerInv(h) ==
    /\ h.pc # "idle" => h.id \in Ids /\ h.started <= now
    /\ h.pc \in Waiting => now <= h.started + Deadline
    /\ h.pc = "set" =>
          \E v \in Rows : h.song = Row(v) /\ WasCurrent(h.id, v, h.started, 0)
    /\ h.pc = "found" =>
          \E v \in Rows : /\ SongResponse(h.song) = SongResponse(Row(v))
                          /\ WasCurrent(h.id, v, h.started, Age)
    /\ h.pc = "missing" =>
          \E v \in {NotYet, Gone} : WasCurrent(h.id, v, h.started, 0)
    /\ h.pc = "answered" =>
          \E v \in Rows : /\ SongResponse(h.song) = SongResponse(Row(v))
                          /\ WasCurrent(h.id, v, h.started, MaxStaleness)
    /\ h.pc = "not found" =>
          \E v \in {NotYet, Gone} : WasCurrent(h.id, v, h.started, Deadline)

ReaderInv(r) == HandlerInv(reader[r])

EntryInv(i) ==
    /\ cache[i].expires > now /\ cache[i].expires <= now + TTL
    /\ \E v \in Rows : /\ cache[i].song = ToCached(Row(v))
                       /\ WasCurrent(i, v, cache[i].expires, TTL + Deadline)

CacheInv ==
    /\ CacheTypeOK
    /\ \A i \in DOMAIN cache : EntryInv(i)
    /\ \A r \in Readers : ReaderInv(r)

-----------------------------------------------------------------------------
LEMMA Numbers ==
  /\ TTL \in Nat \ {0} /\ Deadline \in Nat
  /\ Age \in Nat /\ MaxStaleness \in Nat /\ MaxStaleness = Age + Deadline
  /\ Rows \subseteq NotYet..Gone /\ NotYet \in NotYet..Gone /\ Gone \in NotYet..Gone
  /\ NotYet \notin Rows
  BY CacheAssumption DEF Age, MaxStaleness, Rows, NotYet, Gone

LEMMA RowType ==
  ASSUME NEW v \in NotYet..Gone PROVE Row(v) \in [RowFields -> NotYet..Gone]
  BY DEF Row

LEMMA CachedType ==
  ASSUME NEW v \in Rows
  PROVE  /\ ToCached(Row(v)) \in [CachedFields -> Rows]
         /\ FromCached(ToCached(Row(v))) \in [RowFields -> NotYet..Gone]
         /\ SongResponse(FromCached(ToCached(Row(v)))) = SongResponse(Row(v))
<1>1. ToCached(Row(v)) = [f \in CachedFields |-> v]
  BY DEF ToCached, Row, RowFields
<1>2. FromCached(ToCached(Row(v))) \in [RowFields -> NotYet..Gone]
  BY <1>1, Numbers DEF FromCached
<1>3. ShownFields \subseteq CachedFields /\ ShownFields \subseteq RowFields
  BY DEF RowFields, CachedFields
<1>4. SongResponse(FromCached(ToCached(Row(v)))) = [f \in ShownFields |-> v]
  BY <1>1, <1>3 DEF SongResponse, FromCached
<1>5. SongResponse(Row(v)) = [f \in ShownFields |-> v]
  BY <1>3 DEF SongResponse, Row
<1>6. QED  BY <1>1, <1>2, <1>4, <1>5

LEMMA Older ==
  ASSUME CacheTypeOK, NEW i \in Ids, NEW v, NEW t \in Int, NEW u \in Int,
         NEW ago \in Int, NEW longer \in Int, u - longer <= t - ago,
         WasCurrent(i, v, t, ago)
  PROVE  WasCurrent(i, v, u, longer)
  BY DEF WasCurrent, CacheTypeOK

LEMMA Kept ==
  ASSUME CacheTypeOK, NEW j \in Ids, NEW w, Change(j, w),
         NEW i \in Ids, NEW v, NEW t \in Nat, NEW ago \in Nat, t <= now + ago,
         WasCurrent(i, v, t, ago)
  PROVE  WasCurrent(i, v, t, ago)'
<1>1. CASE \E p \in past : p.id = i /\ p.version = v /\ p.until + ago >= t
  BY <1>1 DEF Change, WasCurrent
<1>2. CASE songs[i] = v /\ i = j
  <2>1. [id |-> i, version |-> v, until |-> now] \in past'  BY <1>2 DEF Change
  <2>2. QED  BY <2>1 DEF WasCurrent, CacheTypeOK
<1>3. CASE songs[i] = v /\ i # j
  BY <1>3 DEF Change, WasCurrent, CacheTypeOK
<1>4. QED  BY <1>1, <1>2, <1>3 DEF WasCurrent

\* What a step leaves alone of a handler, and of what was once current.
LEMMA Frame ==
  ASSUME CacheTypeOK, NEW r \in Readers, ReaderInv(r),
         reader'[r] = reader[r], enabled' = enabled,
         now \in Nat, now' \in Nat, now <= now',
         reader[r].pc \in Waiting => now' <= reader[r].started + Deadline,
         \A i \in Ids : \A v : \A t, ago \in Nat :
            t <= now /\ WasCurrent(i, v, t, ago) => WasCurrent(i, v, t, ago)'
  PROVE  ReaderInv(r)'
<1>1. /\ reader[r].started \in Nat
      /\ reader[r].pc # "idle" => reader[r].id \in Ids /\ reader[r].started <= now
  BY DEF CacheTypeOK, ReaderInv, HandlerInv
<1>2. ASSUME reader[r].pc # "idle", NEW v, NEW ago \in Nat,
             WasCurrent(reader[r].id, v, reader[r].started, ago)
      PROVE  WasCurrent(reader[r].id, v, reader[r].started, ago)'
  <2> DEFINE id == reader[r].id
  <2> DEFINE started == reader[r].started
  <2>1. id \in Ids /\ started \in Nat /\ started <= now  BY <1>1, <1>2
  <2>2. id' = id /\ started' = started  OBVIOUS
  <2>3. WasCurrent(id, v, started, ago)  BY <1>2
  <2> HIDE DEF id, started
  <2>4. WasCurrent(id, v, started, ago)'  BY <2>1, <2>2, <2>3
  <2>5. QED  BY <2>4 DEF id, started
<1>3. /\ 0 \in Nat /\ Age \in Nat /\ MaxStaleness \in Nat /\ Deadline \in Nat
      /\ Age' = Age /\ MaxStaleness' = MaxStaleness /\ reader'[r] = reader[r]
  BY Numbers DEF Age, MaxStaleness
<1>4. reader[r].pc = "set" =>
        \E v \in Rows : /\ reader[r].song = Row(v)
                        /\ WasCurrent(reader[r].id, v, reader[r].started, 0)'
  BY <1>1, <1>2, <1>3 DEF ReaderInv, HandlerInv
<1>5. reader[r].pc = "found" =>
        \E v \in Rows : /\ SongResponse(reader[r].song) = SongResponse(Row(v))
                        /\ WasCurrent(reader[r].id, v, reader[r].started, Age)'
  <2>1. ASSUME reader[r].pc = "found", NEW v,
               WasCurrent(reader[r].id, v, reader[r].started, Age)
        PROVE  WasCurrent(reader[r].id, v, reader[r].started, Age)'
    <3> DEFINE n == Age
    <3>1. n \in Nat /\ n' = n  BY <1>3
    <3>2. WasCurrent(reader[r].id, v, reader[r].started, n)  BY <2>1
    <3> HIDE DEF n
    <3>3. WasCurrent(reader[r].id, v, reader[r].started, n)'  BY <1>2, <2>1, <3>1, <3>2
    <3>4. QED  BY <3>3 DEF n
  <2>2. QED  BY <1>1, <2>1 DEF ReaderInv, HandlerInv
<1>6. reader[r].pc = "missing" =>
        \E v \in {NotYet, Gone} : WasCurrent(reader[r].id, v, reader[r].started, 0)'
  BY <1>1, <1>2, <1>3 DEF ReaderInv, HandlerInv
<1>7. reader[r].pc = "answered" =>
        \E v \in Rows : /\ SongResponse(reader[r].song) = SongResponse(Row(v))
                        /\ WasCurrent(reader[r].id, v, reader[r].started, MaxStaleness)'
  <2>1. ASSUME reader[r].pc = "answered", NEW v,
               WasCurrent(reader[r].id, v, reader[r].started, MaxStaleness)
        PROVE  WasCurrent(reader[r].id, v, reader[r].started, MaxStaleness)'
    <3> DEFINE n == MaxStaleness
    <3>1. n \in Nat /\ n' = n  BY <1>3
    <3>2. WasCurrent(reader[r].id, v, reader[r].started, n)  BY <2>1
    <3> HIDE DEF n
    <3>3. WasCurrent(reader[r].id, v, reader[r].started, n)'  BY <1>2, <2>1, <3>1, <3>2
    <3>4. QED  BY <3>3 DEF n
  <2>2. QED  BY <1>1, <2>1 DEF ReaderInv, HandlerInv
<1>8. reader[r].pc = "not found" =>
        \E v \in {NotYet, Gone} :
           WasCurrent(reader[r].id, v, reader[r].started, Deadline)'
  BY <1>1, <1>2, <1>3 DEF ReaderInv, HandlerInv
<1>9. QED
  <2>1. reader[r].pc # "idle" => reader[r].started <= now'
    BY <1>1
  <2>2. QED
    BY <1>1, <1>3, <1>4, <1>5, <1>6, <1>7, <1>8, <2>1 DEF ReaderInv, HandlerInv

LEMMA Start == CacheInit => CacheInv
<1> SUFFICES ASSUME CacheInit PROVE CacheInv
  OBVIOUS
<1>1. Idle \in [pc : PCs, id : Ids \cup {NotYet}, started : Nat,
                song : [RowFields -> NotYet..Gone]]
  BY RowType, Numbers DEF Idle, PCs, NoSong
<1>2. CacheTypeOK
  BY <1>1, Numbers DEF CacheInit, CacheTypeOK
<1>3. \A r \in Readers : ReaderInv(r)
  BY DEF CacheInit, ReaderInv, HandlerInv, Idle, Waiting
<1>4. \A i \in DOMAIN cache : EntryInv(i)
  BY DEF CacheInit
<1>5. QED  BY <1>2, <1>3, <1>4 DEF CacheInv

-----------------------------------------------------------------------------
\* Time.
LEMMA TickStep == CacheInv /\ Tick => CacheInv'
<1> SUFFICES ASSUME CacheInv, Tick PROVE CacheInv'
  OBVIOUS
<1> USE DEF CacheInv
<1>1. now' = now + 1 /\ UNCHANGED <<songs, past, enabled, reader>> /\ now \in Nat
  BY DEF Tick, table, CacheTypeOK
<1>2. cache' = [i \in {j \in DOMAIN cache : now' < cache[j].expires} |-> cache[i]]
  BY DEF Tick
<1>3. /\ DOMAIN cache' \subseteq DOMAIN cache
      /\ \A i \in DOMAIN cache' : cache'[i] = cache[i] /\ now' < cache[i].expires
  BY <1>2
<1>4. CacheTypeOK'
  BY <1>1, <1>3 DEF CacheTypeOK
<1>5. ASSUME NEW i \in DOMAIN cache' PROVE EntryInv(i)'
  <2>1. EntryInv(i) /\ cache'[i] = cache[i] /\ now' < cache[i].expires
        /\ cache[i].expires \in Nat
    BY <1>3 DEF CacheTypeOK
  <2>2. QED  BY <1>1, <2>1, Numbers DEF EntryInv, WasCurrent
<1>6. ASSUME NEW r \in Readers PROVE ReaderInv(r)'
  <2>1. ReaderInv(r) /\ reader[r].started \in Nat  BY DEF CacheTypeOK
  <2>2. reader[r].pc \in Waiting => now' <= reader[r].started + Deadline
    BY <1>1, <2>1, Numbers DEF Tick, Punctual
  <2>3. \A i \in Ids : \A v : \A t, ago \in Nat :
           t <= now /\ WasCurrent(i, v, t, ago) => WasCurrent(i, v, t, ago)'
    BY <1>1 DEF WasCurrent
  <2>4. now' \in Nat /\ now <= now'  BY <1>1
  <2>5. QED  BY <1>1, <2>1, <2>2, <2>3, <2>4, Frame
<1>7. QED  BY <1>4, <1>5, <1>6

\* The table.
LEMMA ChangeStep ==
  ASSUME CacheInv, NEW j \in Ids, NEW w \in NotYet..Gone, Change(j, w)
  PROVE  CacheInv'
<1> USE DEF CacheInv
<1>0. CacheTypeOK /\ now \in Nat /\ UNCHANGED <<now, enabled, cache, reader>>
  BY DEF Change, CacheTypeOK
<1>1. CacheTypeOK'
  <2>1. [id |-> j, version |-> songs[j], until |-> now]
           \in [id : Ids, version : NotYet..Gone, until : Nat]
    BY DEF CacheTypeOK
  <2>2. QED  BY <1>0, <2>1 DEF Change, CacheTypeOK
<1>2. ASSUME NEW i \in DOMAIN cache' PROVE EntryInv(i)'
  <2>1. EntryInv(i) /\ i \in Ids /\ cache[i].expires \in Nat
    BY <1>0 DEF CacheTypeOK
  <2>2. PICK v \in Rows : /\ cache[i].song = ToCached(Row(v))
                          /\ WasCurrent(i, v, cache[i].expires, TTL + Deadline)
    BY <2>1 DEF EntryInv
  <2>3. TTL + Deadline \in Nat /\ cache[i].expires <= now + (TTL + Deadline)
    BY <1>0, <2>1, Numbers DEF EntryInv
  <2>4. WasCurrent(i, v, cache[i].expires, TTL + Deadline)'
    <3> DEFINE e == cache[i].expires
    <3>1. e' = e /\ e \in Nat  BY <1>0, <2>1
    <3> HIDE DEF e
    <3>2. WasCurrent(i, v, e, TTL + Deadline)'
      <4>1. WasCurrent(i, v, e, TTL + Deadline) /\ e <= now + (TTL + Deadline)
        BY <2>2, <2>3 DEF e
      <4>2. QED  BY <1>0, <2>1, <2>3, <3>1, <4>1, Kept
    <3>3. QED  BY <3>2 DEF e
  <2>5. QED  BY <1>0, <2>1, <2>2, <2>4 DEF EntryInv
<1>3. ASSUME NEW r \in Readers PROVE ReaderInv(r)'
  <2>1. \A i \in Ids : \A v : \A t, ago \in Nat :
           t <= now /\ WasCurrent(i, v, t, ago) => WasCurrent(i, v, t, ago)'
    <3> SUFFICES ASSUME NEW i \in Ids, NEW v, NEW t \in Nat, NEW ago \in Nat,
                        t <= now, WasCurrent(i, v, t, ago)
                 PROVE  WasCurrent(i, v, t, ago)'
      OBVIOUS
    <3>1. t <= now + ago  BY <1>0
    <3>2. QED  BY <1>0, <3>1, Kept
  <2>2. ReaderInv(r) /\ reader'[r] = reader[r] /\ enabled' = enabled /\ now' = now
    BY <1>0
  <2>3. reader[r].pc \in Waiting => now' <= reader[r].started + Deadline
    BY <2>2 DEF ReaderInv, HandlerInv
  <2>4. now' \in Nat /\ now <= now'  BY <1>0
  <2>5. QED  BY <1>0, <2>1, <2>2, <2>3, <2>4, Frame
<1>4. QED  BY <1>1, <1>2, <1>3

-----------------------------------------------------------------------------
(***************************************************************************)
(* The handlers.                                                           *)
(***************************************************************************)
HandlerType == [pc : PCs, id : Ids \cup {NotYet}, started : Nat,
                song : [RowFields -> NotYet..Gone]]

LEMMA StoreStep ==
  ASSUME CacheInv, NEW r \in Readers, reader[r].pc = "set",
         Store(reader[r].id, reader[r].song), UNCHANGED <<now, songs, past>>
  PROVE  /\ DOMAIN cache' \subseteq Ids
         /\ \A i \in DOMAIN cache' :
               /\ cache'[i].song \in [CachedFields -> Rows] /\ cache'[i].expires \in Nat
               /\ EntryInv(i)'
<1> DEFINE id == reader[r].id
<1> DEFINE started == reader[r].started
<1> USE DEF CacheInv
<1>1. /\ CacheTypeOK /\ now \in Nat /\ started \in Nat /\ id \in Ids
      /\ started <= now /\ now <= started + Deadline
  BY DEF CacheTypeOK, ReaderInv, HandlerInv, Waiting
<1>2. PICK v \in Rows : reader[r].song = Row(v) /\ WasCurrent(id, v, started, 0)
  BY DEF ReaderInv, HandlerInv
<1>3. /\ DOMAIN cache' = DOMAIN cache \cup {id}
      /\ cache'[id] = [song |-> ToCached(Row(v)), expires |-> now + TTL]
      /\ \A i \in DOMAIN cache : i # id => cache'[i] = cache[i]
  BY <1>2 DEF Store
<1>4. WasCurrent(id, v, now + TTL, TTL + Deadline)
  <2>1. now + TTL \in Int /\ TTL + Deadline \in Int /\ started \in Int /\ 0 \in Int
    BY <1>1, Numbers
  <2>2. (now + TTL) - (TTL + Deadline) <= started - 0  BY <1>1, Numbers
  <2> HIDE DEF id, started
  <2>3. QED  BY <1>1, <1>2, <2>1, <2>2, Older
<1>5. \A i, w, t, ago : WasCurrent(i, w, t, ago)' <=> WasCurrent(i, w, t, ago)
  BY DEF WasCurrent
<1>6. ASSUME NEW i \in DOMAIN cache'
      PROVE  /\ cache'[i].song \in [CachedFields -> Rows] /\ cache'[i].expires \in Nat
             /\ EntryInv(i)'
  <2>1. CASE i = id
    <3>1. cache'[i].song = ToCached(Row(v)) /\ cache'[i].expires = now + TTL
      BY <1>3, <2>1
    <3>2. ToCached(Row(v)) \in [CachedFields -> Rows]  BY CachedType
    <3>3. now + TTL \in Nat /\ now + TTL > now  BY <1>1, Numbers
    <3>4. WasCurrent(i, v, now + TTL, TTL + Deadline)'  BY <1>4, <1>5, <2>1
    <3>5. now' = now  OBVIOUS
    <3>6. QED  BY <3>1, <3>2, <3>3, <3>4, <3>5 DEF EntryInv
  <2>2. CASE i # id
    <3>1. i \in DOMAIN cache /\ cache'[i] = cache[i] /\ now' = now  BY <1>3, <2>2
    <3>2. EntryInv(i)  BY <3>1
    <3>3. cache[i].song \in [CachedFields -> Rows] /\ cache[i].expires \in Nat
      BY <3>1 DEF CacheTypeOK
    <3>4. QED  BY <1>5, <3>1, <3>2, <3>3 DEF EntryInv
  <2>3. QED  BY <2>1, <2>2
<1>7. DOMAIN cache' \subseteq Ids  BY <1>1, <1>3 DEF CacheTypeOK
<1>8. QED  BY <1>6, <1>7

LEMMA HandlerStep ==
  ASSUME CacheInv, NEW r \in Readers, NEW h \in HandlerType,
         reader' = [reader EXCEPT ![r] = h],
         UNCHANGED <<now, songs, past, enabled>>, HandlerInv(h),
         \/ cache' = cache
         \/ reader[r].pc = "set" /\ Store(reader[r].id, reader[r].song)
  PROVE  CacheInv'
<1> USE DEF CacheInv
<1>1. CacheTypeOK /\ now \in Nat  BY DEF CacheTypeOK
<1>2. \A i, v, t, ago : WasCurrent(i, v, t, ago)' <=> WasCurrent(i, v, t, ago)
  BY DEF WasCurrent
<1>3. /\ DOMAIN cache' \subseteq Ids
      /\ \A i \in DOMAIN cache' :
            /\ cache'[i].song \in [CachedFields -> Rows] /\ cache'[i].expires \in Nat
            /\ EntryInv(i)'
  <2>1. CASE cache' = cache
    BY <1>2, <2>1 DEF CacheTypeOK, EntryInv
  <2>2. CASE reader[r].pc = "set" /\ Store(reader[r].id, reader[r].song)
    BY <2>2, StoreStep
  <2>3. QED  BY <2>1, <2>2
<1>4. reader' \in [Readers -> HandlerType]
  BY DEF CacheTypeOK, HandlerType
<1>5. CacheTypeOK'
  BY <1>3, <1>4 DEF CacheTypeOK, HandlerType
<1>6. ASSUME NEW s \in Readers, s # r PROVE ReaderInv(s)'
  <2>1. ReaderInv(s) /\ reader'[s] = reader[s]  BY <1>6 DEF CacheTypeOK
  <2>2. reader[s].pc \in Waiting => now' <= reader[s].started + Deadline
    BY <2>1 DEF ReaderInv, HandlerInv
  <2>3. \A i \in Ids : \A v : \A t, ago \in Nat :
           t <= now /\ WasCurrent(i, v, t, ago) => WasCurrent(i, v, t, ago)'
    BY <1>2
  <2>4. now' \in Nat /\ now <= now'  BY <1>1
  <2>5. QED  BY <1>1, <2>1, <2>2, <2>3, <2>4, Frame
<1>7. ReaderInv(r)'
  <2>1. reader'[r] = h /\ Age' = Age /\ MaxStaleness' = MaxStaleness /\ now' = now
    BY DEF CacheTypeOK, Age, MaxStaleness
  <2>2. QED  BY <1>2, <2>1 DEF ReaderInv, HandlerInv
<1>8. QED  BY <1>3, <1>5, <1>6, <1>7

Moved(r, pc, song) == [reader[r] EXCEPT !.pc = pc, !.song = song]

LEMMA BecomeStep ==
  ASSUME CacheInv, NEW r \in Readers, NEW pc \in PCs,
         NEW song \in [RowFields -> NotYet..Gone], Become(r, pc, song),
         UNCHANGED <<now, songs, past, enabled>>,
         HandlerInv(Moved(r, pc, song)),
         \/ cache' = cache
         \/ reader[r].pc = "set" /\ Store(reader[r].id, reader[r].song)
  PROVE  CacheInv'
<1> DEFINE h == Moved(r, pc, song)
<1>1. h \in HandlerType  BY DEF Moved, CacheInv, CacheTypeOK, HandlerType
<1>2. reader' = [reader EXCEPT ![r] = h]  BY DEF Moved, Become, CacheInv, CacheTypeOK
<1>3. HandlerInv(h)  OBVIOUS
<1> HIDE DEF h
<1>4. QED  BY <1>1, <1>2, <1>3, HandlerStep

\* A handler that has moved on: its id and its start are the same.
LEMMA MovedFacts ==
  ASSUME CacheInv, NEW r \in Readers, NEW pc \in PCs,
         NEW song \in [RowFields -> NotYet..Gone], reader[r].pc \in Waiting
  PROVE  /\ Moved(r, pc, song).pc = pc /\ Moved(r, pc, song).song = song
         /\ Moved(r, pc, song).id = reader[r].id
         /\ Moved(r, pc, song).started = reader[r].started
         /\ reader[r].id \in Ids /\ reader[r].started \in Nat /\ now \in Nat
         /\ reader[r].started <= now /\ now <= reader[r].started + Deadline
  BY DEF Moved, CacheInv, CacheTypeOK, ReaderInv, HandlerInv, Waiting

LEMMA RequestStep ==
  ASSUME CacheInv, NEW r \in Readers, NEW i \in Ids, Request(r, i)
  PROVE  CacheInv'
<1> DEFINE h == [Idle EXCEPT !.pc = "get", !.id = i, !.started = now]
<1>1. h.pc = "get" /\ h.id = i /\ h.started = now  BY DEF Idle
<1>2. now \in Nat  BY DEF CacheInv, CacheTypeOK
<1>3. h \in HandlerType
  BY <1>2, RowType, Numbers DEF Idle, HandlerType, PCs, NoSong
<1>4. reader' = [reader EXCEPT ![r] = h] /\ UNCHANGED <<now, songs, past, enabled, cache>>
  BY DEF Request, table
<1>5. HandlerInv(h)  BY <1>1, <1>2, Numbers DEF HandlerInv
<1> HIDE DEF h
<1>6. QED  BY <1>3, <1>4, <1>5, HandlerStep

LEMMA GetStep ==
  ASSUME CacheInv, NEW r \in Readers, Get(r)
  PROVE  CacheInv'
<1>0. UNCHANGED <<now, songs, past, enabled, cache>> /\ reader[r].pc \in Waiting
  BY DEF Get, table, Waiting
<1>1. CASE Become(r, "select", NoSong)
  <2>1. NoSong \in [RowFields -> NotYet..Gone] /\ "select" \in PCs
    BY RowType, Numbers DEF NoSong, PCs
  <2>2. HandlerInv(Moved(r, "select", NoSong))
    <3> DEFINE h == Moved(r, "select", NoSong)
    <3>1. /\ h.pc = "select" /\ h.id \in Ids
          /\ h.started <= now /\ now <= h.started + Deadline
      BY <1>0, <2>1, MovedFacts
    <3> HIDE DEF h
    <3>2. HandlerInv(h)  BY <3>1 DEF HandlerInv
    <3>3. QED  BY <3>2 DEF h
  <2>3. QED  BY <1>0, <1>1, <2>1, <2>2, BecomeStep
<1>2. CASE /\ enabled /\ reader[r].id \in DOMAIN cache
           /\ Become(r, "found", FromCached(cache[reader[r].id].song))
  <2> DEFINE i == reader[r].id
  <2> DEFINE song == FromCached(cache[i].song)
  <2>1. EntryInv(i) /\ cache[i].expires \in Nat /\ CacheTypeOK
    BY <1>2 DEF CacheInv, CacheTypeOK
  <2>2. PICK v \in Rows : /\ cache[i].song = ToCached(Row(v))
                          /\ WasCurrent(i, v, cache[i].expires, TTL + Deadline)
    BY <2>1 DEF EntryInv
  <2>3. song \in [RowFields -> NotYet..Gone] /\ SongResponse(song) = SongResponse(Row(v))
    BY <2>2, CachedType
  <2>4. Become(r, "found", song) /\ "found" \in PCs  BY <1>2 DEF PCs
  <2> HIDE DEF song
  <2> DEFINE h == Moved(r, "found", song)
  <2>5. HandlerInv(h)
    <3>1. /\ h.pc = "found" /\ h.song = song /\ h.id = i
          /\ h.id \in Ids /\ h.started \in Nat /\ now \in Nat
          /\ h.started <= now /\ now <= h.started + Deadline
      BY <1>0, <2>3, <2>4, MovedFacts
    <3> HIDE DEF h
    <3>2. WasCurrent(h.id, v, h.started, Age)
      <4> DEFINE e == cache[i].expires
      <4>1. e \in Nat /\ now < e /\ WasCurrent(h.id, v, e, TTL + Deadline)
        BY <2>1, <2>2, <3>1 DEF EntryInv
      <4> HIDE DEF e, i
      <4>2. h.started - Age <= e - (TTL + Deadline)
        BY <1>2, <3>1, <4>1, Numbers DEF Age
      <4>3. QED  BY <2>1, <3>1, <4>1, <4>2, Numbers, Older
    <3>3. QED  BY <2>3, <3>1, <3>2 DEF HandlerInv, Waiting
  <2>6. QED  BY <1>0, <2>3, <2>4, <2>5, BecomeStep
<1>3. QED  BY <1>1, <1>2 DEF Get

LEMMA SelectStep ==
  ASSUME CacheInv, NEW r \in Readers, Select(r)
  PROVE  CacheInv'
<1> DEFINE i == reader[r].id
<1> DEFINE v == songs[i]
<1>0. /\ UNCHANGED <<now, songs, past, enabled, cache>> /\ reader[r].pc \in Waiting
      /\ CacheTypeOK /\ {"set", "missing", "failed"} \subseteq PCs
      /\ NoSong \in [RowFields -> NotYet..Gone]
  BY RowType, Numbers DEF Select, table, Waiting, CacheInv, PCs, NoSong
<1>1. i \in Ids /\ v \in NotYet..Gone
  BY <1>0, MovedFacts DEF CacheTypeOK
<1>2. \A t \in Nat : WasCurrent(i, v, t, 0)  BY DEF WasCurrent
<1>3. CASE v \in Rows /\ Become(r, "set", Row(v))
  <2> HIDE DEF v
  <2>1. Row(v) \in [RowFields -> NotYet..Gone]  BY <1>1, RowType
  <2> DEFINE h == Moved(r, "set", Row(v))
  <2>2. /\ h.pc = "set" /\ h.song = Row(v) /\ h.id = i /\ h.id \in Ids
        /\ h.started \in Nat /\ h.started <= now /\ now <= h.started + Deadline
    BY <1>0, <2>1, MovedFacts
  <2>3. HandlerInv(h)
    <3> HIDE DEF h, i
    <3>1. WasCurrent(h.id, v, h.started, 0)  BY <1>2, <2>2
    <3>2. QED  BY <1>3, <2>2, <3>1 DEF HandlerInv
  <2>4. QED  BY <1>0, <1>3, <2>1, <2>3, BecomeStep
<1>4. CASE v \notin Rows /\ Become(r, "missing", NoSong)
  <2> DEFINE h == Moved(r, "missing", NoSong)
  <2>1. /\ h.pc = "missing" /\ h.id = i /\ h.id \in Ids
        /\ h.started \in Nat /\ h.started <= now /\ now <= h.started + Deadline
    BY <1>0, MovedFacts
  <2>2. v \in {NotYet, Gone}
    <3> HIDE DEF v
    <3>1. QED  BY <1>1, <1>4, CacheAssumption DEF Rows, NotYet, Gone
  <2>3. HandlerInv(h)
    <3> HIDE DEF h, i, v
    <3>1. WasCurrent(h.id, v, h.started, 0)  BY <1>2, <2>1
    <3>2. QED  BY <2>1, <2>2, <3>1 DEF HandlerInv
  <2>4. QED  BY <1>0, <1>4, <2>3, BecomeStep
<1>5. CASE Become(r, "failed", NoSong)
  <2> DEFINE h == Moved(r, "failed", NoSong)
  <2>1. /\ h.pc = "failed" /\ h.id \in Ids
        /\ h.started <= now /\ now <= h.started + Deadline
    BY <1>0, MovedFacts
  <2>2. HandlerInv(h)
    <3> HIDE DEF h
    <3>1. QED  BY <2>1 DEF HandlerInv
  <2>3. QED  BY <1>0, <1>5, <2>2, BecomeStep
<1>6. QED  BY <1>3, <1>4, <1>5 DEF Select

LEMMA SetStep ==
  ASSUME CacheInv, NEW r \in Readers, Set(r)
  PROVE  CacheInv'
<1> DEFINE song == reader[r].song
<1>0. /\ UNCHANGED <<now, songs, past, enabled>> /\ reader[r].pc \in Waiting
      /\ CacheTypeOK /\ "found" \in PCs /\ reader[r].pc = "set"
      /\ Become(r, "found", song)
  BY DEF Set, table, Waiting, CacheInv, PCs
<1>1. cache' = cache \/ Store(reader[r].id, song)  BY DEF Set
<1>2. song \in [RowFields -> NotYet..Gone]  BY <1>0 DEF CacheTypeOK
<1>3. PICK v \in Rows : song = Row(v) /\ WasCurrent(reader[r].id, v, reader[r].started, 0)
  BY <1>0 DEF CacheInv, ReaderInv, HandlerInv
<1> DEFINE h == Moved(r, "found", song)
<1>4. /\ h.pc = "found" /\ h.song = song /\ h.id = reader[r].id /\ h.id \in Ids
      /\ h.started = reader[r].started /\ h.started \in Nat
      /\ h.started <= now /\ now <= h.started + Deadline
  BY <1>0, <1>2, MovedFacts
<1>5. HandlerInv(h)
  <2> HIDE DEF h
  <2>1. WasCurrent(h.id, v, h.started, Age)
    <3>1. h.started - Age <= h.started - 0  BY <1>4, Numbers
    <3>2. WasCurrent(h.id, v, h.started, 0)  BY <1>3, <1>4
    <3>3. QED  BY <1>0, <1>4, <3>1, <3>2, Numbers, Older
  <2>2. SongResponse(h.song) = SongResponse(Row(v))  BY <1>3, <1>4
  <2>3. QED  BY <1>4, <2>1, <2>2 DEF HandlerInv
<1>6. QED  BY <1>0, <1>1, <1>2, <1>5, BecomeStep

LEMMA AnswerStep ==
  ASSUME CacheInv, NEW r \in Readers, Answer(r)
  PROVE  CacheInv'
<1> DEFINE pc == IF reader[r].pc = "found" THEN "answered" ELSE "not found"
<1> DEFINE h == [reader[r] EXCEPT !.started = now, !.pc = pc]
<1>0. /\ UNCHANGED <<now, songs, past, enabled, cache>> /\ reader[r].pc \in Waiting
      /\ CacheTypeOK /\ ReaderInv(r) /\ reader[r].pc \in {"found", "missing"}
  BY DEF Answer, table, Waiting, CacheInv
<1>1. /\ reader[r].id \in Ids /\ reader[r].started \in Nat /\ now \in Nat
      /\ now <= reader[r].started + Deadline
  BY <1>0 DEF ReaderInv, HandlerInv, CacheTypeOK, Waiting
<1>2. reader' = [reader EXCEPT ![r] = h]  BY <1>0 DEF Answer, CacheTypeOK
<1>3. h \in HandlerType  BY <1>0 DEF HandlerType, CacheTypeOK, PCs
<1>4. /\ h.pc = pc /\ h.started = now /\ h.id = reader[r].id
      /\ h.song = reader[r].song
  BY <1>0 DEF CacheTypeOK
<1>5. \A v : \A ago \in Nat :
         WasCurrent(reader[r].id, v, reader[r].started, ago)
           => WasCurrent(h.id, v, h.started, ago + Deadline)
  <2> SUFFICES ASSUME NEW v, NEW ago \in Nat,
                      WasCurrent(reader[r].id, v, reader[r].started, ago)
               PROVE  WasCurrent(reader[r].id, v, now, ago + Deadline)
    BY <1>4
  <2>1. now - (ago + Deadline) <= reader[r].started - ago  BY <1>1, Numbers
  <2>2. now \in Int /\ ago + Deadline \in Int /\ ago \in Int /\ reader[r].started \in Int
    BY <1>1, Numbers
  <2>3. QED  BY <1>0, <1>1, <2>1, <2>2, Older
<1>6. HandlerInv(h)
  <2>0. h.id \in Ids /\ h.started <= now /\ now <= h.started + Deadline
    <3> HIDE DEF h, pc
    <3>1. QED  BY <1>1, <1>4, Numbers
  <2>1. CASE reader[r].pc = "found"
    <3>1. PICK v \in Rows : /\ SongResponse(reader[r].song) = SongResponse(Row(v))
                            /\ WasCurrent(reader[r].id, v, reader[r].started, Age)
      BY <1>0, <2>1 DEF ReaderInv, HandlerInv
    <3>2. h.pc = "answered"  BY <1>4, <2>1
    <3> HIDE DEF h
    <3>3. WasCurrent(h.id, v, h.started, MaxStaleness)  BY <1>5, <3>1, Numbers
    <3>4. SongResponse(h.song) = SongResponse(Row(v))  BY <1>4, <3>1
    <3>5. QED  BY <2>0, <3>2, <3>3, <3>4 DEF HandlerInv
  <2>2. CASE reader[r].pc = "missing"
    <3>1. PICK v \in {NotYet, Gone} : WasCurrent(reader[r].id, v, reader[r].started, 0)
      BY <1>0, <2>2 DEF ReaderInv, HandlerInv
    <3>2. h.pc = "not found"  BY <1>4, <2>2
    <3> HIDE DEF h
    <3>3. WasCurrent(h.id, v, h.started, Deadline)
      <4>1. WasCurrent(h.id, v, h.started, 0 + Deadline)  BY <1>5, <3>1
      <4>2. 0 + Deadline = Deadline  BY Numbers
      <4>3. QED  BY <4>1, <4>2
    <3>4. QED  BY <2>0, <3>1, <3>2, <3>3 DEF HandlerInv
  <2>3. QED  BY <1>0, <2>1, <2>2
<1> HIDE DEF h
<1>7. QED  BY <1>0, <1>2, <1>3, <1>6, HandlerStep

LEMMA DropStep ==
  ASSUME CacheInv, NEW r \in Readers, Drop(r)
  PROVE  CacheInv'
<1>1. Idle \in HandlerType
  BY RowType, Numbers DEF Idle, HandlerType, PCs, NoSong
<1>2. HandlerInv(Idle)  BY DEF HandlerInv, Idle, Waiting
<1>3. /\ reader' = [reader EXCEPT ![r] = Idle]
      /\ UNCHANGED <<now, songs, past, enabled>>
      /\ \/ cache' = cache
         \/ reader[r].pc = "set" /\ Store(reader[r].id, reader[r].song)
  BY DEF Drop, table
<1>4. QED  BY <1>1, <1>2, <1>3, HandlerStep

-----------------------------------------------------------------------------
LEMMA CacheStep == CacheInv /\ [CacheNext]_cacheVars => CacheInv'
<1> SUFFICES ASSUME CacheInv, [CacheNext]_cacheVars PROVE CacheInv'
  OBVIOUS
<1>1. CASE Tick  BY <1>1, TickStep
<1>2. CASE Read
  <2>1. PICK r \in Readers : \/ \E i \in Ids : Request(r, i)
                             \/ Get(r) \/ Select(r) \/ Set(r) \/ Answer(r) \/ Drop(r)
    BY <1>2 DEF Read
  <2>2. QED
    BY <2>1, RequestStep, GetStep, SelectStep, SetStep, AnswerStep, DropStep
<1>3. ASSUME NEW i \in Ids, AddSong(i) \/ UpdateSong(i) \/ DeleteSong(i)
      PROVE  CacheInv'
  <2>1. PICK w \in NotYet..Gone : Change(i, w)
    <3>1. songs[i] \in Rows /\ songs[i] < MaxVersion => songs[i] + 1 \in NotYet..Gone
      BY CacheAssumption DEF Rows, NotYet, Gone
    <3>2. 1 \in NotYet..Gone /\ Gone \in NotYet..Gone
      BY CacheAssumption DEF NotYet, Gone
    <3>3. QED  BY <1>3, <3>1, <3>2 DEF AddSong, UpdateSong, DeleteSong
  <2>2. QED  BY <2>1, ChangeStep
<1>4. CASE UNCHANGED cacheVars
  <2>1. UNCHANGED <<now, songs, past, enabled, cache, reader>>
    BY <1>4 DEF cacheVars, table
  <2>2. CacheTypeOK'  BY <2>1 DEF CacheInv, CacheTypeOK
  <2>3. /\ Age' = Age /\ MaxStaleness' = MaxStaleness
        /\ \A i, v, t, ago : WasCurrent(i, v, t, ago)' <=> WasCurrent(i, v, t, ago)
    BY <2>1 DEF Age, MaxStaleness, WasCurrent
  <2>4. \A i \in DOMAIN cache' : EntryInv(i)'  BY <2>1, <2>3 DEF CacheInv, EntryInv
  <2>5. \A r \in Readers : ReaderInv(r)'
    BY <2>1, <2>3 DEF CacheInv, ReaderInv, HandlerInv
  <2>6. QED  BY <2>2, <2>4, <2>5 DEF CacheInv
<1>5. QED  BY <1>1, <1>2, <1>3, <1>4 DEF CacheNext

LEMMA CacheInvImplies ==
  CacheInv => CacheTypeOK /\ StalenessIsBounded /\ MissingIsCurrent
  BY DEF CacheInv, ReaderInv, HandlerInv, StalenessIsBounded, MissingIsCurrent

LEMMA CacheInvariant == CacheSpec => []CacheInv
  BY Start, CacheStep, PTL DEF CacheSpec

\* The table, the entries of the cache and the handlers are of their types:
\* a cached song is one that was a row (song_service.rs 39-85).
THEOREM CacheTypeCorrect == CacheSpec => []CacheTypeOK
  BY CacheInvariant, CacheInvImplies, PTL

\* A song is never shown after it has been changed or deleted for longer than
\* one time to live and two deadlines, with as many readers, songs and updates
\* as there may be (song_service.rs 16-34, redis_cache.rs 41-55).
THEOREM Staleness == CacheSpec => []StalenessIsBounded
  BY CacheInvariant, CacheInvImplies, PTL

\* "No such song" is always the table's own answer, at most one deadline old
\* (song_service.rs 25-29).
THEOREM Missing == CacheSpec => []MissingIsCurrent
  BY CacheInvariant, CacheInvImplies, PTL
=============================================================================
