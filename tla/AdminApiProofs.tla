--------------------------- MODULE AdminApiProofs ----------------------------
(***************************************************************************)
(* Theorems of AdminApi: however many admins ingest, are dropped and       *)
(* delete, the songs and their fingerprints stay consistent, and the cache *)
(* that is read meanwhile keeps what SongCacheProofs says of it.           *)
(***************************************************************************)
EXTENDS AdminApi, SongCacheProofs

-----------------------------------------------------------------------------
(***************************************************************************)
(* The cache: every step of the admin API is one of the cache's.           *)
(***************************************************************************)
LEMMA StepOfCache == Next => [CacheNext]_cacheVars
<1> SUFFICES ASSUME Next PROVE [CacheNext]_cacheVars
  OBVIOUS
<1>1. CASE (Tick \/ Read \/ \E i \in Ids : UpdateSong(i)) /\ UNCHANGED adminVars
  BY <1>1 DEF CacheNext
<1>2. ASSUME NEW a \in Admins,
             Ingest(a) \/ Create(a) \/ BulkInsert(a) \/ Answer200(a) \/ End(a)
      PROVE  [CacheNext]_cacheVars
  BY <1>2 DEF Ingest, Create, BulkInsert, Answer200, End, CacheNext
<1>3. ASSUME NEW i \in Ids, DeleteFingerprints(i) \/ RemoveSong(i)
      PROVE  [CacheNext]_cacheVars
  BY <1>3 DEF DeleteFingerprints, RemoveSong, CacheNext
<1>4. QED  BY <1>1, <1>2, <1>3 DEF Next

\* The endpoints leave the cache its own behaviour: what is proved of the cache
\* holds beside them.
THEOREM ImplementsCache == Spec => CacheSpec
<1>1. Init => CacheInit  BY DEF Init
<1>2. [Next]_vars => [CacheNext]_cacheVars  BY StepOfCache DEF vars
<1>3. QED  BY <1>1, <1>2, PTL DEF Spec, CacheSpec

\* Both bounds of the cache, in the presence of the admin endpoints.
THEOREM ReadsAreFresh == Spec => [](StalenessIsBounded /\ MissingIsCurrent)
  BY ImplementsCache, Staleness, Missing, PTL

-----------------------------------------------------------------------------
(***************************************************************************)
(* The inductive invariant.  A song is created by one ingest and belongs   *)
(* to it until that has ended; before its fingerprints are inserted nobody *)
(* has promised them, and whoever has deleted them came too early.         *)
(***************************************************************************)
Owning == {"insert", "reply"}

Deleted == cleared \ early

Owners ==
    /\ \A a \in Admins : job[a].pc \in Owning =>
          job[a].song \in Ids /\ songs[job[a].song] # NotYet
    /\ \A a, b \in Admins :
          a # b /\ job[a].pc \in Owning /\ job[b].pc \in Owning => job[a].song # job[b].song
    /\ \A a \in Admins : job[a].pc = "insert" =>
          job[a].song \notin prints \cup promised \cup Deleted
    /\ \A a \in Admins :
          job[a].pc = "reply" /\ job[a].asked /\ songs[job[a].song] # Gone =>
             job[a].song \in prints \cup Deleted

Sets ==
    /\ \A i \in prints : songs[i] \in Rows
    /\ \A i \in promised \cup cleared : songs[i] # NotYet
    /\ \A i \in promised : songs[i] # Gone => i \in prints \cup Deleted
    /\ Deleted \cap prints = {}

AdminInv == TypeOK /\ Owners /\ Sets

LEMMA AdminInit == Init => AdminInv
<1> SUFFICES ASSUME Init PROVE AdminInv
  OBVIOUS
<1>1. CacheTypeOK  BY Start DEF Init, CacheInv
<1>2. TypeOK  BY <1>1, AdminAssumption DEF Init, TypeOK, Busy
<1>3. Owners /\ Sets  BY DEF Init, Owners, Sets, Owning, Deleted
<1>4. QED  BY <1>2, <1>3 DEF AdminInv

JobType == [pc : Busy \cup {"idle", "answered", "ended"},
            turn : 0..MaxTurns, asked : BOOLEAN, song : Ids \cup {NotYet}]

LEMMA RowFacts ==
  /\ NotYet \notin Rows /\ Gone \notin Rows /\ NotYet # Gone /\ 1 \in Rows
  /\ \A v \in Rows : v < MaxVersion => v + 1 \in Rows
  /\ \A v \in NotYet..Gone : v # NotYet /\ v # Gone => v \in Rows
  BY CacheAssumption DEF NotYet, Gone, Rows

\* A row of which there is a version does not become NotYet again.
LEMMA TableStep ==
  ASSUME CacheTypeOK, NEW j \in Ids, AddSong(j) \/ UpdateSong(j) \/ DeleteSong(j)
  PROVE  /\ \A i \in Ids : i # j => songs'[i] = songs[i]
         /\ AddSong(j) => songs[j] = NotYet /\ songs'[j] \in Rows
         /\ UpdateSong(j) => songs[j] \in Rows /\ songs'[j] \in Rows
         /\ DeleteSong(j) => songs[j] \in Rows /\ songs'[j] = Gone
  BY RowFacts DEF CacheTypeOK, AddSong, UpdateSong, DeleteSong, Change

LEMMA AdminStep ==
  ASSUME AdminInv, CacheTypeOK', [Next]_vars
  PROVE  AdminInv'
<1> USE DEF AdminInv, Deleted
<1>0. CacheTypeOK /\ job \in [Admins -> JobType]  BY DEF TypeOK, JobType
<1>1. CASE /\ Tick \/ Read \/ \E i \in Ids : UpdateSong(i)
           /\ UNCHANGED adminVars
  <2>1. UNCHANGED <<prints, job, promised, cleared, early>>  BY <1>1 DEF adminVars, histories
  <2>2. \/ UNCHANGED songs
        \/ \E j \in Ids : UpdateSong(j)
    BY <1>1 DEF Tick, Read, Request, Get, Select, Set, Answer, Drop, table
  <2>3. TypeOK'  BY <2>1 DEF TypeOK
  <2>4. CASE UNCHANGED songs  BY <2>1, <2>3, <2>4 DEF Owners, Sets
  <2>5. ASSUME NEW j \in Ids, UpdateSong(j) PROVE AdminInv'
    <3>1. \A i \in Ids : \/ songs'[i] = songs[i]
                         \/ songs[i] \in Rows /\ songs'[i] \in Rows
      BY <1>0, <2>5, TableStep
    <3>2. Owners'
      <4>1. \A k \in Ids : songs[k] # NotYet =>
               songs'[k] # NotYet /\ (songs'[k] # Gone => songs[k] # Gone)
        BY <3>1, RowFacts
      <4>2. QED  BY <2>1, <4>1 DEF Owners, Owning
    <3>3. Sets'  BY <2>1, <3>1, RowFacts DEF Sets, TypeOK
    <3>4. QED  BY <2>3, <3>2, <3>3
  <2>6. QED  BY <2>2, <2>4, <2>5
<1>2. ASSUME NEW a \in Admins, Ingest(a) PROVE AdminInv'
  <2>1. UNCHANGED <<songs, prints, promised, cleared, early>>
    BY <1>2 DEF Ingest, cacheVars, table, histories
  <2>2. PICK asked \in BOOLEAN :
          job' = [job EXCEPT ![a] = [pc |-> "create", turn |-> @.turn + 1,
                                     asked |-> asked, song |-> NotYet]]
    BY <1>2 DEF Ingest
  <2>3. job[a].turn + 1 \in 0..MaxTurns  BY <1>0, <1>2, AdminAssumption DEF Ingest, JobType
  <2>4. job' \in [Admins -> JobType]  BY <1>0, <2>2, <2>3 DEF JobType, Busy
  <2>5. /\ job'[a].pc = "create"
        /\ \A b \in Admins : b # a => job'[b] = job[b]
    BY <1>0, <2>2
  <2>6. TypeOK'  BY <2>1, <2>4, <2>5 DEF TypeOK, JobType
  <2>7. Owners'  BY <2>1, <2>5 DEF Owners, Owning
  <2>8. Sets'  BY <2>1 DEF Sets
  <2>9. QED  BY <2>6, <2>7, <2>8
<1>3. ASSUME NEW a \in Admins, Create(a) PROVE AdminInv'
  <2>1. PICK i \in Ids : /\ AddSong(i)
                         /\ job' = [job EXCEPT ![a].song = i,
                               ![a].pc = IF job[a].asked THEN "insert" ELSE "reply"]
    BY <1>3 DEF Create
  <2>2. UNCHANGED <<prints, promised, cleared, early>> /\ job[a].pc = "create"
    BY <1>3 DEF Create, histories
  <2>3. /\ \A k \in Ids : k # i => songs'[k] = songs[k]
        /\ songs[i] = NotYet /\ songs'[i] \in Rows
    BY <1>0, <2>1, TableStep
  <2>4. /\ job' \in [Admins -> JobType]
        /\ job'[a].song = i /\ job'[a].asked = job[a].asked
        /\ job'[a].pc = IF job[a].asked THEN "insert" ELSE "reply"
        /\ \A b \in Admins : b # a => job'[b] = job[b]
    BY <1>0, <2>1 DEF JobType, Busy
  <2>5. i \notin prints \cup promised \cup cleared
    BY <2>3, RowFacts DEF Sets, TypeOK
  <2>6. \A b \in Admins : job[b].pc \in Owning => job[b].song # i
    BY <2>3 DEF Owners
  <2>7. TypeOK'
    BY <2>2, <2>4 DEF TypeOK, JobType
  <2>8. Owners'
    BY <2>2, <2>3, <2>4, <2>5, <2>6, RowFacts DEF Owners, Owning
  <2>9. Sets'  BY <2>2, <2>3, <2>5 DEF Sets, TypeOK
  <2>10. QED  BY <2>7, <2>8, <2>9
<1>4. ASSUME NEW a \in Admins, BulkInsert(a) PROVE AdminInv'
  <2>1. /\ job[a].pc = "insert" /\ songs[job[a].song] \in Rows
        /\ prints' = prints \cup {job[a].song}
        /\ UNCHANGED <<songs, promised, cleared, early>>
        /\ job' = [job EXCEPT ![a].pc = "reply"]
    BY <1>4 DEF BulkInsert, InsertRows, Turn, cacheVars, table, histories
  <2>2. /\ job' \in [Admins -> JobType]
        /\ job'[a].song = job[a].song /\ job'[a].pc = "reply"
        /\ \A b \in Admins : b # a => job'[b] = job[b]
    BY <1>0, <2>1 DEF JobType, Busy
  <2>3. job[a].song \in Ids /\ job[a].song \notin Deleted
    BY <2>1 DEF Owners, Owning
  <2>4. TypeOK'  BY <2>1, <2>2, <2>3 DEF TypeOK, JobType
  <2>5. Owners'  BY <2>1, <2>2, <2>3 DEF Owners, Owning
  <2>6. Sets'  BY <2>1, <2>3 DEF Sets
  <2>7. QED  BY <2>4, <2>5, <2>6
<1>5. ASSUME NEW a \in Admins, Answer200(a) PROVE AdminInv'
  <2>1. /\ job[a].pc = "reply"
        /\ UNCHANGED <<songs, prints, cleared, early>>
        /\ job' = [job EXCEPT ![a].pc = "answered"]
        /\ promised' = IF job[a].asked THEN promised \cup {job[a].song} ELSE promised
    BY <1>5 DEF Answer200, Turn, cacheVars, table
  <2>2. /\ job' \in [Admins -> JobType]
        /\ job'[a].pc = "answered"
        /\ \A b \in Admins : b # a => job'[b] = job[b]
    BY <1>0, <2>1 DEF JobType, Busy
  <2>3. /\ job[a].song \in Ids /\ songs[job[a].song] # NotYet
        /\ job[a].asked /\ songs[job[a].song] # Gone => job[a].song \in prints \cup Deleted
        /\ \A b \in Admins : b # a /\ job[b].pc = "insert" => job[b].song # job[a].song
    BY <2>1 DEF Owners, Owning
  <2>4. TypeOK'  BY <2>1, <2>2, <2>3 DEF TypeOK, JobType
  <2>5. Owners'  BY <2>1, <2>2, <2>3 DEF Owners, Owning
  <2>6. Sets'  BY <2>1, <2>3 DEF Sets
  <2>7. QED  BY <2>4, <2>5, <2>6
<1>6. ASSUME NEW a \in Admins, End(a) PROVE AdminInv'
  <2>1. job[a].pc \in Busy /\ job' = [job EXCEPT ![a].pc = "ended"]
        /\ UNCHANGED <<promised, cleared, early>>
    BY <1>6 DEF End, Turn, histories
  <2>2. /\ job' \in [Admins -> JobType]
        /\ job'[a].pc = "ended"
        /\ \A b \in Admins : b # a => job'[b] = job[b]
    BY <1>0, <2>1 DEF JobType, Busy
  <2>3. CASE job[a].pc = "create" /\ (\E i \in Ids : AddSong(i)) /\ UNCHANGED prints
    <3>1. PICK i \in Ids : AddSong(i)  BY <2>3
    <3>2. /\ \A k \in Ids : k # i => songs'[k] = songs[k]
          /\ songs[i] = NotYet /\ songs'[i] \in Rows
      BY <1>0, <3>1, TableStep
    <3>3. i \notin prints \cup promised \cup cleared
      BY <3>2, RowFacts DEF Sets, TypeOK
    <3>4. TypeOK'  BY <2>1, <2>2, <2>3 DEF TypeOK, JobType
    <3>5. Owners'
      BY <2>1, <2>2, <2>3, <3>2, <3>3, RowFacts DEF Owners, Owning
    <3>6. Sets'  BY <2>1, <2>3, <3>2, <3>3 DEF Sets, TypeOK
    <3>7. QED  BY <3>4, <3>5, <3>6
  <2>4. CASE job[a].pc = "insert" /\ InsertRows(job[a].song) /\ UNCHANGED cacheVars
    <3>1. /\ songs[job[a].song] \in Rows /\ prints' = prints \cup {job[a].song}
          /\ songs' = songs
      BY <2>4 DEF InsertRows, cacheVars, table
    <3>2. /\ job[a].song \in Ids /\ job[a].song \notin Deleted
          /\ \A b \in Admins : b # a /\ job[b].pc \in Owning => job[b].song # job[a].song
      BY <2>4 DEF Owners, Owning
    <3>3. TypeOK'  BY <2>1, <2>2, <3>1, <3>2 DEF TypeOK, JobType
    <3>4. Owners'  BY <2>1, <2>2, <3>1, <3>2 DEF Owners, Owning
    <3>5. Sets'  BY <2>1, <3>1, <3>2 DEF Sets
    <3>6. QED  BY <3>3, <3>4, <3>5
  <2>5. CASE UNCHANGED <<cacheVars, prints>>
    <3>1. songs' = songs /\ prints' = prints  BY <2>5 DEF cacheVars, table
    <3>2. TypeOK'  BY <2>1, <2>2, <3>1 DEF TypeOK, JobType
    <3>3. Owners'  BY <2>1, <2>2, <3>1 DEF Owners, Owning
    <3>4. Sets'  BY <2>1, <3>1 DEF Sets
    <3>5. QED  BY <3>2, <3>3, <3>4
  <2>6. QED  BY <1>6, <2>3, <2>4, <2>5 DEF End
<1>7. ASSUME NEW i \in Ids, DeleteFingerprints(i) PROVE AdminInv'
  <2>1. /\ prints' = prints \ {i} /\ UNCHANGED <<songs, job, promised>>
        /\ songs[i] # NotYet /\ cleared' = cleared \cup {i}
        /\ early' = IF BeforeInsert(i) THEN early \cup {i} ELSE early \ {i}
    BY <1>7 DEF DeleteFingerprints, cacheVars, table
  <2>2. TypeOK'  BY <2>1 DEF TypeOK
  <2>3. CASE BeforeInsert(i)
    <3>1. PICK a \in Admins : i \notin prints /\ job[a].pc = "insert" /\ job[a].song = i
      BY <2>3 DEF BeforeInsert
    <3>2. i \notin promised \cup Deleted
          /\ \A b \in Admins : job[b].pc = "reply" => job[b].song # i
      BY <3>1 DEF Owners, Owning
    <3>3. prints' = prints /\ Deleted' = Deleted  BY <2>1, <2>3, <3>1, <3>2
    <3>4. Owners'  BY <2>1, <3>3 DEF Owners
    <3>5. Sets'  BY <2>1, <3>3 DEF Sets
    <3>6. QED  BY <2>2, <3>4, <3>5
  <2>4. CASE ~ BeforeInsert(i)
    <3>1. Deleted' = Deleted \cup {i}  BY <2>1, <2>4
    <3>2. \A b \in Admins : job[b].pc = "insert" => job[b].song # i \/ i \in prints
      BY <2>4 DEF BeforeInsert
    <3>3. \A b \in Admins : job[b].pc = "insert" => job[b].song # i
      BY <3>2 DEF Owners
    <3>4. Owners'  BY <2>1, <3>1, <3>3 DEF Owners
    <3>5. Sets'  BY <2>1, <3>1 DEF Sets
    <3>6. QED  BY <2>2, <3>4, <3>5
  <2>5. QED  BY <2>3, <2>4
<1>8. ASSUME NEW i \in Ids, RemoveSong(i) PROVE AdminInv'
  <2>1. prints' = prints \ {i} /\ UNCHANGED <<job, promised, cleared, early>> /\ DeleteSong(i)
    BY <1>8 DEF RemoveSong, histories
  <2>2. /\ \A k \in Ids : k # i => songs'[k] = songs[k]
        /\ songs[i] \in Rows /\ songs'[i] = Gone
    BY <1>0, <2>1, TableStep
  <2>3. TypeOK'  BY <2>1 DEF TypeOK
  <2>4. Owners'
    <3>1. \A k \in Ids :
             /\ songs[k] # NotYet => songs'[k] # NotYet
             /\ songs'[k] # Gone => songs[k] # Gone /\ k # i
      BY <2>2, RowFacts
    <3>2. QED  BY <2>1, <3>1 DEF Owners, Owning
  <2>5. Sets'  BY <2>1, <2>2, RowFacts DEF Sets, TypeOK
  <2>6. QED  BY <2>3, <2>4, <2>5
<1>9. CASE UNCHANGED vars
  <2>1. UNCHANGED <<songs, prints, job, promised, cleared, early>>
    BY <1>9 DEF vars, cacheVars, adminVars, table, histories
  <2>2. QED  BY <2>1 DEF TypeOK, Owners, Sets
<1>10. QED
  BY <1>1, <1>2, <1>3, <1>4, <1>5, <1>6, <1>7, <1>8, <1>9 DEF Next

LEMMA AdminInvariant == Spec => []AdminInv
<1>1. CacheSpec => []CacheTypeOK  BY CacheTypeCorrect
<1>2. AdminInv /\ CacheTypeOK' /\ [Next]_vars => AdminInv'  BY AdminStep
<1>3. QED  BY AdminInit, ImplementsCache, <1>1, <1>2, PTL DEF Spec

LEMMA AdminInvImplies ==
  AdminInv => TypeOK /\ NoStrayFingerprints /\ AnsweredIngestIsWhole /\ ClearedStaysClear
<1> SUFFICES ASSUME AdminInv
             PROVE  TypeOK /\ NoStrayFingerprints /\ AnsweredIngestIsWhole
                    /\ ClearedStaysClear
  OBVIOUS
<1> USE DEF AdminInv
<1>1. NoStrayFingerprints /\ ClearedStaysClear
  BY DEF Sets, Deleted, NoStrayFingerprints, ClearedStaysClear
<1>2. \A i \in promised : songs[i] \in NotYet..Gone
  BY DEF TypeOK, CacheTypeOK
<1>3. AnsweredIngestIsWhole  BY <1>2, RowFacts DEF Sets, Deleted, AnsweredIngestIsWhole
<1>4. QED  BY <1>1, <1>3

\* Type correctness of the table, the cache, the ingests and the histories,
\* for any number of admins, readers and songs (admin_service.rs 37-71).
THEOREM TypeCorrect == Spec => []TypeOK
  BY AdminInvariant, AdminInvImplies, PTL

\* There is no fingerprint without its song (admin_service.rs 45-68).
THEOREM NoStray == Spec => []NoStrayFingerprints
  BY AdminInvariant, AdminInvImplies, PTL

\* What was answered as ingested is whole until somebody deletes it, a DELETE
\* that came before the INSERT aside (admin_handler.rs 45-80).
THEOREM AnswersHold == Spec => []AnsweredIngestIsWhole
  BY AdminInvariant, AdminInvImplies, PTL

\* Fingerprints that a DELETE has removed do not come back, whatever is under
\* way, fails or is dropped meanwhile; only one that came between an ingest's two
\* statements is undone by the second (admin_service.rs 45-75).
THEOREM StaysClear == Spec => []ClearedStaysClear
  BY AdminInvariant, AdminInvImplies, PTL
=============================================================================
