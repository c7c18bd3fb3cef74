------------------------------ MODULE AdminApi ------------------------------
(***************************************************************************)
(* The admin endpoints (backend/src/handlers/admin_handler.rs,             *)
(* services/admin_service.rs, repositories/song_repository.rs and          *)
(* fingerprint_repository.rs) at work on the table that SongCache reads.   *)
(*                                                                         *)
(* An ingest creates the song and then inserts its fingerprints, without a *)
(* transaction: it may fail, or be dropped by the time limit or its        *)
(* client, between or during the two.  An operator then sends it again.    *)
(* Refused requests (no or a wrong token, no title, too many fingerprints) *)
(* leave no trace and are not modelled.                                    *)
(***************************************************************************)
EXTENDS SongCache

CONSTANTS
    Admins,
    MaxTurns    \* bound: ingests an admin sends

ASSUME AdminAssumption == MaxTurns \in Nat

VARIABLES
    prints,     \* the songs that have their fingerprints
    job,        \* the ingest of every admin: [pc, turn, asked, song]
    promised,   \* history: songs whose fingerprints were reported inserted
    cleared,    \* history: songs that an answered DELETE has been for
    early       \* history: those whose last DELETE came before the INSERT

histories == <<promised, cleared, early>>
adminVars == <<prints, job, histories>>
vars == <<cacheVars, adminVars>>

Busy == {"create", "insert", "reply"}

Init ==
    /\ CacheInit
    /\ prints = {}
    /\ job = [a \in Admins |-> [pc |-> "idle", turn |-> 0, asked |-> FALSE, song |-> NotYet]]
    /\ promised = {} /\ cleared = {} /\ early = {}

-----------------------------------------------------------------------------
\* asked: the request has fingerprints.
Ingest(a) ==
    /\ job[a].pc \notin Busy /\ job[a].turn < MaxTurns
    /\ \E asked \in BOOLEAN :
          job' = [job EXCEPT ![a] = [pc |-> "create", turn |-> @.turn + 1,
                                     asked |-> asked, song |-> NotYet]]
    /\ UNCHANGED <<cacheVars, prints, histories>>

Turn(a, pc) == job' = [job EXCEPT ![a].pc = pc]

\* Mutant: an INSERT of no rows is sent to the database all the same.
CreateThenInsert(a) ==
    /\ job[a].pc = "create"
    /\ \E i \in Ids :
          /\ AddSong(i)
          /\ job' = [job EXCEPT ![a].song = i, ![a].pc = "insert"]
    /\ UNCHANGED <<prints, histories>>

\* SongRepository::create; without fingerprints bulk_insert has nothing to do.
Create(a) ==
    /\ job[a].pc = "create"
    /\ \E i \in Ids :
          /\ AddSong(i)
          /\ job' = [job EXCEPT ![a].song = i,
                                ![a].pc = IF job[a].asked THEN "insert" ELSE "reply"]
    /\ UNCHANGED <<prints, histories>>

\* Mutant: no foreign key.
InsertUnchecked(i) == prints' = prints \cup {i}

\* INSERT INTO fingerprints, all of them or none; the song must be there.
InsertRows(i) == songs[i] \in Rows /\ prints' = prints \cup {i}

\* Mutant: a failure is logged and swallowed, as for the audit log.
BulkInsertSwallowed(a) ==
    /\ job[a].pc = "insert"
    /\ InsertRows(job[a].song) \/ UNCHANGED prints
    /\ Turn(a, "reply")
    /\ UNCHANGED <<cacheVars, histories>>

\* Mutant: executed again when the reply is lost.
BulkInsertRetried(a) ==
    /\ job[a].pc = "insert"
    /\ InsertRows(job[a].song)
    /\ Turn(a, "reply") \/ UNCHANGED job
    /\ UNCHANGED <<cacheVars, histories>>

\* FingerprintRepository::bulk_insert
BulkInsert(a) ==
    /\ job[a].pc = "insert"
    /\ InsertRows(job[a].song)
    /\ Turn(a, "reply")
    /\ UNCHANGED <<cacheVars, histories>>

Answer200(a) ==
    /\ job[a].pc = "reply"
    /\ Turn(a, "answered")
    /\ promised' = IF job[a].asked THEN promised \cup {job[a].song} ELSE promised
    /\ UNCHANGED <<cacheVars, prints, cleared, early>>

(***************************************************************************)
(* The ingest ends without its answer: a statement fails (the foreign key, *)
(* when the song has been deleted), its reply is lost, or the handler is   *)
(* dropped, in which cases the statement may be executed all the same.     *)
(* Until then the ingest counts as under way.                              *)
(***************************************************************************)
End(a) ==
    /\ job[a].pc \in Busy
    /\ Turn(a, "ended")
    /\ \/ job[a].pc = "create" /\ (\E i \in Ids : AddSong(i)) /\ UNCHANGED prints
       \/ job[a].pc = "insert" /\ InsertRows(job[a].song) /\ UNCHANGED cacheVars
       \/ UNCHANGED <<cacheVars, prints>>
    /\ UNCHANGED histories

\* A DELETE finds nothing yet: fingerprints_deleted is 0.
BeforeInsert(i) ==
    i \notin prints /\ \E a \in Admins : job[a].pc = "insert" /\ job[a].song = i

\* DELETE /api/v1/admin/songs/{id}/fingerprints, for an id that has been given.
DeleteFingerprints(i) ==
    /\ songs[i] # NotYet
    /\ prints' = prints \ {i}
    /\ cleared' = cleared \cup {i}
    /\ early' = IF BeforeInsert(i) THEN early \cup {i} ELSE early \ {i}
    /\ UNCHANGED <<cacheVars, job, promised>>

\* An operator: fingerprints.song_id REFERENCES songs ON DELETE CASCADE
RemoveSong(i) ==
    /\ DeleteSong(i)
    /\ prints' = prints \ {i}
    /\ UNCHANGED <<job, histories>>

Next ==
    \/ (Tick \/ Read \/ \E i \in Ids : UpdateSong(i)) /\ UNCHANGED adminVars
    \/ \E a \in Admins : Ingest(a) \/ Create(a) \/ BulkInsert(a) \/ Answer200(a) \/ End(a)
    \/ \E i \in Ids : DeleteFingerprints(i) \/ RemoveSong(i)

Spec == Init /\ [][Next]_vars

-----------------------------------------------------------------------------
(***************************************************************************)
(* Properties.                                                             *)
(***************************************************************************)

\* Songs, jobs and the histories are what they are said to be; a song under
\* way to its fingerprints has been created (admin_service.rs 37-71).
TypeOK ==
    /\ CacheTypeOK
    /\ prints \subseteq Ids /\ promised \subseteq Ids
    /\ cleared \subseteq Ids /\ early \subseteq cleared
    /\ job \in [Admins -> [pc : Busy \cup {"idle", "answered", "ended"},
                           turn : 0..MaxTurns, asked : BOOLEAN, song : Ids \cup {NotYet}]]
    /\ \A a \in Admins : job[a].pc = "insert" => job[a].asked /\ job[a].song \in Ids

(***************************************************************************)
(* No fingerprint without its song, whichever of an ingest's two           *)
(* statements and of a deletion comes first (admin_service.rs 45-68).      *)
(***************************************************************************)
NoStrayFingerprints == \A i \in prints : songs[i] \in Rows

(***************************************************************************)
(* An ingest that was answered left the song with its fingerprints, until  *)
(* somebody deletes either, and a DELETE that came before the INSERT is no *)
(* excuse: what fails or is dropped half way is never reported as done     *)
(* (admin_service.rs 37-71, admin_handler.rs 45-80).                       *)
(***************************************************************************)
AnsweredIngestIsWhole ==
    \A i \in promised : songs[i] # Gone => songs[i] \in Rows /\ i \in prints \cup (cleared \ early)

(***************************************************************************)
(* After an answered DELETE a song has fingerprints again in one case only:*)
(* the DELETE came between an ingest's two statements and found none yet.  *)
(* The next DELETE ends that, and nothing brings back what was deleted     *)
(* (fingerprint_repository.rs 54-60, admin_service.rs 45-75).              *)
(***************************************************************************)
ClearedStaysClear == cleared \cap prints \subseteq early
=============================================================================
