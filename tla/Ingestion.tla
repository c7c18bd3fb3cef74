------------------------------ MODULE Ingestion -----------------------------
(***************************************************************************)
(* The ingestion CLI (processor/src/music_fingerprint/ingestion.py) against*)
(* PostgreSQL: runs of `ingest` and of `backfill-artwork`, each a process  *)
(* with a connection of its own, working through a directory of source     *)
(* files one after the other.  Several runs may overlap in time and in     *)
(* files; a rerun after a failure is simply a later run.                   *)
(*                                                                         *)
(* A run can crash, lose its connection (with a COMMIT under way or not),  *)
(* have a statement fail or a disk write fail.  The server keeps the       *)
(* transaction of a vanished client, with its locks, until it notices.     *)
(*                                                                         *)
(* The tables are those of module Catalog.  A transaction is invisible     *)
(* until it commits, except that its ledger row keeps other transactions   *)
(* from inserting the same sha256 (the unique index makes them wait).      *)
(***************************************************************************)
EXTENDS Naturals, FiniteSets

CONSTANTS
    Sources,        \* audio files, by the SHA-256 of their bytes
    NoFile,         \* none of them
    Versions,       \* fingerprint algorithm versions
    Runs,           \* executions of the CLI
    Legacy,         \* sources ingested before artwork was extracted
    LegacyId,       \* their song ids
    FirstId         \* the next value of songs_id_seq

NoSong == 0
SongIds == Nat \ {NoSong}

ASSUME IngestionAssumption ==
    /\ NoFile \notin Sources
    /\ Legacy \subseteq Sources
    /\ FirstId \in SongIds
    /\ LegacyId \in [Legacy -> SongIds]
    /\ \A c \in Legacy : LegacyId[c] < FirstId
    /\ \A c, d \in Legacy : LegacyId[c] = LegacyId[d] => c = d

VARIABLES
    songs,      \* [id, source, art]: art is "artwork_url is set"
    prints,     \* [song, version]: the song's whole fingerprint set
    ledger,     \* [source, song, version]: ingested_sources
    nextId,     \* songs_id_seq; a rolled back transaction does not give back
    files,      \* the artwork directory: "absent", "partial" or "whole"
    mode,       \* which command a run executes
    version,    \* the algorithm version of the package a run executes
    conn,       \* a run's connection: "open" or "lost"
    pc,         \* where a run is
    todo,       \* files a run has yet to reach
    job,        \* [file, art, song]: the file at hand, and what is known of it
    tx,         \* a run's transaction as the server sees it
    status,     \* what a run reported of each file
    dropped     \* history: songs whose fingerprints an admin deleted

tables == <<songs, prints, ledger>>
run == <<mode, version, conn, pc, todo, job, status>>
vars == <<tables, nextId, files, run, tx, dropped>>

\* The tables as the abstract specification sees them.
Abstract == INSTANCE Catalog

-----------------------------------------------------------------------------
Modes == {"ingest", "backfill"}

\* The statements a transaction has executed; "commit" once COMMIT is sent.
Stages == {"none", "song", "prints", "ledger", "commit"}

Locations == {"idle", "next", "extract", "artwork", "writing", "insert", "txn",
              "ack", "update", "finished", "dead"}

IngestStatuses == {"ingested", "skipped_duplicate", "failed"}
BackfillStatuses == {"updated", "no_artwork", "already_has_artwork",
                     "not_previously_ingested"}

\* The transaction of run r, if it has one, holds the unique key of source c.
Holds(r, c) == tx[r].stage \in {"ledger", "commit"} /\ tx[r].source = c

NoTx == [stage |-> "none", source |-> NoFile, id |-> NoSong, art |-> FALSE]
NoJob == [file |-> NoFile, art |-> FALSE, song |-> NoSong]

IsIngested(c) == \E l \in ledger : l.source = c

Init ==
    /\ songs = {[id |-> LegacyId[c], source |-> c, art |-> FALSE] : c \in Legacy}
    /\ \E v \in Versions :
        /\ prints = {[song |-> LegacyId[c], version |-> v] : c \in Legacy}
        /\ ledger = {[source |-> c, song |-> LegacyId[c], version |-> v] : c \in Legacy}
    /\ nextId = FirstId
    /\ files = [c \in Sources |-> "absent"]
    /\ mode \in [Runs -> Modes]
    /\ version \in [Runs -> Versions]
    /\ conn = [r \in Runs |-> "open"]
    /\ pc = [r \in Runs |-> "idle"]
    /\ todo = [r \in Runs |-> {}]
    /\ job = [r \in Runs |-> NoJob]
    /\ tx = [r \in Runs |-> NoTx]
    /\ status = [r \in Runs |-> [c \in Sources |-> "none"]]
    /\ dropped = {}

Goto(r, from, to) ==
    /\ pc[r] = from
    /\ pc' = [pc EXCEPT ![r] = to]

\* Close the file at hand with a status and turn to the next one.
Report(r, c, s) ==
    /\ status' = [status EXCEPT ![r][c] = s]
    /\ pc' = [pc EXCEPT ![r] = "next"]

\* The command walks a directory that holds these files.
Start(r, dir) ==
    /\ Goto(r, "idle", "next")
    /\ todo' = [todo EXCEPT ![r] = dir]
    /\ UNCHANGED <<tables, nextId, files, mode, version, conn, job, tx, status, dropped>>

FinishRun(r) ==
    /\ todo[r] = {}
    /\ Goto(r, "next", "finished")
    /\ UNCHANGED <<tables, nextId, files, mode, version, conn, todo, job, tx, status, dropped>>

\* Take file c up; `song` is the row a backfill found for it.
TakeUp(r, c, song) ==
    /\ todo' = [todo EXCEPT ![r] = @ \ {c}]
    /\ job' = [job EXCEPT ![r] = [file |-> c, art |-> FALSE, song |-> song]]

-----------------------------------------------------------------------------
(***************************************************************************)
(* ingest_file                                                             *)
(***************************************************************************)

\* already_ingested: the ledger is asked for the content hash alone.
Check(r, c) ==
    /\ mode[r] = "ingest" /\ pc[r] = "next" /\ c \in todo[r]
    /\ TakeUp(r, c, NoSong)
    /\ IF conn[r] = "open" /\ ~IsIngested(c)
       THEN Goto(r, "next", "extract") /\ UNCHANGED status
       ELSE Report(r, c, IF conn[r] = "open" THEN "skipped_duplicate" ELSE "failed")
    /\ UNCHANGED <<tables, nextId, files, mode, version, conn, tx, dropped>>

\* extract_from_file and extract_metadata
Extract(r) ==
    /\ Goto(r, "extract", "artwork")
    /\ UNCHANGED <<tables, nextId, files, mode, version, conn, todo, job, tx, status, dropped>>

\* What follows _save_artwork in either command.
AfterArtwork(r) == IF mode[r] = "ingest" THEN "insert" ELSE "update"

\* Mutant: the URL is composed whether or not there is a picture.
SkipArtworkButNameIt(r) ==
    /\ Goto(r, "artwork", AfterArtwork(r))
    /\ job' = [job EXCEPT ![r].art = TRUE]
    /\ UNCHANGED <<tables, nextId, files, mode, version, conn, todo, tx, status, dropped>>

\* The file has no picture, or none that extract_artwork_bytes can read.
SkipArtwork(r) ==
    /\ pc[r] = "artwork"
    /\ IF mode[r] = "ingest"
       THEN Goto(r, "artwork", "insert") /\ UNCHANGED status
       ELSE Report(r, job[r].file, "no_artwork")
    /\ UNCHANGED <<tables, nextId, files, mode, version, conn, todo, job, tx, dropped>>

\* write_bytes truncates the file first ...
OpenArtwork(r) ==
    /\ Goto(r, "artwork", "writing")
    /\ files' = [files EXCEPT ![job[r].file] = "partial"]
    /\ UNCHANGED <<tables, nextId, mode, version, conn, todo, job, tx, status, dropped>>

\* ... and then fills it.
WriteArtwork(r) ==
    /\ Goto(r, "writing", AfterArtwork(r))
    /\ files' = [files EXCEPT ![job[r].file] = "whole"]
    /\ job' = [job EXCEPT ![r].art = TRUE]
    /\ UNCHANGED <<tables, nextId, mode, version, conn, todo, tx, status, dropped>>

\* Mutant: no `with transaction()`, the row is there as soon as it is inserted.
InsertSongAutocommit(r) ==
    /\ conn[r] = "open"
    /\ Goto(r, "insert", "txn")
    /\ tx' = [tx EXCEPT ![r] = [stage |-> "song", source |-> job[r].file,
                                id |-> nextId, art |-> job[r].art]]
    /\ songs' = songs \cup {[id |-> nextId, source |-> job[r].file, art |-> job[r].art]}
    /\ nextId' = nextId + 1
    /\ UNCHANGED <<prints, ledger, files, mode, version, conn, todo, job, status, dropped>>

\* The first statement opens the transaction; RETURNING gives the id.
InsertSong(r) ==
    /\ conn[r] = "open"
    /\ Goto(r, "insert", "txn")
    /\ tx' = [tx EXCEPT ![r] = [stage |-> "song", source |-> job[r].file,
                                id |-> nextId, art |-> job[r].art]]
    /\ nextId' = nextId + 1
    /\ UNCHANGED <<tables, files, mode, version, conn, todo, job, status, dropped>>

CopyFingerprints(r) ==
    /\ pc[r] = "txn" /\ tx[r].stage = "song"
    /\ tx' = [tx EXCEPT ![r].stage = "prints"]
    /\ UNCHANGED <<tables, nextId, files, run, dropped>>

\* Mutant: sha256 is not UNIQUE.
RecordSourceUnchecked(r) ==
    /\ pc[r] = "txn" /\ tx[r].stage = "prints"
    /\ tx' = [tx EXCEPT ![r].stage = "ledger"]
    /\ UNCHANGED <<tables, nextId, files, run, dropped>>

\* INSERT INTO ingested_sources waits while another transaction holds the key.
RecordSource(r) ==
    /\ pc[r] = "txn" /\ tx[r].stage = "prints"
    /\ ~IsIngested(tx[r].source)
    /\ \A q \in Runs : ~Holds(q, tx[r].source)
    /\ tx' = [tx EXCEPT ![r].stage = "ledger"]
    /\ UNCHANGED <<tables, nextId, files, run, dropped>>

\* ... and violates the unique constraint once the key is committed.
RejectSource(r) ==
    /\ pc[r] = "txn" /\ tx[r].stage = "prints"
    /\ IsIngested(tx[r].source)
    /\ tx' = [tx EXCEPT ![r] = NoTx]
    /\ Report(r, job[r].file, "failed")
    /\ UNCHANGED <<tables, nextId, files, mode, version, conn, todo, job, dropped>>

\* Mutant: "ingested" is reported without waiting for the COMMIT.
SendCommitAndReport(r) ==
    /\ pc[r] = "txn" /\ tx[r].stage = "ledger"
    /\ tx' = [tx EXCEPT ![r].stage = "commit"]
    /\ Report(r, job[r].file, "ingested")
    /\ UNCHANGED <<tables, nextId, files, mode, version, conn, todo, job, dropped>>

SendCommit(r) ==
    /\ pc[r] = "txn" /\ tx[r].stage = "ledger"
    /\ tx' = [tx EXCEPT ![r].stage = "commit"]
    /\ UNCHANGED <<tables, nextId, files, run, dropped>>

\* Mutant: the COPY has its own transaction, and that one is not committed.
CommitWithoutCopy(r) ==
    LET t == tx[r]
    IN  /\ t.stage = "commit"
        /\ songs' = songs \cup {[id |-> t.id, source |-> t.source, art |-> t.art]}
        /\ ledger' = ledger \cup
             {[source |-> t.source, song |-> t.id, version |-> version[r]]}
        /\ tx' = [tx EXCEPT ![r] = NoTx]
        /\ pc' = [pc EXCEPT ![r] = IF @ = "txn" THEN "ack" ELSE @]
        /\ UNCHANGED <<prints, nextId, files, mode, version, conn, todo, job, status, dropped>>

\* The server executes COMMIT, whether or not the client is still there.
ServerCommit(r) ==
    LET t == tx[r]
    IN  /\ t.stage = "commit"
        /\ songs' = songs \cup {[id |-> t.id, source |-> t.source, art |-> t.art]}
        /\ prints' = prints \cup {[song |-> t.id, version |-> version[r]]}
        /\ ledger' = ledger \cup
             {[source |-> t.source, song |-> t.id, version |-> version[r]]}
        /\ tx' = [tx EXCEPT ![r] = NoTx]
        /\ pc' = [pc EXCEPT ![r] = IF @ = "txn" THEN "ack" ELSE @]
        /\ UNCHANGED <<nextId, files, mode, version, conn, todo, job, status, dropped>>

ReceiveAck(r) ==
    /\ pc[r] = "ack"
    /\ Report(r, job[r].file, "ingested")
    /\ UNCHANGED <<tables, nextId, files, mode, version, conn, todo, job, tx, dropped>>
-----------------------------------------------------------------------------
(***************************************************************************)
(* What goes wrong.  ingest_file catches every exception and reports the   *)
(* file as failed; backfill_artwork catches none, so the run ends there.   *)
(***************************************************************************)
GiveUp(r, c) ==
    IF mode[r] = "ingest"
    THEN Report(r, c, "failed")
    ELSE pc' = [pc EXCEPT ![r] = "dead"] /\ UNCHANGED status

\* The file cannot be read: compute_sha256 raises.
Unreadable(r, c) ==
    /\ pc[r] = "next" /\ c \in todo[r]
    /\ TakeUp(r, c, NoSong)
    /\ GiveUp(r, c)
    /\ UNCHANGED <<tables, nextId, files, mode, version, conn, tx, dropped>>

\* Decoding or validation fails, or the artwork file cannot be opened or filled.
FileFails(r) ==
    /\ pc[r] \in {"extract", "artwork", "writing"}
    /\ GiveUp(r, job[r].file)
    /\ UNCHANGED <<tables, nextId, files, mode, version, conn, todo, job, tx, dropped>>

\* A statement other than the ledger insert fails, or COMMIT does: roll back.
StatementFails(r) ==
    /\ pc[r] = "txn"
    /\ tx' = [tx EXCEPT ![r] = NoTx]
    /\ GiveUp(r, job[r].file)
    /\ UNCHANGED <<tables, nextId, files, mode, version, conn, todo, job, dropped>>

\* The connection breaks.  A statement under way raises; COMMIT may have been sent.
LoseConnection(r) ==
    /\ conn[r] = "open" /\ pc[r] \notin {"idle", "finished", "dead"}
    /\ conn' = [conn EXCEPT ![r] = "lost"]
    /\ IF pc[r] \in {"txn", "ack", "update"} THEN GiveUp(r, job[r].file) ELSE UNCHANGED <<pc, status>>
    /\ UNCHANGED <<tables, nextId, files, mode, version, todo, job, tx, dropped>>

\* The first statement on a lost connection raises.
UseLostConnection(r) ==
    /\ conn[r] = "lost" /\ pc[r] \in {"insert", "update"}
    /\ GiveUp(r, job[r].file)
    /\ UNCHANGED <<tables, nextId, files, mode, version, conn, todo, job, tx, dropped>>

\* The process is killed.
Crash(r) ==
    /\ pc[r] \notin {"idle", "finished", "dead"}
    /\ pc' = [pc EXCEPT ![r] = "dead"]
    /\ UNCHANGED <<tables, nextId, files, mode, version, conn, todo, job, tx, status, dropped>>

\* Mutant: the server never learns of a client that was killed.
ServerAbortIfClosed(r) ==
    /\ tx[r].stage # "none" /\ pc[r] \notin {"txn", "dead"}
    /\ tx' = [tx EXCEPT ![r] = NoTx]
    /\ UNCHANGED <<tables, nextId, files, run, dropped>>

\* The server notices that the client is gone and rolls its transaction back.
ServerAbort(r) ==
    /\ tx[r].stage # "none" /\ pc[r] # "txn"
    /\ tx' = [tx EXCEPT ![r] = NoTx]
    /\ UNCHANGED <<tables, nextId, files, run, dropped>>

-----------------------------------------------------------------------------
(***************************************************************************)
(* backfill_artwork: a read, a file, an UPDATE, each on its own.           *)
(***************************************************************************)
SongOf(c) == {s \in songs : \E l \in ledger : l.source = c /\ l.song = s.id}

Select(r, c) ==
    /\ mode[r] = "backfill" /\ pc[r] = "next" /\ c \in todo[r]
    /\ \/ /\ conn[r] = "lost"
          /\ TakeUp(r, c, NoSong)
          /\ pc' = [pc EXCEPT ![r] = "dead"]
          /\ UNCHANGED status
       \/ /\ conn[r] = "open" /\ SongOf(c) = {}
          /\ TakeUp(r, c, NoSong)
          /\ Report(r, c, "not_previously_ingested")
       \/ \E s \in SongOf(c) :
             /\ conn[r] = "open"
             /\ TakeUp(r, c, s.id)
             /\ IF s.art THEN Report(r, c, "already_has_artwork")
                         ELSE Goto(r, "next", "artwork") /\ UNCHANGED status
    /\ UNCHANGED <<tables, nextId, files, mode, version, conn, tx, dropped>>

\* UPDATE songs ... WHERE id: touches no row if the song has gone meanwhile.
UpdateArtwork(r) ==
    /\ pc[r] = "update" /\ conn[r] = "open"
    /\ Abstract!SetArtwork(job[r].song)
    /\ Report(r, job[r].file, "updated")
    /\ UNCHANGED <<nextId, files, mode, version, conn, todo, job, tx, dropped>>

\* The UPDATE takes effect, its answer is lost with the connection.
UpdateUnanswered(r) ==
    /\ conn[r] = "open"
    /\ Goto(r, "update", "dead")
    /\ Abstract!SetArtwork(job[r].song)
    /\ conn' = [conn EXCEPT ![r] = "lost"]
    /\ UNCHANGED <<nextId, files, mode, version, todo, job, tx, status, dropped>>

-----------------------------------------------------------------------------
\* DELETE /admin/songs/{id}/fingerprints
AdminDelete(id) ==
    /\ Abstract!DropFingerprints(id)
    /\ dropped' = dropped \cup {id}
    /\ UNCHANGED <<nextId, files, run, tx>>

\* Mutant: the foreign keys have neither ON DELETE clause.
OperatorDeleteRowOnly(id) ==
    /\ songs' = {s \in songs : s.id # id}
    /\ UNCHANGED <<prints, ledger, nextId, files, run, tx, dropped>>

\* Mutant: ON DELETE CASCADE on the ledger as well.
OperatorDeleteLedgerToo(id) ==
    /\ songs' = {s \in songs : s.id # id}
    /\ prints' = {p \in prints : p.song # id}
    /\ ledger' = {l \in ledger : l.song # id}
    /\ UNCHANGED <<nextId, files, run, tx, dropped>>

\* An operator deletes a song by hand.
OperatorDelete(id) ==
    /\ Abstract!RemoveSong(id)
    /\ UNCHANGED <<nextId, files, run, tx, dropped>>

\* What a run does of its own accord, and what the server does for it.
Work(r) ==
    \/ FinishRun(r)
    \/ \E c \in todo[r] : Check(r, c) \/ Select(r, c)
    \/ Extract(r) \/ SkipArtwork(r) \/ OpenArtwork(r) \/ WriteArtwork(r)
    \/ InsertSong(r) \/ CopyFingerprints(r) \/ RecordSource(r) \/ RejectSource(r)
    \/ SendCommit(r) \/ ReceiveAck(r)
    \/ UpdateArtwork(r) \/ UseLostConnection(r)

Server(r) == ServerCommit(r) \/ ServerAbort(r)

Trouble(r) ==
    \/ \E c \in todo[r] : Unreadable(r, c)
    \/ FileFails(r) \/ StatementFails(r) \/ UpdateUnanswered(r)
    \/ LoseConnection(r) \/ Crash(r)

Next ==
    \/ \E r \in Runs, dir \in SUBSET Sources : Start(r, dir)
    \/ \E r \in Runs : Work(r) \/ Server(r) \/ Trouble(r)
    \/ \E s \in songs : AdminDelete(s.id) \/ OperatorDelete(s.id)

Spec == Init /\ [][Next]_vars

(***************************************************************************)
(* A live process goes on to its next statement, and PostgreSQL answers    *)
(* COMMIT and ends the transactions of clients that have gone.             *)
(***************************************************************************)
Fairness == \A r \in Runs : WF_vars(Work(r)) /\ WF_vars(Server(r))

FairSpec == Spec /\ Fairness
-----------------------------------------------------------------------------
(***************************************************************************)
(* Properties.                                                             *)
(***************************************************************************)
SongRows == [id : SongIds, source : Sources, art : BOOLEAN]
PrintRows == [song : SongIds, version : Versions]
LedgerRows == [source : Sources, song : SongIds \cup {NoSong}, version : Versions]
Statuses == {"none"} \cup IngestStatuses \cup BackfillStatuses

TablesTyped ==
    /\ songs \subseteq SongRows
    /\ prints \subseteq PrintRows
    /\ ledger \subseteq LedgerRows
    /\ nextId \in SongIds
    /\ files \in [Sources -> {"absent", "partial", "whole"}]
    /\ dropped \subseteq SongIds

Jobs == [file : Sources \cup {NoFile}, art : BOOLEAN, song : SongIds \cup {NoSong}]
Transactions == [stage : Stages, source : Sources \cup {NoFile},
                 id : SongIds \cup {NoSong}, art : BOOLEAN]

RunsTyped ==
    /\ mode \in [Runs -> Modes]
    /\ version \in [Runs -> Versions]
    /\ conn \in [Runs -> {"open", "lost"}]
    /\ pc \in [Runs -> Locations]
    /\ todo \in [Runs -> SUBSET Sources]
    /\ job \in [Runs -> Jobs]
    /\ tx \in [Runs -> Transactions]
    /\ status \in [Runs -> [Sources -> Statuses]]

\* The foreign keys of 0002 and 0003.
KeysRefer ==
    /\ \A p \in prints : \E s \in songs : s.id = p.song
    /\ \A l \in ledger : l.song = NoSong \/ \E s \in songs : s.id = l.song

\* Rows, runs and transactions are well formed, and no foreign key dangles
\* (migrations 0001 to 0003; ingestion.py 154-337).
TypeOK == TablesTyped /\ RunsTyped /\ KeysRefer

(***************************************************************************)
(* However many runs overlap, crash or are repeated, no file makes two     *)
(* songs ("never creates duplicate catalog entries", docs/ingestion.md),   *)
(* and every song is the one its ledger row names (ingestion.py 258-291).  *)
(***************************************************************************)
OneSongPerSource ==
    /\ \A s, t \in songs : s.source = t.source => s = t
    /\ \A s \in songs : \E l \in ledger : l.source = s.source /\ l.song = s.id

(***************************************************************************)
(* No song is in the catalogue without the fingerprints its ledger row     *)
(* accounts for, unless an admin dropped them (ingestion.py 271-282).      *)
(***************************************************************************)
NoPartialSong ==
    \A l \in ledger :
        \/ l.song \in {NoSong} \cup dropped
        \/ [song |-> l.song, version |-> l.version] \in prints

(***************************************************************************)
(* A song with an artwork_url has a file behind it: it is opened before    *)
(* the song row, or the update of it, can commit (ingestion.py 266-269,    *)
(* 322-327).                                                               *)
(***************************************************************************)
ArtworkIsThere == \A s \in songs : s.art => files[s.source] # "absent"

(***************************************************************************)
(* A report of success is true and final, at most one run makes it for a   *)
(* file: "ingested" and "skipped_duplicate" both mean that the ledger has  *)
(* the file, whatever became of the other runs (ingestion.py 261-286).     *)
(***************************************************************************)
ReportsAreTrue ==
    \A c \in Sources :
        /\ \A r \in Runs :
              status[r][c] \in {"ingested", "skipped_duplicate"} => IsIngested(c)
        /\ Cardinality({r \in Runs : status[r][c] = "ingested"}) <= 1

(***************************************************************************)
(* The provenance of a file is permanent: a ledger row is never removed    *)
(* or pointed at another song; it only loses its song to a deletion, and   *)
(* with it the file can never be ingested again (0003 lines 4-12).         *)
(***************************************************************************)
LedgerIsPermanent ==
    [][\A l \in ledger :
          \E m \in ledger' : /\ m.source = l.source /\ m.version = l.version
                             /\ m.song \in {l.song, NoSong}]_vars

\* The tables only move as the abstract catalogue allows.
RefinesCatalog == Abstract!Spec

(***************************************************************************)
(* No run waits for ever: not for the key of a transaction whose client    *)
(* has gone, and not for another run's (each transaction holds one key).   *)
(***************************************************************************)
RunsEnd == \A r \in Runs : pc[r] # "idle" ~> pc[r] \in {"finished", "dead"}

(***************************************************************************)
(* What admin_handler.rs 88-90 says deletion of fingerprints is for, to    *)
(* re-ingest the song: after a run that reports the file ingested or       *)
(* already there, the catalogue has fingerprints to recognise it by.       *)
(***************************************************************************)
ReingestRestoresFingerprints ==
    [][\A r \in Runs, c \in Sources :
          /\ status[r][c] = "none"
          /\ status'[r][c] \in {"ingested", "skipped_duplicate"}
          /\ \E s \in songs : s.source = c
          => \E s \in songs', p \in prints' : s.source = c /\ p.song = s.id]_vars

(***************************************************************************)
(* What _save_artwork says of concurrent or repeated extraction ("trivially*)
(* idempotent", ingestion.py 187-194): it never spoils a published file.   *)
(* An interrupted rewrite by a second run leaves a truncated one.          *)
(***************************************************************************)
ArtworkStaysWhole ==
    \A s \in songs :
        s.art /\ (\A r \in Runs : pc[r] # "writing") => files[s.source] = "whole"
=============================================================================
