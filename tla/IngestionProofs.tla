--------------------------- MODULE IngestionProofs --------------------------
(***************************************************************************)
(* Proofs about module Ingestion: its types, that no source makes two      *)
(* songs, that no song is without its fingerprints, and that the runs      *)
(* implement the abstract catalogue, for any sources, runs and versions.   *)
(***************************************************************************)
EXTENDS Ingestion, FiniteSetTheorems, TLAPS

\* A run that works on a file knows which.
JobAtHand ==
    \A r \in Runs :
        pc[r] \in {"extract", "artwork", "writing", "insert", "txn", "ack", "update"}
            => job[r].file \in Sources

\* The ids drawn from songs_id_seq are all different, in songs and in transactions.
IdsAreFresh ==
    /\ \A s \in songs : s.id < nextId
    /\ \A s, t \in songs : s.id = t.id => s = t
    /\ \A r \in Runs :
          tx[r].stage # "none" =>
              /\ tx[r].source \in Sources
              /\ tx[r].id \in SongIds /\ tx[r].id < nextId
              /\ \A s \in songs : s.id # tx[r].id
              /\ \A q \in Runs :
                    q # r /\ tx[q].stage # "none" => tx[q].id # tx[r].id

\* The unique index on sha256: over committed rows and those of transactions.
KeysAreUnique ==
    /\ \A l, m \in ledger : l.source = m.source => l = m
    /\ \A r \in Runs, c \in Sources :
          Holds(r, c) =>
              /\ ~IsIngested(c)
              /\ \A q \in Runs : q # r => ~Holds(q, c)

\* Every song is the one that the ledger row of its source names.
SongsAreAccounted ==
    \A s \in songs : \E l \in ledger : l.source = s.source /\ l.song = s.id

IInv ==
    /\ TypeOK
    /\ JobAtHand
    /\ IdsAreFresh
    /\ KeysAreUnique
    /\ SongsAreAccounted

-----------------------------------------------------------------------------
\* The initial states satisfy the invariant: the catalogue holds the legacy songs.
THEOREM InitEstablishesIInv == Init => IInv
<1> SUFFICES ASSUME Init PROVE IInv
    OBVIOUS
<1> PICK v \in Versions :
        /\ prints = {[song |-> LegacyId[c], version |-> v] : c \in Legacy}
        /\ ledger = {[source |-> c, song |-> LegacyId[c], version |-> v] : c \in Legacy}
    BY DEF Init
<1> DEFINE SongRow(c) == [id |-> LegacyId[c], source |-> c, art |-> FALSE]
           LedgerRow(c) == [source |-> c, song |-> LegacyId[c], version |-> v]
<1>1. \A c \in Legacy :
          /\ c \in Sources
          /\ LegacyId[c] \in SongIds
          /\ LegacyId[c] # NoSong
          /\ LegacyId[c] < FirstId
    BY IngestionAssumption DEF SongIds
<1>2. /\ \A s \in songs : \E c \in Legacy : s = SongRow(c)
      /\ \A c \in Legacy : SongRow(c) \in songs
    BY DEF Init
<1>3. /\ \A s \in songs : \E c \in Legacy : s.id = LegacyId[c] /\ s.source = c
      /\ \A c \in Legacy : \E s \in songs : s.id = LegacyId[c] /\ s.source = c
  <2>1. \A c \in Legacy : SongRow(c).id = LegacyId[c] /\ SongRow(c).source = c
      OBVIOUS
  <2>2. QED
      BY <1>2, <2>1
<1>4. /\ \A l \in ledger : \E c \in Legacy : l = LedgerRow(c)
      /\ \A c \in Legacy : LedgerRow(c) \in ledger
    OBVIOUS
<1>5. TypeOK
  <2>1. TablesTyped
    <3>1. songs \subseteq SongRows
      <4>1. \A c \in Legacy : SongRow(c) \in SongRows
          BY <1>1 DEF SongRows
      <4>2. QED
          BY <1>2, <4>1
    <3>2. prints \subseteq PrintRows
        BY <1>1 DEF PrintRows
    <3>3. ledger \subseteq LedgerRows
        BY <1>1, <1>4 DEF LedgerRows
    <3>4. QED
        BY <3>1, <3>2, <3>3, IngestionAssumption DEF TablesTyped, Init
  <2>2. RunsTyped
      BY DEF RunsTyped, Init, Statuses, Locations, Jobs, Transactions, Stages,
             NoTx, NoJob
  <2>3. KeysRefer
      BY <1>3, <1>4 DEF KeysRefer
  <2>4. QED
      BY <2>1, <2>2, <2>3 DEF TypeOK
<1>6. JobAtHand
    BY DEF JobAtHand, Init
<1>7. IdsAreFresh
  <2>1. \A r \in Runs : tx[r].stage = "none"
      BY DEF Init, NoTx
  <2>2. \A c, d \in Legacy : LegacyId[c] = LegacyId[d] => c = d
      BY IngestionAssumption
  <2>3. \A c \in Legacy : SongRow(c).id = LegacyId[c]
      OBVIOUS
  <2>4. ASSUME NEW s \in songs, NEW t \in songs, s.id = t.id PROVE s = t
    <3>1. PICK c \in Legacy : s = SongRow(c)
        BY <1>2
    <3>2. PICK d \in Legacy : t = SongRow(d)
        BY <1>2
    <3>3. c = d
        BY <2>2, <2>3, <2>4, <3>1, <3>2
    <3>4. QED
        BY <3>1, <3>2, <3>3
  <2>5. \A s \in songs : s.id < nextId
      BY <1>1, <1>3 DEF Init
  <2>6. QED
      BY <2>1, <2>4, <2>5 DEF IdsAreFresh
<1>8. KeysAreUnique
    BY <1>4 DEF KeysAreUnique, Init, NoTx, Holds
<1>9. SongsAreAccounted
    BY <1>3, <1>4 DEF SongsAreAccounted
<1>10. QED
    BY <1>5, <1>6, <1>7, <1>8, <1>9 DEF IInv

-----------------------------------------------------------------------------
(***************************************************************************)
(* What the building blocks of the actions do to the records of the runs.  *)
(***************************************************************************)
LocationsTyped == pc \in [Runs -> Locations]
StatusTyped == status \in [Runs -> [Sources -> Statuses]]

\* Goto leads to a location.
LEMMA GotoTyped ==
    ASSUME LocationsTyped, NEW r \in Runs, NEW from, NEW to \in Locations,
           Goto(r, from, to)
    PROVE  LocationsTyped'
BY DEF LocationsTyped, Goto

\* Report leads to the next file and enters a status.
LEMMA ReportTyped ==
    ASSUME LocationsTyped, StatusTyped, NEW r \in Runs, NEW c, NEW s \in Statuses,
           Report(r, c, s)
    PROVE  LocationsTyped' /\ StatusTyped'
BY DEF LocationsTyped, StatusTyped, Report, Locations

\* GiveUp reports a failure or ends the run.
LEMMA GiveUpTyped ==
    ASSUME LocationsTyped, StatusTyped, NEW r \in Runs, NEW c, GiveUp(r, c)
    PROVE  LocationsTyped' /\ StatusTyped'
<1>1. CASE mode[r] = "ingest"
  <2>1. "failed" \in Statuses /\ Report(r, c, "failed")
      BY <1>1 DEF GiveUp, Statuses, IngestStatuses
  <2>2. QED
      BY <2>1, ReportTyped
<1>2. CASE mode[r] # "ingest"
    BY <1>2 DEF GiveUp, LocationsTyped, StatusTyped, Locations
<1>3. QED
    BY <1>1, <1>2

\* TakeUp moves a file from todo to job.
LEMMA TakeUpTyped ==
    ASSUME RunsTyped, NEW r \in Runs, NEW c \in todo[r],
           NEW song \in SongIds \cup {NoSong}, TakeUp(r, c, song)
    PROVE  /\ job' \in [Runs -> Jobs]
           /\ todo' \in [Runs -> SUBSET Sources]
<1>1. c \in Sources
    BY DEF RunsTyped
<1>2. [file |-> c, art |-> FALSE, song |-> song] \in Jobs
    BY <1>1 DEF Jobs
<1>3. QED
    BY <1>2 DEF TakeUp, RunsTyped

\* A step of the runs leaves their records well formed.
LEMMA RunsStayTyped == IInv /\ [Next]_vars => RunsTyped'
<1> SUFFICES ASSUME IInv, [Next]_vars PROVE RunsTyped'
    OBVIOUS
<1>1. RunsTyped /\ LocationsTyped /\ StatusTyped
    BY DEF IInv, TypeOK, RunsTyped, LocationsTyped, StatusTyped
<1>2. /\ {"ingested", "skipped_duplicate", "failed"} \subseteq Statuses
      /\ {"updated", "no_artwork", "already_has_artwork",
          "not_previously_ingested"} \subseteq Statuses
    BY DEF Statuses, IngestStatuses, BackfillStatuses
<1>3. Locations = {"idle", "next", "extract", "artwork", "writing", "insert", "txn",
                   "ack", "update", "finished", "dead"}
    BY DEF Locations
<1>4. NoTx \in Transactions
    BY DEF NoTx, Transactions, Stages
<1> USE <1>1 DEF tables, run
<1>5. ASSUME NEW r \in Runs, NEW dir \in SUBSET Sources, Start(r, dir) PROVE RunsTyped'
    BY <1>3, <1>5 DEF Start, Goto, RunsTyped
<1>6. ASSUME NEW r \in Runs, FinishRun(r) PROVE RunsTyped'
    BY <1>3, <1>6 DEF FinishRun, Goto, RunsTyped
<1>7. ASSUME NEW r \in Runs, NEW c \in todo[r], Check(r, c) PROVE RunsTyped'
  <2>1. LocationsTyped' /\ StatusTyped'
    <3>1. CASE conn[r] = "open" /\ ~IsIngested(c)
        BY <1>3, <1>7, <3>1, GotoTyped DEF Check, StatusTyped
    <3>2. CASE ~(conn[r] = "open" /\ ~IsIngested(c))
        BY <1>2, <1>7, <3>2, ReportTyped DEF Check
    <3>3. QED
        BY <3>1, <3>2
  <2>2. QED
      BY <1>7, <2>1, TakeUpTyped DEF Check, RunsTyped, LocationsTyped, StatusTyped
<1>8. ASSUME NEW r \in Runs, Extract(r) PROVE RunsTyped'
    BY <1>3, <1>8 DEF Extract, Goto, RunsTyped
<1>9. ASSUME NEW r \in Runs, SkipArtwork(r) PROVE RunsTyped'
  <2>1. LocationsTyped' /\ StatusTyped'
    <3>1. CASE mode[r] = "ingest"
        BY <1>3, <1>9, <3>1, GotoTyped DEF SkipArtwork, StatusTyped
    <3>2. CASE mode[r] # "ingest"
        BY <1>2, <1>9, <3>2, ReportTyped DEF SkipArtwork
    <3>3. QED
        BY <3>1, <3>2
  <2>2. QED
      BY <1>9, <2>1 DEF SkipArtwork, RunsTyped, LocationsTyped, StatusTyped
<1>10. ASSUME NEW r \in Runs, OpenArtwork(r) PROVE RunsTyped'
    BY <1>3, <1>10 DEF OpenArtwork, Goto, RunsTyped
<1>11. ASSUME NEW r \in Runs, WriteArtwork(r) PROVE RunsTyped'
  <2>1. LocationsTyped'
      BY <1>3, <1>11, GotoTyped DEF WriteArtwork, AfterArtwork
  <2>2. job' \in [Runs -> Jobs]
    <3>1. [job[r] EXCEPT !.art = TRUE] \in Jobs
        BY DEF RunsTyped, Jobs
    <3>2. QED
        BY <1>11, <3>1 DEF WriteArtwork, RunsTyped
  <2>3. QED
      BY <1>11, <2>1, <2>2 DEF WriteArtwork, RunsTyped, LocationsTyped
<1>12. ASSUME NEW r \in Runs, InsertSong(r) PROVE RunsTyped'
  <2>1. LocationsTyped'
      BY <1>3, <1>12, GotoTyped DEF InsertSong
  <2>2. [stage |-> "song", source |-> job[r].file, id |-> nextId, art |-> job[r].art]
            \in Transactions
      BY DEF IInv, TypeOK, TablesTyped, RunsTyped, Jobs, Transactions, Stages
  <2>3. QED
      BY <1>12, <2>1, <2>2 DEF InsertSong, RunsTyped, LocationsTyped
<1>13. ASSUME NEW r \in Runs, CopyFingerprints(r) PROVE RunsTyped'
  <2>1. [tx[r] EXCEPT !.stage = "prints"] \in Transactions
      BY DEF RunsTyped, Transactions, Stages
  <2>2. QED
      BY <1>13, <2>1 DEF CopyFingerprints, RunsTyped
<1>14. ASSUME NEW r \in Runs, RecordSource(r) PROVE RunsTyped'
  <2>1. [tx[r] EXCEPT !.stage = "ledger"] \in Transactions
      BY DEF RunsTyped, Transactions, Stages
  <2>2. QED
      BY <1>14, <2>1 DEF RecordSource, RunsTyped
<1>15. ASSUME NEW r \in Runs, RejectSource(r) PROVE RunsTyped'
    BY <1>2, <1>4, <1>15, ReportTyped DEF RejectSource, RunsTyped, LocationsTyped, StatusTyped
<1>16. ASSUME NEW r \in Runs, SendCommit(r) PROVE RunsTyped'
  <2>1. [tx[r] EXCEPT !.stage = "commit"] \in Transactions
      BY DEF RunsTyped, Transactions, Stages
  <2>2. QED
      BY <1>16, <2>1 DEF SendCommit, RunsTyped
<1>17. ASSUME NEW r \in Runs, ServerCommit(r) PROVE RunsTyped'
    BY <1>3, <1>4, <1>17 DEF ServerCommit, RunsTyped
<1>18. ASSUME NEW r \in Runs, ReceiveAck(r) PROVE RunsTyped'
    BY <1>2, <1>18, ReportTyped DEF ReceiveAck, RunsTyped, LocationsTyped, StatusTyped
<1>19. ASSUME NEW r \in Runs, NEW c \in todo[r], Unreadable(r, c) PROVE RunsTyped'
  <2>1. LocationsTyped' /\ StatusTyped'
      BY <1>19, GiveUpTyped DEF Unreadable
  <2>2. QED
      BY <1>19, <2>1, TakeUpTyped DEF Unreadable, RunsTyped, LocationsTyped, StatusTyped
<1>20. ASSUME NEW r \in Runs, FileFails(r) PROVE RunsTyped'
    BY <1>20, GiveUpTyped DEF FileFails, RunsTyped, LocationsTyped, StatusTyped
<1>21. ASSUME NEW r \in Runs, StatementFails(r) PROVE RunsTyped'
    BY <1>4, <1>21, GiveUpTyped DEF StatementFails, RunsTyped, LocationsTyped, StatusTyped
<1>22. ASSUME NEW r \in Runs, UseLostConnection(r) PROVE RunsTyped'
    BY <1>22, GiveUpTyped DEF UseLostConnection, RunsTyped, LocationsTyped, StatusTyped
<1>23. ASSUME NEW r \in Runs, LoseConnection(r) PROVE RunsTyped'
  <2>1. LocationsTyped' /\ StatusTyped'
    <3>1. CASE pc[r] \in {"txn", "ack", "update"}
        BY <1>23, <3>1, GiveUpTyped DEF LoseConnection
    <3>2. CASE pc[r] \notin {"txn", "ack", "update"}
        BY <1>23, <3>2 DEF LoseConnection, LocationsTyped, StatusTyped
    <3>3. QED
        BY <3>1, <3>2
  <2>2. QED
      BY <1>23, <2>1 DEF LoseConnection, RunsTyped, LocationsTyped, StatusTyped
<1>24. ASSUME NEW r \in Runs, Crash(r) PROVE RunsTyped'
    BY <1>3, <1>24 DEF Crash, RunsTyped
<1>25. ASSUME NEW r \in Runs, ServerAbort(r) PROVE RunsTyped'
    BY <1>4, <1>25 DEF ServerAbort, RunsTyped
<1>26. ASSUME NEW r \in Runs, NEW c \in todo[r], Select(r, c) PROVE RunsTyped'
  <2>1. PICK song \in SongIds \cup {NoSong} : TakeUp(r, c, song)
    <3>1. \A s \in SongOf(c) : s.id \in SongIds
        BY DEF SongOf, IInv, TypeOK, TablesTyped, SongRows
    <3>2. QED
        BY <1>26, <3>1 DEF Select
  <2>2. LocationsTyped' /\ StatusTyped'
    <3>1. CASE UNCHANGED status /\ pc' = [pc EXCEPT ![r] = "dead"]
        BY <1>3, <3>1 DEF LocationsTyped, StatusTyped
    <3>2. CASE UNCHANGED status /\ Goto(r, "next", "artwork")
        BY <1>3, <3>2, GotoTyped DEF StatusTyped
    <3>3. CASE Report(r, c, "not_previously_ingested") \/ Report(r, c, "already_has_artwork")
        BY <1>2, <3>3, ReportTyped
    <3>4. QED
        BY <1>26, <3>1, <3>2, <3>3 DEF Select
  <2>3. QED
      BY <1>26, <2>1, <2>2, TakeUpTyped DEF Select, RunsTyped, LocationsTyped, StatusTyped
<1>27. ASSUME NEW r \in Runs, UpdateArtwork(r) PROVE RunsTyped'
    BY <1>2, <1>27, ReportTyped DEF UpdateArtwork, RunsTyped, LocationsTyped, StatusTyped
<1>28. ASSUME NEW r \in Runs, UpdateUnanswered(r) PROVE RunsTyped'
    BY <1>3, <1>28, GotoTyped DEF UpdateUnanswered, RunsTyped, LocationsTyped
<1>29. ASSUME NEW s \in songs, AdminDelete(s.id) \/ OperatorDelete(s.id) PROVE RunsTyped'
    BY <1>29 DEF AdminDelete, OperatorDelete, RunsTyped
<1>30. CASE UNCHANGED vars
    BY <1>30 DEF vars, RunsTyped
<1>31. QED
    BY <1>5, <1>6, <1>7, <1>8, <1>9, <1>10, <1>11, <1>12, <1>13, <1>14, <1>15,
       <1>16, <1>17, <1>18, <1>19, <1>20, <1>21, <1>22, <1>23, <1>24, <1>25,
       <1>26, <1>27, <1>28, <1>29, <1>30
    DEF Next, Work, Server, Trouble

\* A run that turns to a file, or goes on with one, has it at hand.
LEMMA JobStaysAtHand == IInv /\ [Next]_vars => JobAtHand'
<1> SUFFICES ASSUME IInv, [Next]_vars PROVE JobAtHand'
    OBVIOUS
<1>1. RunsTyped /\ JobAtHand
    BY DEF IInv, TypeOK
<1>2. ASSUME NEW r \in Runs, NEW c \in todo[r],
             Check(r, c) \/ Select(r, c) \/ Unreadable(r, c)
      PROVE  JobAtHand'
  <2>1. c \in Sources
      BY <1>1 DEF RunsTyped
  <2>2. job'[r].file = c /\ \A q \in Runs \ {r} : job'[q] = job[q]
      BY <1>1, <1>2 DEF Check, Select, Unreadable, TakeUp, RunsTyped
  <2>3. \A q \in Runs \ {r} : pc'[q] = pc[q]
    <3>1. CASE Check(r, c)
        BY <1>1, <3>1 DEF Check, Goto, Report, RunsTyped
    <3>2. CASE Select(r, c)
        BY <1>1, <3>2 DEF Select, Goto, Report, RunsTyped
    <3>3. CASE Unreadable(r, c)
        BY <1>1, <3>3 DEF Unreadable, GiveUp, Report, RunsTyped
    <3>4. QED
        BY <1>2, <3>1, <3>2, <3>3
  <2>4. QED
      BY <1>1, <2>1, <2>2, <2>3 DEF JobAtHand
<1>3. ASSUME NEW r \in Runs,
             \/ Extract(r) \/ SkipArtwork(r) \/ OpenArtwork(r) \/ WriteArtwork(r)
             \/ InsertSong(r) \/ ReceiveAck(r)
      PROVE  JobAtHand'
    BY <1>1, <1>3 DEF Extract, SkipArtwork, OpenArtwork, WriteArtwork, InsertSong,
       ReceiveAck, AfterArtwork, Goto, Report, JobAtHand, RunsTyped, Jobs
<1>4. ASSUME NEW r \in Runs,
             \/ FinishRun(r) \/ (\E dir \in SUBSET Sources : Start(r, dir))
             \/ Crash(r) \/ UpdateArtwork(r) \/ UpdateUnanswered(r)
      PROVE  JobAtHand'
    BY <1>1, <1>4 DEF FinishRun, Start, Crash, UpdateArtwork, UpdateUnanswered,
       Goto, Report, JobAtHand, RunsTyped
<1>5. ASSUME NEW r \in Runs,
             \/ FileFails(r) \/ StatementFails(r) \/ UseLostConnection(r)
             \/ LoseConnection(r) \/ RejectSource(r) \/ ServerCommit(r)
      PROVE  JobAtHand'
    BY <1>1, <1>5 DEF FileFails, StatementFails, UseLostConnection, LoseConnection,
       RejectSource, ServerCommit, GiveUp, Report, JobAtHand, RunsTyped
<1>6. CASE UNCHANGED <<pc, job>>
    BY <1>1, <1>6 DEF JobAtHand
<1>7. ASSUME NEW r \in Runs,
             \/ CopyFingerprints(r) \/ RecordSource(r) \/ SendCommit(r) \/ ServerAbort(r)
      PROVE  UNCHANGED <<pc, job>>
    BY <1>7 DEF CopyFingerprints, RecordSource, SendCommit, ServerAbort, run
<1>8. ASSUME NEW s \in songs, AdminDelete(s.id) \/ OperatorDelete(s.id)
      PROVE  UNCHANGED <<pc, job>>
    BY <1>8 DEF AdminDelete, OperatorDelete, run
<1>9. QED
    BY <1>2, <1>3, <1>4, <1>5, <1>6, <1>7, <1>8 DEF Next, Work, Server, Trouble, vars, run

-----------------------------------------------------------------------------
(***************************************************************************)
(* The database.  Most steps of a run do not touch it.                     *)
(***************************************************************************)
RollsBack(r) ==
    /\ tx' = [tx EXCEPT ![r] = NoTx]
    /\ UNCHANGED <<tables, nextId, dropped>>

SetsArtwork(r) ==
    /\ pc[r] = "update"
    /\ Abstract!SetArtwork(job[r].song)
    /\ UNCHANGED <<nextId, tx, dropped>>

\* What a step does to the tables and the transactions.
LEMMA DatabaseSteps ==
    ASSUME [Next]_vars
    PROVE  \/ UNCHANGED <<tables, nextId, tx, dropped>>
           \/ \E r \in Runs : InsertSong(r) \/ CopyFingerprints(r) \/ RecordSource(r)
           \/ \E r \in Runs : SendCommit(r) \/ ServerCommit(r)
           \/ \E r \in Runs : RollsBack(r) \/ SetsArtwork(r)
           \/ \E s \in songs : AdminDelete(s.id) \/ OperatorDelete(s.id)
<1> USE DEF tables, run
<1>1. ASSUME NEW r \in Runs, NEW c \in todo[r],
             Check(r, c) \/ Select(r, c) \/ Unreadable(r, c)
      PROVE  UNCHANGED <<tables, nextId, tx, dropped>>
    BY <1>1 DEF Check, Select, Unreadable
<1>2. ASSUME NEW r \in Runs,
             \/ (\E dir \in SUBSET Sources : Start(r, dir)) \/ FinishRun(r)
             \/ Extract(r) \/ SkipArtwork(r) \/ OpenArtwork(r) \/ WriteArtwork(r)
             \/ ReceiveAck(r) \/ UseLostConnection(r) \/ FileFails(r)
             \/ LoseConnection(r) \/ Crash(r)
      PROVE  UNCHANGED <<tables, nextId, tx, dropped>>
    BY <1>2 DEF Start, FinishRun, Extract, SkipArtwork, OpenArtwork, WriteArtwork,
       ReceiveAck, UseLostConnection, FileFails, LoseConnection, Crash
<1>3. ASSUME NEW r \in Runs, RejectSource(r) \/ StatementFails(r) \/ ServerAbort(r)
      PROVE  RollsBack(r)
    BY <1>3 DEF RejectSource, StatementFails, ServerAbort, RollsBack
<1>4. ASSUME NEW r \in Runs, UpdateArtwork(r) \/ UpdateUnanswered(r)
      PROVE  SetsArtwork(r)
    BY <1>4 DEF UpdateArtwork, UpdateUnanswered, SetsArtwork, Goto
<1>5. CASE UNCHANGED vars
    BY <1>5 DEF vars
<1>6. QED
    BY <1>1, <1>2, <1>3, <1>4, <1>5 DEF Next, Work, Server, Trouble

\* The row an UPDATE leaves in the place of row s.
Updated(s, id) == IF s.id = id THEN [s EXCEPT !.art = TRUE] ELSE s

\* An UPDATE of artwork_url keeps every id and every source.
LEMMA SetArtworkKeepsRows ==
    ASSUME songs \subseteq SongRows, NEW id, Abstract!SetArtwork(id)
    PROVE  /\ songs' \subseteq SongRows
           /\ \A s \in songs' : \E t \in songs :
                 s = Updated(t, id) /\ s.id = t.id /\ s.source = t.source
           /\ \A t \in songs : \E s \in songs' : s.id = t.id /\ s.source = t.source
           /\ UNCHANGED <<prints, ledger>>
<1>1. songs' = {Updated(s, id) : s \in songs} /\ UNCHANGED <<prints, ledger>>
    BY DEF Abstract!SetArtwork, Updated
<1>2. ASSUME NEW t \in songs
      PROVE  /\ Updated(t, id) \in SongRows
             /\ Updated(t, id).id = t.id
             /\ Updated(t, id).source = t.source
    BY DEF Updated, SongRows
<1>3. QED
    BY <1>1, <1>2

\* The rows a COMMIT adds.
NewSong(r) == [id |-> tx[r].id, source |-> tx[r].source, art |-> tx[r].art]
NewPrints(r) == [song |-> tx[r].id, version |-> version[r]]
NewRecord(r) == [source |-> tx[r].source, song |-> tx[r].id, version |-> version[r]]

\* A COMMIT adds one well-formed row to every table.
LEMMA CommitAddsRows ==
    ASSUME IInv, NEW r \in Runs, ServerCommit(r)
    PROVE  /\ songs' = songs \cup {NewSong(r)} /\ NewSong(r) \in SongRows
           /\ prints' = prints \cup {NewPrints(r)} /\ NewPrints(r) \in PrintRows
           /\ ledger' = ledger \cup {NewRecord(r)} /\ NewRecord(r) \in LedgerRows
           /\ tx' = [tx EXCEPT ![r] = NoTx]
           /\ UNCHANGED <<nextId, dropped>>
           /\ tx[r].stage = "commit"
<1>1. tx[r].source \in Sources /\ tx[r].id \in SongIds /\ tx[r].stage = "commit"
    BY DEF ServerCommit, IInv, IdsAreFresh
<1>2. tx[r].art \in BOOLEAN /\ version[r] \in Versions
    BY DEF IInv, TypeOK, RunsTyped, Transactions
<1>3. NewSong(r) \in SongRows
    BY <1>1, <1>2 DEF NewSong, SongRows
<1>4. NewPrints(r) \in PrintRows /\ NewRecord(r) \in LedgerRows
    BY <1>1, <1>2 DEF NewPrints, NewRecord, PrintRows, LedgerRows
<1>5. QED
    BY <1>1, <1>3, <1>4 DEF ServerCommit, NewSong, NewPrints, NewRecord

\* A song deletion takes its fingerprints along and empties its ledger row.
LEMMA OperatorDeleteRemoves ==
    ASSUME ledger \subseteq LedgerRows, NEW s \in songs, OperatorDelete(s.id)
    PROVE  /\ songs' = {t \in songs : t.id # s.id}
           /\ prints' = {q \in prints : q.song # s.id}
           /\ ledger' \subseteq LedgerRows
           /\ \A l \in ledger' : \E m \in ledger :
                 /\ l = IF m.song = s.id THEN [m EXCEPT !.song = NoSong] ELSE m
                 /\ l.source = m.source /\ l.version = m.version
                 /\ l.song = IF m.song = s.id THEN NoSong ELSE m.song
           /\ \A m \in ledger : \E l \in ledger' :
                 /\ l.source = m.source /\ l.version = m.version
                 /\ l.song = IF m.song = s.id THEN NoSong ELSE m.song
           /\ UNCHANGED <<nextId, tx, dropped>>
<1> DEFINE After(m) == IF m.song = s.id THEN [m EXCEPT !.song = NoSong] ELSE m
<1>1. /\ ledger' = {After(m) : m \in ledger}
      /\ songs' = {t \in songs : t.id # s.id}
      /\ prints' = {q \in prints : q.song # s.id}
      /\ UNCHANGED <<nextId, tx, dropped>>
    BY DEF OperatorDelete, Abstract!RemoveSong, Abstract!NoSong, NoSong
<1>2. ASSUME NEW m \in ledger
      PROVE  /\ After(m) \in LedgerRows
             /\ After(m).source = m.source /\ After(m).version = m.version
             /\ After(m).song = IF m.song = s.id THEN NoSong ELSE m.song
    BY DEF LedgerRows
<1>3. QED
    BY <1>1, <1>2

\* Only a run that writes a picture touches the artwork directory.
LEMMA FileSteps ==
    ASSUME [Next]_vars
    PROVE  UNCHANGED files \/ \E r \in Runs : OpenArtwork(r) \/ WriteArtwork(r)
<1>1. ASSUME NEW r \in Runs, NEW c \in todo[r],
             Check(r, c) \/ Select(r, c) \/ Unreadable(r, c)
      PROVE  UNCHANGED files
    BY <1>1 DEF Check, Select, Unreadable
<1>2. ASSUME NEW r \in Runs,
             \/ (\E dir \in SUBSET Sources : Start(r, dir)) \/ FinishRun(r)
             \/ Extract(r) \/ SkipArtwork(r) \/ InsertSong(r) \/ CopyFingerprints(r)
             \/ RecordSource(r) \/ RejectSource(r) \/ SendCommit(r) \/ ReceiveAck(r)
             \/ UpdateArtwork(r) \/ UseLostConnection(r) \/ Server(r)
             \/ FileFails(r) \/ StatementFails(r) \/ UpdateUnanswered(r)
             \/ LoseConnection(r) \/ Crash(r)
      PROVE  UNCHANGED files
    BY <1>2 DEF Start, FinishRun, Extract, SkipArtwork, InsertSong, CopyFingerprints,
       RecordSource, RejectSource, SendCommit, ReceiveAck, UpdateArtwork,
       UseLostConnection, Server, ServerCommit, ServerAbort, FileFails,
       StatementFails, UpdateUnanswered, LoseConnection, Crash
<1>3. ASSUME NEW s \in songs, AdminDelete(s.id) \/ OperatorDelete(s.id)
      PROVE  UNCHANGED files
    BY <1>3 DEF AdminDelete, OperatorDelete
<1>4. CASE UNCHANGED vars
    BY <1>4 DEF vars
<1>5. QED
    BY <1>1, <1>2, <1>3, <1>4 DEF Next, Work, Trouble

\* The artwork directory stays well formed.
LEMMA FilesStayTyped ==
    IInv /\ [Next]_vars => files' \in [Sources -> {"absent", "partial", "whole"}]
<1> SUFFICES ASSUME IInv, [Next]_vars
             PROVE  files' \in [Sources -> {"absent", "partial", "whole"}]
    OBVIOUS
<1>1. files \in [Sources -> {"absent", "partial", "whole"}]
    BY DEF IInv, TypeOK, TablesTyped
<1>2. ASSUME NEW r \in Runs, OpenArtwork(r) \/ WriteArtwork(r)
      PROVE  files' \in [Sources -> {"absent", "partial", "whole"}]
    BY <1>1, <1>2 DEF OpenArtwork, WriteArtwork
<1>3. QED
    BY <1>1, <1>2, FileSteps

\* The tables stay well formed and no foreign key comes to dangle.
LEMMA TablesStayTyped == IInv /\ [Next]_vars => TablesTyped' /\ KeysRefer'
<1> SUFFICES ASSUME IInv, [Next]_vars PROVE TablesTyped' /\ KeysRefer'
    OBVIOUS
<1>1. TablesTyped /\ KeysRefer
    BY DEF IInv, TypeOK
<1>2. files' \in [Sources -> {"absent", "partial", "whole"}]
    BY FilesStayTyped
<1>3. CASE UNCHANGED <<tables, nextId, dropped>>
    BY <1>1, <1>2, <1>3 DEF TablesTyped, KeysRefer, tables
<1>4. ASSUME NEW r \in Runs, InsertSong(r) PROVE TablesTyped' /\ KeysRefer'
    BY <1>1, <1>2, <1>4 DEF InsertSong, TablesTyped, KeysRefer, tables, SongIds, NoSong
<1>5. ASSUME NEW r \in Runs, CopyFingerprints(r) \/ RecordSource(r) \/ SendCommit(r) \/ RollsBack(r)
      PROVE  UNCHANGED <<tables, nextId, dropped>>
    BY <1>5 DEF CopyFingerprints, RecordSource, SendCommit, RollsBack
<1>6. ASSUME NEW r \in Runs, ServerCommit(r) PROVE TablesTyped' /\ KeysRefer'
  <2>1. TablesTyped'
      BY <1>1, <1>2, <1>6, CommitAddsRows DEF TablesTyped
  <2>2. NewSong(r).id = tx[r].id /\ NewPrints(r).song = tx[r].id /\ NewRecord(r).song = tx[r].id
      BY DEF NewSong, NewPrints, NewRecord
  <2>3. KeysRefer'
      BY <1>1, <1>6, <2>2, CommitAddsRows DEF KeysRefer
  <2>4. QED
      BY <2>1, <2>3
<1>7. ASSUME NEW r \in Runs, SetsArtwork(r) PROVE TablesTyped' /\ KeysRefer'
    BY <1>1, <1>2, <1>7, SetArtworkKeepsRows DEF SetsArtwork, TablesTyped, KeysRefer
<1>8. ASSUME NEW s \in songs, AdminDelete(s.id) PROVE TablesTyped' /\ KeysRefer'
  <2>1. s.id \in SongIds
      BY <1>1 DEF TablesTyped, SongRows
  <2>2. QED
      BY <1>1, <1>2, <1>8, <2>1 DEF AdminDelete, Abstract!DropFingerprints,
         TablesTyped, KeysRefer
<1>9. ASSUME NEW s \in songs, OperatorDelete(s.id) PROVE TablesTyped' /\ KeysRefer'
    BY <1>1, <1>2, <1>9, OperatorDeleteRemoves DEF TablesTyped, KeysRefer
<1>10. QED
    BY <1>3, <1>4, <1>5, <1>6, <1>7, <1>8, <1>9, DatabaseSteps

\* Ids stay unique: InsertSong draws a new one, a COMMIT publishes its own.
LEMMA IdsStayFresh == IInv /\ [Next]_vars => IdsAreFresh'
<1> SUFFICES ASSUME IInv, [Next]_vars PROVE IdsAreFresh'
    OBVIOUS
<1>1. IdsAreFresh /\ TablesTyped /\ RunsTyped /\ JobAtHand
    BY DEF IInv, TypeOK
<1>2. /\ nextId \in SongIds /\ nextId + 1 \in SongIds
      /\ SongIds \subseteq Nat
      /\ \A s \in songs : s.id \in SongIds
    BY <1>1 DEF TablesTyped, SongIds, NoSong, SongRows
<1>3. CASE UNCHANGED <<tables, nextId, tx, dropped>>
    BY <1>1, <1>3 DEF IdsAreFresh, tables
<1>4. ASSUME NEW r \in Runs, InsertSong(r) PROVE IdsAreFresh'
  <2>1. /\ tx'[r].stage = "song" /\ tx'[r].source \in Sources /\ tx'[r].id = nextId
        /\ \A q \in Runs \ {r} : tx'[q] = tx[q]
        /\ UNCHANGED songs /\ nextId' = nextId + 1
      BY <1>1, <1>4 DEF InsertSong, RunsTyped, JobAtHand, Goto, tables
  <2>2. nextId < nextId + 1 /\ nextId \in Nat /\ \A s \in songs : s.id \in Nat
      BY <1>2 DEF SongIds
  <2>3. \A s \in songs' : s.id < nextId' /\ s.id # nextId
      BY <1>1, <2>1, <2>2 DEF IdsAreFresh
  <2>4. ASSUME NEW q \in Runs \ {r}, tx[q].stage # "none"
        PROVE  tx[q].id \in SongIds /\ tx[q].id < nextId' /\ tx[q].id # nextId
    <3>1. tx[q].id \in SongIds /\ tx[q].id < nextId
        BY <1>1, <2>4 DEF IdsAreFresh
    <3>2. QED
        BY <1>2, <2>1, <3>1 DEF SongIds
  <2>5. nextId < nextId'
      BY <2>1, <2>2
  <2>6. QED
      BY <1>1, <1>2, <2>1, <2>3, <2>4, <2>5 DEF IdsAreFresh
<1>5. ASSUME NEW r \in Runs, CopyFingerprints(r) \/ RecordSource(r) \/ SendCommit(r)
      PROVE  IdsAreFresh'
  <2>1. /\ tx[r].stage # "none"
        /\ tx'[r].source = tx[r].source /\ tx'[r].id = tx[r].id
        /\ \A q \in Runs \ {r} : tx'[q] = tx[q]
        /\ UNCHANGED <<songs, nextId>>
      BY <1>1, <1>5 DEF CopyFingerprints, RecordSource, SendCommit, RunsTyped,
         Transactions, tables
  <2>2. QED
      BY <1>1, <2>1 DEF IdsAreFresh
<1>6. ASSUME NEW r \in Runs, RollsBack(r) PROVE IdsAreFresh'
    BY <1>1, <1>6 DEF RollsBack, RunsTyped, NoTx, IdsAreFresh, tables
<1>7. ASSUME NEW r \in Runs, ServerCommit(r) PROVE IdsAreFresh'
  <2>1. /\ tx'[r].stage = "none"
        /\ \A q \in Runs \ {r} : tx'[q] = tx[q]
        /\ tx[r].stage # "none"
        /\ songs' = songs \cup {NewSong(r)} /\ UNCHANGED nextId
      BY <1>1, <1>7, CommitAddsRows DEF RunsTyped, NoTx
  <2>2. NewSong(r).id = tx[r].id
      BY DEF NewSong
  <2>3. QED
      BY <1>1, <2>1, <2>2 DEF IdsAreFresh
<1>8. ASSUME NEW r \in Runs, SetsArtwork(r) PROVE IdsAreFresh'
    BY <1>1, <1>8, SetArtworkKeepsRows DEF SetsArtwork, TablesTyped, IdsAreFresh
<1>9. ASSUME NEW s \in songs, AdminDelete(s.id) PROVE IdsAreFresh'
    BY <1>1, <1>9 DEF AdminDelete, Abstract!DropFingerprints, IdsAreFresh
<1>10. ASSUME NEW s \in songs, OperatorDelete(s.id) PROVE IdsAreFresh'
    BY <1>1, <1>10, OperatorDeleteRemoves DEF TablesTyped, IdsAreFresh
<1>11. QED
    BY <1>3, <1>4, <1>5, <1>6, <1>7, <1>8, <1>9, <1>10, DatabaseSteps

\* The unique index keeps its promise: RecordSource waits for the key.
LEMMA KeysStayUnique == IInv /\ [Next]_vars => KeysAreUnique'
<1> SUFFICES ASSUME IInv, [Next]_vars PROVE KeysAreUnique'
    OBVIOUS
<1>1. KeysAreUnique /\ TablesTyped /\ RunsTyped
    BY DEF IInv, TypeOK
<1>2. CASE UNCHANGED <<tables, tx>>
    BY <1>1, <1>2 DEF KeysAreUnique, Holds, IsIngested, tables
<1>3. ASSUME NEW r \in Runs, NEW t,
             tx' = [tx EXCEPT ![r] = t], t.stage \notin {"ledger", "commit"},
             UNCHANGED ledger
      PROVE  KeysAreUnique'
    BY <1>1, <1>3 DEF KeysAreUnique, Holds, IsIngested, RunsTyped
<1>4. ASSUME NEW r \in Runs, InsertSong(r) \/ CopyFingerprints(r) \/ RollsBack(r)
      PROVE  KeysAreUnique'
  <2>1. CASE InsertSong(r)
      BY <1>3, <2>1 DEF InsertSong, tables
  <2>2. CASE CopyFingerprints(r)
    <3>1. [tx[r] EXCEPT !.stage = "prints"].stage = "prints"
        BY <1>1 DEF RunsTyped, Transactions
    <3>2. QED
        BY <1>3, <2>2, <3>1 DEF CopyFingerprints, tables
  <2>3. CASE RollsBack(r)
      BY <1>3, <2>3 DEF RollsBack, NoTx, tables
  <2>4. QED
      BY <1>4, <2>1, <2>2, <2>3
<1>5. ASSUME NEW r \in Runs, RecordSource(r) PROVE KeysAreUnique'
  <2>1. /\ tx'[r].stage = "ledger" /\ tx'[r].source = tx[r].source
        /\ \A q \in Runs \ {r} : tx'[q] = tx[q]
        /\ UNCHANGED ledger
      BY <1>1, <1>5 DEF RecordSource, RunsTyped, Transactions, tables
  <2>2. ~IsIngested(tx[r].source) /\ \A q \in Runs : ~Holds(q, tx[r].source)
      BY <1>5 DEF RecordSource
  <2>3. QED
      BY <1>1, <2>1, <2>2 DEF KeysAreUnique, Holds, IsIngested
<1>6. ASSUME NEW r \in Runs, SendCommit(r) PROVE KeysAreUnique'
  <2>1. /\ tx[r].stage = "ledger" /\ tx'[r].source = tx[r].source
        /\ \A q \in Runs \ {r} : tx'[q] = tx[q]
        /\ UNCHANGED ledger
      BY <1>1, <1>6 DEF SendCommit, RunsTyped, Transactions, tables
  <2>2. QED
      BY <1>1, <2>1 DEF KeysAreUnique, Holds, IsIngested
<1>7. ASSUME NEW r \in Runs, ServerCommit(r) PROVE KeysAreUnique'
  <2>1. /\ tx'[r].stage = "none"
        /\ \A q \in Runs \ {r} : tx'[q] = tx[q]
        /\ ledger' = ledger \cup {NewRecord(r)}
      BY <1>1, <1>7, CommitAddsRows DEF RunsTyped, NoTx
  <2>2. NewRecord(r).source = tx[r].source
      BY DEF NewRecord
  <2>3. Holds(r, tx[r].source) /\ tx[r].source \in Sources
      BY <1>7, CommitAddsRows DEF Holds, IInv, IdsAreFresh
  <2>4. /\ \A l \in ledger : l.source # tx[r].source
        /\ \A q \in Runs \ {r} : ~Holds(q, tx[r].source)
      BY <1>1, <2>3 DEF KeysAreUnique, IsIngested
  <2>5. QED
      BY <1>1, <2>1, <2>2, <2>4 DEF KeysAreUnique, Holds, IsIngested
<1>8. ASSUME NEW r \in Runs, SetsArtwork(r) PROVE UNCHANGED <<ledger, tx>>
    BY <1>8 DEF SetsArtwork, Abstract!SetArtwork
<1>9. ASSUME NEW s \in songs, AdminDelete(s.id) PROVE UNCHANGED <<ledger, tx>>
    BY <1>9 DEF AdminDelete, Abstract!DropFingerprints
<1>10. CASE UNCHANGED <<ledger, tx>>
    BY <1>1, <1>10 DEF KeysAreUnique, Holds, IsIngested
<1>11. ASSUME NEW s \in songs, OperatorDelete(s.id) PROVE KeysAreUnique'
  <2> DEFINE After(m) == IF m.song = s.id THEN [m EXCEPT !.song = NoSong] ELSE m
  <2>1. /\ \A l \in ledger' : \E m \in ledger : l = After(m) /\ l.source = m.source
        /\ UNCHANGED tx
      BY <1>1, <1>11, OperatorDeleteRemoves DEF TablesTyped
  <2>2. \A l, m \in ledger' : l.source = m.source => l = m
    <3>1. SUFFICES ASSUME NEW l \in ledger', NEW m \in ledger', l.source = m.source
                   PROVE  l = m
        OBVIOUS
    <3>2. PICK l0 \in ledger : l = After(l0) /\ l.source = l0.source
        BY <2>1
    <3>3. PICK m0 \in ledger : m = After(m0) /\ m.source = m0.source
        BY <2>1
    <3>4. l0 = m0
        BY <1>1, <3>1, <3>2, <3>3 DEF KeysAreUnique
    <3>5. QED
        BY <3>2, <3>3, <3>4
  <2>3. \A c \in Sources : IsIngested(c)' => IsIngested(c)
      BY <2>1 DEF IsIngested
  <2>4. QED
      BY <1>1, <2>1, <2>2, <2>3 DEF KeysAreUnique, Holds
<1>12. QED
    BY <1>2, <1>4, <1>5, <1>6, <1>7, <1>8, <1>9, <1>10, <1>11, DatabaseSteps

\* Songs and ledger rows come together, and a song that stays keeps its row.
LEMMA SongsStayAccounted == IInv /\ [Next]_vars => SongsAreAccounted'
<1> SUFFICES ASSUME IInv, [Next]_vars PROVE SongsAreAccounted'
    OBVIOUS
<1>1. SongsAreAccounted /\ TablesTyped
    BY DEF IInv, TypeOK
<1>2. CASE UNCHANGED <<songs, ledger>>
    BY <1>1, <1>2 DEF SongsAreAccounted
<1>3. ASSUME NEW r \in Runs,
             \/ InsertSong(r) \/ CopyFingerprints(r) \/ RecordSource(r)
             \/ SendCommit(r) \/ RollsBack(r)
      PROVE  UNCHANGED <<songs, ledger>>
    BY <1>3 DEF InsertSong, CopyFingerprints, RecordSource, SendCommit, RollsBack, tables
<1>4. ASSUME NEW r \in Runs, ServerCommit(r) PROVE SongsAreAccounted'
  <2>1. NewRecord(r).source = NewSong(r).source /\ NewRecord(r).song = NewSong(r).id
      BY DEF NewRecord, NewSong
  <2>2. QED
      BY <1>1, <1>4, <2>1, CommitAddsRows DEF SongsAreAccounted
<1>5. ASSUME NEW r \in Runs, SetsArtwork(r) PROVE SongsAreAccounted'
    BY <1>1, <1>5, SetArtworkKeepsRows DEF SetsArtwork, TablesTyped, SongsAreAccounted
<1>6. ASSUME NEW s \in songs, AdminDelete(s.id) PROVE UNCHANGED <<songs, ledger>>
    BY <1>6 DEF AdminDelete, Abstract!DropFingerprints
<1>7. ASSUME NEW s \in songs, OperatorDelete(s.id) PROVE SongsAreAccounted'
    BY <1>1, <1>7, OperatorDeleteRemoves DEF TablesTyped, SongsAreAccounted
<1>8. CASE UNCHANGED <<tables, nextId, tx, dropped>>
    BY <1>2, <1>8 DEF tables
<1>9. QED
    BY <1>2, <1>3, <1>4, <1>5, <1>6, <1>7, <1>8, DatabaseSteps

-----------------------------------------------------------------------------
(***************************************************************************)
(* The results.                                                            *)
(***************************************************************************)

\* The invariant holds in every reachable state.
THEOREM Invariance == Spec => []IInv
<1>1. Init => IInv
    BY InitEstablishesIInv
<1>2. IInv /\ [Next]_vars => IInv'
    BY RunsStayTyped, TablesStayTyped, JobStaysAtHand, IdsStayFresh, KeysStayUnique,
       SongsStayAccounted
    DEF IInv, TypeOK
<1>3. QED
    BY <1>1, <1>2, PTL DEF Spec

\* Rows, runs and transactions are well formed, and foreign keys hold, always.
THEOREM TypeCorrect == Spec => []TypeOK
<1>1. IInv => TypeOK
    BY DEF IInv
<1>2. QED
    BY <1>1, Invariance, PTL

\* However many runs there are and whatever befalls them, a file makes at most
\* one song at a time, and that song is the one its ledger row names.
THEOREM NoDuplicateSongs == Spec => []OneSongPerSource
<1>1. IInv => OneSongPerSource
  <2> SUFFICES ASSUME IInv PROVE OneSongPerSource
      OBVIOUS
  <2>1. SongsAreAccounted /\ KeysAreUnique /\ IdsAreFresh
      BY DEF IInv
  <2>2. ASSUME NEW s \in songs, NEW t \in songs, s.source = t.source PROVE s = t
    <3>1. PICK l \in ledger : l.source = s.source /\ l.song = s.id
        BY <2>1 DEF SongsAreAccounted
    <3>2. PICK m \in ledger : m.source = t.source /\ m.song = t.id
        BY <2>1 DEF SongsAreAccounted
    <3>3. l = m
        BY <2>1, <2>2, <3>1, <3>2 DEF KeysAreUnique
    <3>4. s.id = t.id
        BY <3>1, <3>2, <3>3
    <3>5. QED
        BY <2>1, <3>4 DEF IdsAreFresh
  <2>3. QED
      BY <2>1, <2>2 DEF OneSongPerSource, SongsAreAccounted
<1>2. QED
    BY <1>1, Invariance, PTL

-----------------------------------------------------------------------------
(***************************************************************************)
(* What Ingestion promises: every step of the runs is a step of the        *)
(* abstract catalogue or leaves its tables alone, the ledger forgets       *)
(* nothing, and no song lacks its fingerprints.                            *)
(***************************************************************************)

\* A COMMIT is the ingestion of a file in one indivisible step.
LEMMA CommitIngests ==
    ASSUME IInv, NEW r \in Runs, ServerCommit(r)
    PROVE  Abstract!Ingest(tx[r].source, version[r])
<1>1. /\ tx[r].id \in SongIds
      /\ \A s \in songs : s.id # tx[r].id
      /\ tx[r].source \in Sources
    BY CommitAddsRows DEF IInv, IdsAreFresh
<1>2. Holds(r, tx[r].source)
    BY CommitAddsRows DEF Holds
<1>3. ~Abstract!IsIngested(tx[r].source)
    BY <1>1, <1>2 DEF IInv, KeysAreUnique, IsIngested, Abstract!IsIngested
<1>4. NewSong(r).id = tx[r].id /\ NewSong(r).source = tx[r].source
    BY DEF NewSong
<1>5. /\ songs' = songs \cup {NewSong(r)}
      /\ prints' = prints \cup {[song |-> NewSong(r).id, version |-> version[r]]}
      /\ ledger' = ledger \cup
           {[source |-> tx[r].source, song |-> NewSong(r).id, version |-> version[r]]}
    BY <1>4, CommitAddsRows DEF NewPrints, NewRecord
<1>6. NewSong(r) \in songs'
    BY <1>5
<1>7. QED
    BY <1>1, <1>3, <1>4, <1>5, <1>6
    DEF Abstract!Ingest, Abstract!SongIds, Abstract!NoSong, SongIds, NoSong

\* An UPDATE of artwork_url on a song that is gone changes nothing.
LEMMA UpdateIsAbstract ==
    ASSUME IInv, NEW r \in Runs, SetsArtwork(r)
    PROVE  [Abstract!Next]_(Abstract!tables)
<1>1. CASE \E s \in songs : s.id = job[r].song
    BY <1>1 DEF SetsArtwork, Abstract!Next
<1>2. CASE ~ \E s \in songs : s.id = job[r].song
  <2>1. songs' = {IF s.id = job[r].song THEN [s EXCEPT !.art = TRUE] ELSE s : s \in songs}
        /\ UNCHANGED <<prints, ledger>>
      BY DEF SetsArtwork, Abstract!SetArtwork
  <2>2. songs' = songs
      BY <1>2, <2>1
  <2>3. QED
      BY <2>1, <2>2 DEF Abstract!tables
<1>3. QED
    BY <1>1, <1>2

\* Every step of the runs, the server and the operators is a step of Catalog or
\* leaves the tables as they are.
LEMMA StepsAreAbstract == IInv /\ [Next]_vars => [Abstract!Next]_(Abstract!tables)
<1> SUFFICES ASSUME IInv, [Next]_vars PROVE [Abstract!Next]_(Abstract!tables)
    OBVIOUS
<1>1. CASE UNCHANGED tables
    BY <1>1 DEF tables, Abstract!tables
<1>2. ASSUME NEW r \in Runs,
             \/ InsertSong(r) \/ CopyFingerprints(r) \/ RecordSource(r)
             \/ SendCommit(r) \/ RollsBack(r)
      PROVE  UNCHANGED tables
    BY <1>2 DEF InsertSong, CopyFingerprints, RecordSource, SendCommit, RollsBack, tables
<1>3. ASSUME NEW r \in Runs, ServerCommit(r) PROVE Abstract!Next
  <2>1. tx[r].source \in Sources /\ version[r] \in Versions
      BY <1>3, CommitAddsRows DEF IInv, IdsAreFresh, TypeOK, RunsTyped
  <2>2. QED
      BY <1>3, <2>1, CommitIngests DEF Abstract!Next
<1>4. ASSUME NEW r \in Runs, SetsArtwork(r) PROVE [Abstract!Next]_(Abstract!tables)
    BY <1>4, UpdateIsAbstract
<1>5. ASSUME NEW s \in songs, AdminDelete(s.id) \/ OperatorDelete(s.id)
      PROVE  Abstract!Next
    BY <1>5 DEF AdminDelete, OperatorDelete, Abstract!Next
<1>6. CASE UNCHANGED <<tables, nextId, tx, dropped>>
    BY <1>1, <1>6
<1>7. QED
    BY <1>1, <1>2, <1>3, <1>4, <1>5, <1>6, DatabaseSteps

\* The runs implement the abstract catalogue: a file enters it in one step,
\* with song, fingerprints and ledger row, and never twice.
THEOREM Refinement == Spec => RefinesCatalog
<1>1. IInv => Abstract!Init
    BY DEF IInv, IdsAreFresh, SongsAreAccounted, Abstract!Init
<1>2. IInv /\ [Next]_vars => [Abstract!Next]_(Abstract!tables)
    BY StepsAreAbstract
<1>3. QED
    BY <1>1, <1>2, Invariance, PTL DEF Spec, RefinesCatalog, Abstract!Spec

-----------------------------------------------------------------------------
\* What LedgerIsPermanent says of one step.
LedgerKept ==
    \A l \in ledger :
        \E m \in ledger' : /\ m.source = l.source /\ m.version = l.version
                           /\ m.song \in {l.song, NoSong}

LEMMA LedgerStep == IInv /\ [Next]_vars => LedgerKept
<1> SUFFICES ASSUME IInv, [Next]_vars PROVE LedgerKept
    OBVIOUS
<1>1. CASE UNCHANGED ledger
    BY <1>1 DEF LedgerKept
<1>2. ASSUME NEW r \in Runs,
             \/ InsertSong(r) \/ CopyFingerprints(r) \/ RecordSource(r)
             \/ SendCommit(r) \/ RollsBack(r) \/ SetsArtwork(r)
      PROVE  UNCHANGED ledger
    BY <1>2 DEF InsertSong, CopyFingerprints, RecordSource, SendCommit, RollsBack,
       SetsArtwork, Abstract!SetArtwork, tables
<1>3. ASSUME NEW r \in Runs, ServerCommit(r) PROVE LedgerKept
    BY <1>3, CommitAddsRows DEF LedgerKept
<1>4. ASSUME NEW s \in songs, AdminDelete(s.id) PROVE UNCHANGED ledger
    BY <1>4 DEF AdminDelete, Abstract!DropFingerprints
<1>5. ASSUME NEW s \in songs, OperatorDelete(s.id) PROVE LedgerKept
    BY <1>5, OperatorDeleteRemoves DEF LedgerKept, IInv, TypeOK, TablesTyped
<1>6. CASE UNCHANGED <<tables, nextId, tx, dropped>>
    BY <1>1, <1>6 DEF tables
<1>7. QED
    BY <1>1, <1>2, <1>3, <1>4, <1>5, <1>6, DatabaseSteps

\* No step removes a ledger row or points it at another song.
THEOREM LedgerPermanence == Spec => LedgerIsPermanent
<1>1. IInv /\ [Next]_vars => [LedgerKept]_vars
    BY LedgerStep
<1>2. QED
    BY <1>1, Invariance, PTL DEF Spec, LedgerIsPermanent, LedgerKept

-----------------------------------------------------------------------------
\* No song is published without its fingerprints, and none loses them except
\* through an admin.
THEOREM SongsAreWhole == Spec => []NoPartialSong
<1> USE DEF NoPartialSong
<1>1. Init => NoPartialSong
    BY DEF Init
<1>2. IInv /\ NoPartialSong /\ [Next]_vars => NoPartialSong'
  <2> SUFFICES ASSUME IInv, NoPartialSong, [Next]_vars PROVE NoPartialSong'
      OBVIOUS
  <2>1. CASE UNCHANGED <<prints, ledger, dropped>>
      BY <2>1
  <2>2. ASSUME NEW r \in Runs,
               \/ InsertSong(r) \/ CopyFingerprints(r) \/ RecordSource(r)
               \/ SendCommit(r) \/ RollsBack(r) \/ SetsArtwork(r)
        PROVE  UNCHANGED <<prints, ledger, dropped>>
      BY <2>2 DEF InsertSong, CopyFingerprints, RecordSource, SendCommit, RollsBack,
         SetsArtwork, Abstract!SetArtwork, tables
  <2>3. ASSUME NEW r \in Runs, ServerCommit(r) PROVE NoPartialSong'
    <3>1. NewPrints(r) = [song |-> NewRecord(r).song, version |-> NewRecord(r).version]
        BY DEF NewPrints, NewRecord
    <3>2. QED
        BY <2>3, <3>1, CommitAddsRows
  <2>4. ASSUME NEW s \in songs, AdminDelete(s.id) PROVE NoPartialSong'
      BY <2>4 DEF AdminDelete, Abstract!DropFingerprints
  <2>5. ASSUME NEW s \in songs, OperatorDelete(s.id) PROVE NoPartialSong'
    <3>1. ASSUME NEW l \in ledger', l.song # NoSong, l.song \notin dropped
          PROVE  [song |-> l.song, version |-> l.version] \in prints'
      <4>1. PICK m \in ledger :
                /\ l.version = m.version
                /\ l.song = IF m.song = s.id THEN NoSong ELSE m.song
          BY <2>5, OperatorDeleteRemoves DEF IInv, TypeOK, TablesTyped
      <4>2. l.song = m.song /\ l.song # s.id
          BY <3>1, <4>1
      <4>3. [song |-> l.song, version |-> l.version] \in prints
          BY <3>1, <4>1, <4>2
      <4>4. QED
          BY <2>5, <4>2, <4>3, OperatorDeleteRemoves DEF IInv, TypeOK, TablesTyped
    <3>2. UNCHANGED dropped
        BY <2>5 DEF OperatorDelete
    <3>3. QED
        BY <3>1, <3>2
  <2>6. CASE UNCHANGED <<tables, nextId, tx, dropped>>
      BY <2>1, <2>6 DEF tables
  <2>7. QED
      BY <2>1, <2>2, <2>3, <2>4, <2>5, <2>6, DatabaseSteps
<1>3. QED
    BY <1>1, <1>2, Invariance, PTL DEF Spec
-----------------------------------------------------------------------------
(***************************************************************************)
(* What a step may do to the record of one run, as far as the pictures and *)
(* the reports are concerned.                                              *)
(***************************************************************************)
Stays(r, l) == pc[r] = l /\ job'[r] = job[r]

Moves(r) ==
    /\ pc'[r] = "update" => Stays(r, "update") \/ WriteArtwork(r)
    /\ pc'[r] = "ack" => Stays(r, "ack") \/ (ServerCommit(r) /\ Stays(r, "txn"))
    /\ pc'[r] = "txn" =>
          \/ Stays(r, "txn") /\ tx'[r].source = tx[r].source
          \/ InsertSong(r)
    /\ job'[r].art => job'[r] = job[r] \/ WriteArtwork(r)
    /\ \A c \in Sources :
          /\ status'[r][c] = "ingested" =>
                status[r][c] = "ingested" \/ (Stays(r, "ack") /\ job[r].file = c)
          /\ status'[r][c] = "skipped_duplicate" =>
                status[r][c] = "skipped_duplicate" \/ IsIngested(c)

LEMMA RunMoves ==
    ASSUME IInv, [Next]_vars, NEW r \in Runs
    PROVE  Moves(r)
<1>1. RunsTyped
    BY DEF IInv, TypeOK
<1> USE DEF Moves, Stays
<1>2. ASSUME NEW q \in Runs, NEW c \in todo[q],
             Check(q, c) \/ Unreadable(q, c)
      PROVE  Moves(r)
  <2>1. CASE Check(q, c)
      BY <1>1, <2>1 DEF Check, TakeUp, Goto, Report, RunsTyped
  <2>2. CASE Unreadable(q, c)
      BY <1>1, <2>2 DEF Unreadable, TakeUp, GiveUp, Report, RunsTyped
  <2>3. QED
      BY <1>2, <2>1, <2>2
<1>3. ASSUME NEW q \in Runs, NEW c \in todo[q], Select(q, c) PROVE Moves(r)
  <2>1. PICK song : TakeUp(q, c, song)
      BY <1>3 DEF Select
  <2>2. /\ pc[q] = "next" /\ UNCHANGED <<tx, files>>
        /\ \/ UNCHANGED status /\ pc' = [pc EXCEPT ![q] = "dead"]
           \/ UNCHANGED status /\ Goto(q, "next", "artwork")
           \/ Report(q, c, "not_previously_ingested")
           \/ Report(q, c, "already_has_artwork")
      BY <1>3 DEF Select
  <2>3. QED
      BY <1>1, <2>1, <2>2 DEF TakeUp, Goto, Report, RunsTyped
<1>4. ASSUME NEW q \in Runs,
             \/ (\E dir \in SUBSET Sources : Start(q, dir)) \/ FinishRun(q)
             \/ Extract(q) \/ OpenArtwork(q) \/ Crash(q)
      PROVE  Moves(r)
    BY <1>1, <1>4 DEF Start, FinishRun, Extract, OpenArtwork, Crash, Goto, RunsTyped
<1>5. ASSUME NEW q \in Runs, SkipArtwork(q) \/ WriteArtwork(q) PROVE Moves(r)
  <2>1. CASE SkipArtwork(q)
      BY <1>1, <2>1 DEF SkipArtwork, Goto, Report, RunsTyped
  <2>2. CASE WriteArtwork(q) /\ q = r
      BY <1>1, <2>2 DEF WriteArtwork, AfterArtwork, Goto, RunsTyped
  <2>3. CASE WriteArtwork(q) /\ q # r
      BY <1>1, <2>3 DEF WriteArtwork, AfterArtwork, Goto, RunsTyped
  <2>4. QED
      BY <1>5, <2>1, <2>2, <2>3
<1>6. ASSUME NEW q \in Runs, InsertSong(q) PROVE Moves(r)
  <2>1. CASE q = r
      BY <1>1, <1>6, <2>1 DEF InsertSong, Goto, RunsTyped
  <2>2. CASE q # r
      BY <1>1, <1>6, <2>2 DEF InsertSong, Goto, RunsTyped
  <2>3. QED
      BY <2>1, <2>2
<1>7. ASSUME NEW q \in Runs, CopyFingerprints(q) \/ RecordSource(q) \/ SendCommit(q)
      PROVE  Moves(r)
  <2>1. tx'[r].source = tx[r].source
    <3>1. CASE q = r
        BY <1>1, <1>7, <3>1 DEF CopyFingerprints, RecordSource, SendCommit, RunsTyped,
           Transactions
    <3>2. CASE q # r
        BY <1>1, <1>7, <3>2 DEF CopyFingerprints, RecordSource, SendCommit, RunsTyped
    <3>3. QED
        BY <3>1, <3>2
  <2>2. UNCHANGED <<pc, job, status>>
      BY <1>7 DEF CopyFingerprints, RecordSource, SendCommit, run
  <2>3. QED
      BY <2>1, <2>2
<1>8. ASSUME NEW q \in Runs, ServerCommit(q) PROVE Moves(r)
  <2>1. CASE q = r
      BY <1>1, <1>8, <2>1 DEF ServerCommit, RunsTyped
  <2>2. CASE q # r
      BY <1>1, <1>8, <2>2 DEF ServerCommit, RunsTyped
  <2>3. QED
      BY <2>1, <2>2
<1>9. ASSUME NEW q \in Runs, ServerAbort(q) PROVE Moves(r)
    BY <1>1, <1>9 DEF ServerAbort, run, RunsTyped
<1>10. ASSUME NEW q \in Runs, RejectSource(q) \/ ReceiveAck(q) \/ UpdateArtwork(q)
       PROVE  Moves(r)
  <2>1. CASE RejectSource(q)
      BY <1>1, <2>1 DEF RejectSource, Report, RunsTyped
  <2>2. CASE ReceiveAck(q)
      BY <1>1, <2>2 DEF ReceiveAck, Report, RunsTyped
  <2>3. CASE UpdateArtwork(q)
      BY <1>1, <2>3 DEF UpdateArtwork, Report, RunsTyped
  <2>4. QED
      BY <1>10, <2>1, <2>2, <2>3
<1>11. ASSUME NEW q \in Runs, UpdateUnanswered(q) PROVE Moves(r)
    BY <1>1, <1>11 DEF UpdateUnanswered, Goto, RunsTyped
<1>12. ASSUME NEW q \in Runs,
              FileFails(q) \/ StatementFails(q) \/ UseLostConnection(q)
       PROVE  Moves(r)
    BY <1>1, <1>12 DEF FileFails, StatementFails, UseLostConnection, GiveUp, Report,
       RunsTyped
<1>13. ASSUME NEW q \in Runs, LoseConnection(q) PROVE Moves(r)
    BY <1>1, <1>13 DEF LoseConnection, GiveUp, Report, RunsTyped
<1>14. ASSUME NEW s \in songs, AdminDelete(s.id) \/ OperatorDelete(s.id) PROVE Moves(r)
    BY <1>14 DEF AdminDelete, OperatorDelete, run
<1>15. CASE UNCHANGED vars
    BY <1>15 DEF vars, run
<1>16. QED
    BY <1>2, <1>3, <1>4, <1>5, <1>6, <1>7, <1>8, <1>9, <1>10, <1>11, <1>12, <1>13,
       <1>14, <1>15
    DEF Next, Work, Server, Trouble
-----------------------------------------------------------------------------
(***************************************************************************)
(* Artwork.  A run that has written a picture, the transaction that is to  *)
(* name it and the backfill that is to add its URL all stand for a file    *)
(* that exists; an UPDATE goes to the song of the file at hand, because an *)
(* id is never given to another song.                                      *)
(***************************************************************************)
LedgerNames == \A l \in ledger, s \in songs : l.song = s.id => l.source = s.source

JobName(r) ==
    job[r].song # NoSong =>
        /\ job[r].song < nextId
        /\ \A s \in songs : s.id = job[r].song => s.source = job[r].file
        /\ \A q \in Runs : tx[q].stage # "none" => tx[q].id # job[r].song

Picture(r) ==
    /\ job[r].art => job[r].file \in Sources /\ files[job[r].file] # "absent"
    /\ tx[r].stage # "none" /\ tx[r].art => files[tx[r].source] # "absent"
    /\ pc[r] = "update" => job[r].art

ArtInv ==
    /\ LedgerNames
    /\ \A r \in Runs : JobName(r) /\ Picture(r)
    /\ ArtworkIsThere

\* What a step does to the job of a run, and what it leaves alone then.
LEMMA JobSteps ==
    ASSUME [Next]_vars
    PROVE  \/ UNCHANGED job
           \/ /\ UNCHANGED <<tables, nextId, tx, files>>
              /\ \E r \in Runs : \E c \in todo[r] :
                    \/ TakeUp(r, c, NoSong)
                    \/ \E s \in SongOf(c) : TakeUp(r, c, s.id)
           \/ \E r \in Runs : WriteArtwork(r)
<1>1. ASSUME NEW r \in Runs, NEW c \in todo[r],
             Check(r, c) \/ Select(r, c) \/ Unreadable(r, c)
      PROVE  /\ UNCHANGED <<tables, nextId, tx, files>>
             /\ \/ TakeUp(r, c, NoSong)
                \/ \E s \in SongOf(c) : TakeUp(r, c, s.id)
    BY <1>1 DEF Check, Select, Unreadable
<1>2. ASSUME NEW r \in Runs,
             \/ (\E dir \in SUBSET Sources : Start(r, dir)) \/ FinishRun(r)
             \/ Extract(r) \/ SkipArtwork(r) \/ OpenArtwork(r) \/ InsertSong(r)
             \/ CopyFingerprints(r) \/ RecordSource(r) \/ RejectSource(r)
             \/ SendCommit(r) \/ ReceiveAck(r) \/ UpdateArtwork(r)
             \/ UseLostConnection(r) \/ Server(r) \/ FileFails(r)
             \/ StatementFails(r) \/ UpdateUnanswered(r)
             \/ LoseConnection(r) \/ Crash(r)
      PROVE  UNCHANGED job
    BY <1>2 DEF Start, FinishRun, Extract, SkipArtwork, OpenArtwork, InsertSong,
       CopyFingerprints, RecordSource, RejectSource, SendCommit, ReceiveAck,
       UpdateArtwork, UseLostConnection, Server, ServerCommit, ServerAbort, FileFails,
       StatementFails, UpdateUnanswered, LoseConnection, Crash, run
<1>3. ASSUME NEW s \in songs, AdminDelete(s.id) \/ OperatorDelete(s.id)
      PROVE  UNCHANGED job
    BY <1>3 DEF AdminDelete, OperatorDelete, run
<1>4. CASE UNCHANGED vars
    BY <1>4 DEF vars, run
<1>5. QED
    BY <1>1, <1>2, <1>3, <1>4 DEF Next, Work, Trouble

\* A picture that has been opened is never absent again.
LEMMA FilesStay ==
    ASSUME IInv, [Next]_vars, NEW c \in Sources, files[c] # "absent"
    PROVE  files'[c] # "absent"
<1>1. files \in [Sources -> {"absent", "partial", "whole"}]
    BY DEF IInv, TypeOK, TablesTyped
<1>2. CASE UNCHANGED files
    BY <1>2
<1>3. ASSUME NEW r \in Runs, OpenArtwork(r) \/ WriteArtwork(r)
      PROVE  files'[c] # "absent"
    BY <1>1, <1>3 DEF OpenArtwork, WriteArtwork
<1>4. QED
    BY <1>2, <1>3, FileSteps

LEMMA LedgerNamesStep == IInv /\ LedgerNames /\ [Next]_vars => LedgerNames'
<1> SUFFICES ASSUME IInv, LedgerNames, [Next]_vars PROVE LedgerNames'
    OBVIOUS
<1>1. TablesTyped /\ KeysRefer /\ IdsAreFresh
    BY DEF IInv, TypeOK
<1>2. CASE UNCHANGED <<songs, ledger>>
    BY <1>2 DEF LedgerNames
<1>3. ASSUME NEW r \in Runs,
             \/ InsertSong(r) \/ CopyFingerprints(r) \/ RecordSource(r)
             \/ SendCommit(r) \/ RollsBack(r)
      PROVE  UNCHANGED <<songs, ledger>>
    BY <1>3 DEF InsertSong, CopyFingerprints, RecordSource, SendCommit, RollsBack, tables
<1>4. ASSUME NEW r \in Runs, ServerCommit(r) PROVE LedgerNames'
  <2>1. /\ NewRecord(r).source = NewSong(r).source /\ NewRecord(r).song = tx[r].id
        /\ NewSong(r).id = tx[r].id
      BY DEF NewRecord, NewSong
  <2>2. tx[r].id # NoSong /\ \A s \in songs : s.id # tx[r].id
      BY <1>1, <1>4, CommitAddsRows DEF IdsAreFresh, SongIds
  <2>3. \A l \in ledger : l.song # tx[r].id
      BY <1>1, <2>2 DEF KeysRefer
  <2>4. songs' = songs \cup {NewSong(r)} /\ ledger' = ledger \cup {NewRecord(r)}
      BY <1>4, CommitAddsRows
  <2>5. QED
      BY <2>1, <2>2, <2>3, <2>4 DEF LedgerNames
<1>5. ASSUME NEW r \in Runs, SetsArtwork(r) PROVE LedgerNames'
    BY <1>1, <1>5, SetArtworkKeepsRows DEF SetsArtwork, TablesTyped, LedgerNames
<1>6. ASSUME NEW s \in songs, AdminDelete(s.id) PROVE UNCHANGED <<songs, ledger>>
    BY <1>6 DEF AdminDelete, Abstract!DropFingerprints
<1>7. ASSUME NEW s \in songs, OperatorDelete(s.id) PROVE LedgerNames'
  <2>1. \A t \in songs : t.id # NoSong
      BY <1>1 DEF TablesTyped, SongRows, SongIds
  <2>2. QED
      BY <1>1, <1>7, <2>1, OperatorDeleteRemoves DEF TablesTyped, LedgerNames
<1>8. CASE UNCHANGED <<tables, nextId, tx, dropped>>
    BY <1>2, <1>8 DEF tables
<1>9. QED
    BY <1>2, <1>3, <1>4, <1>5, <1>6, <1>7, <1>8, DatabaseSteps

LEMMA JobNameStep ==
    ASSUME IInv, LedgerNames, [Next]_vars, \A r \in Runs : JobName(r), NEW r \in Runs
    PROVE  JobName(r)'
<1>1. TablesTyped /\ RunsTyped /\ IdsAreFresh
    BY DEF IInv, TypeOK
<1>2. /\ job[r].song \in SongIds \cup {NoSong} /\ nextId \in Nat
      /\ nextId < nextId + 1 /\ SongIds \subseteq Nat
    BY <1>1 DEF TablesTyped, RunsTyped, Jobs, SongIds, NoSong
<1>3. CASE UNCHANGED job
  <2>1. CASE UNCHANGED <<tables, nextId, tx>>
      BY <1>3, <2>1 DEF JobName, tables
  <2>2. ASSUME NEW q \in Runs, InsertSong(q) PROVE JobName(r)'
    <3>1. /\ tx'[q].id = nextId /\ \A p \in Runs \ {q} : tx'[p] = tx[p]
          /\ UNCHANGED songs /\ nextId' = nextId + 1
        BY <1>1, <2>2 DEF InsertSong, RunsTyped, tables
    <3>2. job[r].song # NoSong => job[r].song < nextId' /\ job[r].song # nextId
        BY <1>2, <3>1 DEF JobName, SongIds
    <3>3. QED
        BY <1>3, <3>1, <3>2 DEF JobName
  <2>3. ASSUME NEW q \in Runs, CopyFingerprints(q) \/ RecordSource(q) \/ SendCommit(q)
        PROVE  JobName(r)'
    <3>1. /\ tx[q].stage # "none" /\ tx'[q].id = tx[q].id
          /\ \A p \in Runs \ {q} : tx'[p] = tx[p]
          /\ UNCHANGED <<songs, nextId>>
        BY <1>1, <2>3 DEF CopyFingerprints, RecordSource, SendCommit, RunsTyped,
           Transactions, tables
    <3>2. QED
        BY <1>3, <3>1 DEF JobName
  <2>4. ASSUME NEW q \in Runs, RollsBack(q) PROVE JobName(r)'
      BY <1>1, <1>3, <2>4 DEF RollsBack, RunsTyped, NoTx, JobName, tables
  <2>5. ASSUME NEW q \in Runs, ServerCommit(q) PROVE JobName(r)'
    <3>1. /\ tx'[q].stage = "none" /\ tx[q].stage # "none"
          /\ \A p \in Runs \ {q} : tx'[p] = tx[p]
          /\ songs' = songs \cup {NewSong(q)} /\ UNCHANGED nextId
        BY <1>1, <2>5, CommitAddsRows DEF RunsTyped, NoTx
    <3>2. NewSong(q).id = tx[q].id
        BY DEF NewSong
    <3>3. QED
        BY <1>3, <3>1, <3>2 DEF JobName
  <2>6. ASSUME NEW q \in Runs, SetsArtwork(q) PROVE JobName(r)'
    <3>1. \A s \in songs' : \E t \in songs : s.id = t.id /\ s.source = t.source
        BY <1>1, <2>6, SetArtworkKeepsRows DEF SetsArtwork, TablesTyped
    <3>2. QED
        BY <1>3, <2>6, <3>1 DEF JobName, SetsArtwork
  <2>7. ASSUME NEW s \in songs, AdminDelete(s.id) PROVE JobName(r)'
      BY <1>3, <2>7 DEF AdminDelete, Abstract!DropFingerprints, JobName
  <2>8. ASSUME NEW s \in songs, OperatorDelete(s.id) PROVE JobName(r)'
      BY <1>1, <1>3, <2>8, OperatorDeleteRemoves DEF TablesTyped, JobName
  <2>9. QED
      BY <2>1, <2>2, <2>3, <2>4, <2>5, <2>6, <2>7, <2>8, DatabaseSteps
<1>4. ASSUME UNCHANGED <<tables, nextId, tx>>,
             NEW q \in Runs, NEW c \in todo[q], NEW song,
             TakeUp(q, c, song), song = NoSong \/ \E s \in SongOf(c) : song = s.id
      PROVE  JobName(r)'
  <2>1. CASE r = q
    <3>1. job'[r].song = song /\ job'[r].file = c
        BY <1>1, <1>4, <2>1 DEF TakeUp, RunsTyped
    <3>2. CASE song = NoSong
        BY <3>1, <3>2 DEF JobName
    <3>3. ASSUME NEW s \in SongOf(c), song = s.id PROVE JobName(r)'
      <4>1. s \in songs /\ s.source = c
          BY DEF SongOf, LedgerNames
      <4>2. /\ song < nextId
            /\ \A t \in songs : t.id = song => t.source = c
            /\ \A p \in Runs : tx[p].stage # "none" => tx[p].id # song
          BY <1>1, <3>3, <4>1 DEF IdsAreFresh
      <4>3. QED
          BY <1>4, <3>1, <4>2 DEF JobName, tables
    <3>4. QED
        BY <1>4, <3>2, <3>3
  <2>2. CASE r # q
    <3>1. job'[r] = job[r]
        BY <1>1, <1>4, <2>2 DEF TakeUp, RunsTyped
    <3>2. QED
        BY <1>4, <3>1 DEF JobName, tables
  <2>3. QED
      BY <2>1, <2>2
<1>5. ASSUME NEW q \in Runs, WriteArtwork(q) PROVE JobName(r)'
  <2>1. job'[r].song = job[r].song /\ job'[r].file = job[r].file
      BY <1>1, <1>5 DEF WriteArtwork, RunsTyped, Jobs
  <2>2. UNCHANGED <<songs, nextId, tx>>
      BY <1>5 DEF WriteArtwork, tables
  <2>3. QED
      BY <2>1, <2>2 DEF JobName
<1>6. QED
    BY <1>3, <1>4, <1>5, JobSteps

\* What a step does to the transaction of a run.
LEMMA TxSteps ==
    ASSUME RunsTyped, [Next]_vars, NEW r \in Runs
    PROVE  \/ tx'[r].stage = "none"
           \/ InsertSong(r)
           \/ /\ tx[r].stage # "none"
              /\ tx'[r].art = tx[r].art /\ tx'[r].source = tx[r].source
<1>1. CASE UNCHANGED tx
    BY <1>1
<1>2. ASSUME NEW q \in Runs, NEW t, tx' = [tx EXCEPT ![q] = t],
             \/ t.stage = "none"
             \/ /\ tx[q].stage # "none"
                /\ t.art = tx[q].art /\ t.source = tx[q].source
      PROVE  \/ tx'[r].stage = "none"
             \/ /\ tx[r].stage # "none"
                /\ tx'[r].art = tx[r].art /\ tx'[r].source = tx[r].source
    BY <1>2 DEF RunsTyped
<1>3. ASSUME NEW q \in Runs, CopyFingerprints(q) \/ RecordSource(q) \/ SendCommit(q)
      PROVE  /\ tx[r].stage # "none" \/ tx'[r].stage = "none"
             /\ tx'[r].art = tx[r].art /\ tx'[r].source = tx[r].source
  <2>1. CASE q = r
      BY <1>3, <2>1 DEF CopyFingerprints, RecordSource, SendCommit, RunsTyped, Transactions
  <2>2. CASE q # r
      BY <1>3, <2>2 DEF CopyFingerprints, RecordSource, SendCommit, RunsTyped
  <2>3. QED
      BY <2>1, <2>2
<1>4. ASSUME NEW q \in Runs, RollsBack(q) \/ ServerCommit(q)
      PROVE  tx' = [tx EXCEPT ![q] = NoTx]
    BY <1>4 DEF RollsBack, ServerCommit
<1>5. NoTx.stage = "none"
    BY DEF NoTx
<1>6. ASSUME NEW q \in Runs, InsertSong(q), q # r PROVE tx'[r] = tx[r]
    BY <1>6 DEF InsertSong, RunsTyped
<1>7. ASSUME NEW q \in Runs, SetsArtwork(q) PROVE UNCHANGED tx
    BY <1>7 DEF SetsArtwork
<1>8. ASSUME NEW s \in songs, AdminDelete(s.id) \/ OperatorDelete(s.id)
      PROVE  UNCHANGED tx
    BY <1>8 DEF AdminDelete, OperatorDelete
<1>9. QED
    BY <1>1, <1>2, <1>3, <1>4, <1>5, <1>6, <1>7, <1>8, DatabaseSteps

LEMMA PictureStep ==
    ASSUME IInv, ArtInv, [Next]_vars, NEW r \in Runs
    PROVE  Picture(r)'
<1>1. /\ RunsTyped /\ JobAtHand /\ IdsAreFresh /\ Picture(r) /\ Moves(r)
      /\ files \in [Sources -> {"absent", "partial", "whole"}]
    BY RunMoves DEF IInv, TypeOK, TablesTyped, ArtInv
<1>2. ASSUME WriteArtwork(r)
      PROVE  job'[r].art /\ job'[r].file \in Sources /\ files'[job'[r].file] # "absent"
    BY <1>1, <1>2 DEF WriteArtwork, Goto, RunsTyped, Jobs, JobAtHand
<1>3. job'[r].art => job'[r].file \in Sources /\ files'[job'[r].file] # "absent"
    BY <1>1, <1>2, FilesStay DEF Moves, Picture
<1>4. pc'[r] = "update" => job'[r].art
    BY <1>1, <1>2 DEF Moves, Stays, Picture
<1>5. tx'[r].stage # "none" /\ tx'[r].art => files'[tx'[r].source] # "absent"
  <2>1. CASE tx'[r].stage = "none"
      BY <2>1
  <2>2. CASE /\ tx[r].stage # "none"
             /\ tx'[r].art = tx[r].art /\ tx'[r].source = tx[r].source
    <3>1. tx[r].source \in Sources
        BY <1>1, <2>2 DEF IdsAreFresh
    <3>2. QED
        BY <1>1, <2>2, <3>1, FilesStay DEF Picture
  <2>3. CASE InsertSong(r)
      BY <1>1, <2>3 DEF InsertSong, Picture, RunsTyped
  <2>4. \/ tx'[r].stage = "none" \/ InsertSong(r)
        \/ /\ tx[r].stage # "none"
           /\ tx'[r].art = tx[r].art /\ tx'[r].source = tx[r].source
      BY <1>1, TxSteps
  <2>5. QED
      BY <2>1, <2>2, <2>3, <2>4
<1>6. QED
    BY <1>3, <1>4, <1>5 DEF Picture
LEMMA ArtworkStep ==
    ASSUME IInv, ArtInv, [Next]_vars
    PROVE  ArtworkIsThere'
<1>1. /\ TablesTyped /\ IdsAreFresh /\ ArtworkIsThere
      /\ \A r \in Runs : JobName(r) /\ Picture(r)
    BY DEF IInv, TypeOK, ArtInv
<1>2. ASSUME NEW s \in songs, s.art PROVE files'[s.source] # "absent"
  <2>1. s.source \in Sources
      BY <1>1 DEF TablesTyped, SongRows
  <2>2. QED
      BY <1>1, <1>2, <2>1, FilesStay DEF ArtworkIsThere
<1>3. CASE UNCHANGED songs
    BY <1>2, <1>3 DEF ArtworkIsThere
<1>4. ASSUME NEW r \in Runs,
             \/ InsertSong(r) \/ CopyFingerprints(r) \/ RecordSource(r)
             \/ SendCommit(r) \/ RollsBack(r)
      PROVE  UNCHANGED songs
    BY <1>4 DEF InsertSong, CopyFingerprints, RecordSource, SendCommit, RollsBack, tables
<1>5. ASSUME NEW r \in Runs, ServerCommit(r) PROVE ArtworkIsThere'
  <2>1. NewSong(r).art = tx[r].art /\ NewSong(r).source = tx[r].source
      BY DEF NewSong
  <2>2. tx[r].stage # "none" /\ tx[r].source \in Sources
      BY <1>1, <1>5, CommitAddsRows DEF IdsAreFresh
  <2>3. tx[r].art => files'[tx[r].source] # "absent"
      BY <1>1, <2>2, FilesStay DEF Picture
  <2>4. songs' = songs \cup {NewSong(r)}
      BY <1>5, CommitAddsRows
  <2>5. QED
      BY <1>2, <2>1, <2>3, <2>4 DEF ArtworkIsThere
<1>6. ASSUME NEW r \in Runs, SetsArtwork(r) PROVE ArtworkIsThere'
  <2>1. job[r].file \in Sources /\ files[job[r].file] # "absent"
      BY <1>1, <1>6 DEF SetsArtwork, Picture
  <2>2. files'[job[r].file] # "absent"
      BY <2>1, FilesStay
  <2>3. SUFFICES ASSUME NEW s \in songs', s.art PROVE files'[s.source] # "absent"
      BY DEF ArtworkIsThere
  <2>4. PICK t \in songs : s = Updated(t, job[r].song) /\ s.source = t.source
      BY <1>1, <1>6, SetArtworkKeepsRows DEF SetsArtwork, TablesTyped
  <2>5. CASE t.id = job[r].song
    <3>1. t.id # NoSong
        BY <1>1 DEF TablesTyped, SongRows, SongIds
    <3>2. t.source = job[r].file
        BY <1>1, <2>5, <3>1 DEF JobName
    <3>3. QED
        BY <2>2, <2>4, <3>2
  <2>6. CASE t.id # job[r].song
    <3>1. s = t
        BY <2>4, <2>6 DEF Updated
    <3>2. QED
        BY <1>2, <2>3, <3>1
  <2>7. QED
      BY <2>5, <2>6
<1>7. ASSUME NEW s \in songs, AdminDelete(s.id) PROVE UNCHANGED songs
    BY <1>7 DEF AdminDelete, Abstract!DropFingerprints
<1>8. ASSUME NEW s \in songs, OperatorDelete(s.id) PROVE ArtworkIsThere'
    BY <1>1, <1>2, <1>8, OperatorDeleteRemoves DEF TablesTyped, ArtworkIsThere
<1>9. CASE UNCHANGED <<tables, nextId, tx, dropped>>
    BY <1>3, <1>9 DEF tables
<1>10. QED
    BY <1>3, <1>4, <1>5, <1>6, <1>7, <1>8, <1>9, DatabaseSteps

LEMMA ArtInit == Init => ArtInv
<1> SUFFICES ASSUME Init PROVE ArtInv
    OBVIOUS
<1>1. \A s \in songs : s.art = FALSE
    BY DEF Init
<1>2. \A r \in Runs : JobName(r) /\ Picture(r)
    BY DEF Init, NoJob, NoTx, JobName, Picture
<1>3. LedgerNames
  <2> SUFFICES ASSUME NEW l \in ledger, NEW s \in songs, l.song = s.id
               PROVE  l.source = s.source
      BY DEF LedgerNames
  <2>1. PICK c \in Legacy : l.source = c /\ l.song = LegacyId[c]
      BY DEF Init
  <2>2. PICK d \in Legacy : s.source = d /\ s.id = LegacyId[d]
      BY DEF Init
  <2>3. QED
      BY <2>1, <2>2, IngestionAssumption
<1>4. QED
    BY <1>1, <1>2, <1>3 DEF ArtInv, ArtworkIsThere

\* A song that has an artwork URL has a file behind it: no order of runs,
\* crashes, lost answers and deletions publishes a URL of nothing, nor gives
\* one song the picture's URL of another (ingestion.py 266-269, 322-327).
THEOREM ArtworkExists == Spec => []ArtworkIsThere
<1>1. IInv /\ ArtInv /\ [Next]_vars => ArtInv'
    BY LedgerNamesStep, JobNameStep, PictureStep, ArtworkStep DEF ArtInv
<1>2. ArtInv => ArtworkIsThere
    BY DEF ArtInv
<1>3. QED
    BY <1>1, <1>2, ArtInit, Invariance, PTL DEF Spec

-----------------------------------------------------------------------------
(***************************************************************************)
(* Reports.  A run claims a file once its transaction has been committed   *)
(* under its eyes.  The key of the ledger lets one transaction commit a    *)
(* file, ever, so that no two runs can claim it.                           *)
(***************************************************************************)
Claims(r, c) == status[r][c] = "ingested" \/ (pc[r] = "ack" /\ job[r].file = c)

ReportInv ==
    /\ \A r \in Runs : pc[r] = "txn" => tx[r].source = job[r].file
    /\ \A c \in Sources, r \in Runs :
          /\ status[r][c] = "skipped_duplicate" => IsIngested(c)
          /\ Claims(r, c) => IsIngested(c) /\ \A q \in Runs : Claims(q, c) => q = r

LEMMA ReportInit == Init => ReportInv
    BY DEF Init, ReportInv, Claims

LEMMA IngestedStays ==
    ASSUME IInv, [Next]_vars, NEW c, IsIngested(c)
    PROVE  IsIngested(c)'
    BY LedgerStep DEF LedgerKept, IsIngested

\* A run that comes to claim a file has committed it in this very step.
LEMMA NewClaims ==
    ASSUME IInv, ReportInv, [Next]_vars, NEW r \in Runs, NEW c \in Sources, Claims(r, c)'
    PROVE  \/ Claims(r, c)
           \/ ServerCommit(r) /\ tx[r].source = c
<1>1. Moves(r)
    BY RunMoves
<1>2. CASE status'[r][c] = "ingested"
    BY <1>1, <1>2 DEF Moves, Stays, Claims
<1>3. CASE pc'[r] = "ack" /\ job'[r].file = c
  <2>1. CASE Stays(r, "ack")
      BY <1>3, <2>1 DEF Stays, Claims
  <2>2. CASE ServerCommit(r) /\ Stays(r, "txn")
      BY <1>3, <2>2 DEF Stays, ReportInv
  <2>3. QED
      BY <1>1, <1>3, <2>1, <2>2 DEF Moves
<1>4. QED
    BY <1>2, <1>3 DEF Claims

LEMMA ReportStep == IInv /\ ReportInv /\ [Next]_vars => ReportInv'
<1> SUFFICES ASSUME IInv, ReportInv, [Next]_vars PROVE ReportInv'
    OBVIOUS
<1>1. ASSUME NEW r \in Runs, pc'[r] = "txn" PROVE tx'[r].source = job'[r].file
  <2>1. CASE Stays(r, "txn") /\ tx'[r].source = tx[r].source
      BY <2>1 DEF Stays, ReportInv
  <2>2. CASE InsertSong(r)
      BY <2>2 DEF InsertSong, IInv, TypeOK, RunsTyped
  <2>3. QED
      BY <1>1, <2>1, <2>2, RunMoves DEF Moves
<1>2. ASSUME NEW c \in Sources, NEW r \in Runs, status'[r][c] = "skipped_duplicate"
      PROVE  IsIngested(c)'
    BY <1>2, RunMoves, IngestedStays DEF Moves, ReportInv
\* Before the COMMIT nobody has the file, so that nobody claims it ...
<1>3. ASSUME NEW c \in Sources, NEW r \in Runs, ServerCommit(r), tx[r].source = c
      PROVE  IsIngested(c)' /\ \A q \in Runs : ~Claims(q, c)
  <2>1. Holds(r, c) /\ NewRecord(r) \in ledger' /\ NewRecord(r).source = c
      BY <1>3, CommitAddsRows DEF Holds, NewRecord
  <2>2. ~IsIngested(c)
      BY <2>1 DEF IInv, KeysAreUnique
  <2>3. QED
      BY <2>1, <2>2 DEF ReportInv, IsIngested
\* ... and a COMMIT is a step of one run.
<1>4. ASSUME NEW r \in Runs, NEW q \in Runs, ServerCommit(r), ServerCommit(q)
      PROVE  r = q
  <2>1. tx[r].stage = "commit" /\ tx'[r].stage = "none"
      BY <1>4, CommitAddsRows DEF IInv, TypeOK, RunsTyped, NoTx
  <2>2. r # q => tx'[r] = tx[r]
      BY <1>4, CommitAddsRows DEF IInv, TypeOK, RunsTyped
  <2>3. QED
      BY <2>1, <2>2
<1>5. ASSUME NEW c \in Sources, NEW r \in Runs, Claims(r, c)'
      PROVE  IsIngested(c)' /\ \A q \in Runs : Claims(q, c)' => q = r
  <2>1. CASE \E p \in Runs : ServerCommit(p) /\ tx[p].source = c
      BY <1>3, <1>4, <1>5, <2>1, NewClaims
  <2>2. CASE ~ \E p \in Runs : ServerCommit(p) /\ tx[p].source = c
      BY <1>5, <2>2, NewClaims, IngestedStays DEF ReportInv
  <2>3. QED
      BY <2>1, <2>2
<1>6. QED
    BY <1>1, <1>2, <1>5 DEF ReportInv

\* What a run reports is so: "ingested" and "skipped_duplicate" both mean that
\* the ledger has the file, and of all the runs that ever meet a file, one at
\* most has ingested it (ingestion.py 261-286).
THEOREM ReportsTrue == Spec => []ReportsAreTrue
<1>1. ReportInv => ReportsAreTrue
  <2> SUFFICES ASSUME ReportInv, NEW c \in Sources
               PROVE  /\ \A r \in Runs :
                            status[r][c] \in {"ingested", "skipped_duplicate"} => IsIngested(c)
                      /\ Cardinality({r \in Runs : status[r][c] = "ingested"}) <= 1
      BY DEF ReportsAreTrue
  <2> DEFINE Claimants == {r \in Runs : status[r][c] = "ingested"}
  <2>1. \A r \in Runs : status[r][c] \in {"ingested", "skipped_duplicate"} => IsIngested(c)
      BY DEF ReportInv, Claims
  <2>2. \A r, q \in Claimants : r = q
      BY DEF ReportInv, Claims
  <2>3. Cardinality(Claimants) <= 1
    <3>1. CASE Claimants = {}
        BY <3>1, FS_EmptySet
    <3>2. CASE Claimants # {}
      <4>1. PICK r \in Claimants : TRUE
          BY <3>2
      <4>2. Claimants = {r}
          BY <2>2, <4>1
      <4> HIDE DEF Claimants
      <4>3. Cardinality({r}) = 1
          BY FS_Singleton
      <4>4. QED
          BY <4>2, <4>3
    <3>3. QED
        BY <3>1, <3>2
  <2>4. QED
      BY <2>1, <2>3
<1>2. QED
    BY <1>1, ReportInit, ReportStep, Invariance, PTL DEF Spec
=============================================================================
