----------------------------- MODULE Recognition ----------------------------
(***************************************************************************)
(* One recognition, from the client's upload to its audit row and back:    *)
(* the routes and their time limit (backend/src/routes/mod.rs), the        *)
(* handlers (handlers/recognition_handler.rs), RecognitionService, the     *)
(* processor's client (fingerprint/client.rs), RecognitionRepository, the  *)
(* start and stop of the backend (main.rs) and the retry of the phone      *)
(* (android RecognitionRepository.kt).                                     *)
(*                                                                         *)
(* A handler is a future that is dropped at whatever it awaits when its    *)
(* time is up or its client is gone; a step of a handler ends at an await. *)
(* The limiter's verdict and the matching engine's choice are left open    *)
(* (RateLimiter and MatchingEngine say more).                              *)
(***************************************************************************)
EXTENDS Naturals, FiniteSets

CONSTANTS
    Clients, Songs, Versions,
    Expected,   \* FINGERPRINT_ALGORITHM_VERSION
    Uploads,    \* the kinds of request body that are sent, among AllUploads
    MaxAttempts,    \* of the phone: 2
    MaxStops    \* bound: stops and crashes of the backend

AllUploads ==
    {"wav",         \* a file with an audio type: what the phone sends
     "text",        \* a file of another type
     "empty",       \* an audio field without a byte
     "missing",     \* no audio field
     "oversize",    \* more than MAX_AUDIO_BYTES
     "malformed",   \* neither multipart nor JSON
     "json"}        \* fingerprints, for POST /api/v1/recognitions

NoSong == "none"

ASSUME RecognitionAssumption ==
    /\ Expected \in Versions
    /\ Uploads \subseteq AllUploads
    /\ NoSong \notin Songs
    /\ MaxAttempts \in Nat \ {0} /\ MaxStops \in Nat

VARIABLES
    client,     \* [state, upload, attempt] of every client
    req,        \* the handler of every request
    songs,      \* the songs there are
    log,        \* the recognitions table
    nextId,     \* its sequence
    tally,      \* recognition_success_total and recognition_failure_total
    backend,    \* "up", "draining" (graceful shutdown) or "down"
    stops       \* stops and crashes so far

vars == <<client, req, songs, log, nextId, tally, backend, stops>>
shared == <<songs, log, nextId>>
process == <<backend, stops>>

Requests == Clients \X (1..MaxAttempts)

\* The request whose answer a client waits for.
Current(c) == <<c, client[c].attempt>>

\* AppError::status
Status == [MissingAudio |-> 422, InvalidAudio |-> 422, BadRequest |-> 400,
           ProcessorRejected |-> 422, ProcessorUnavailable |-> 502,
           AlgorithmVersionMismatch |-> 409, RateLimited |-> 429, Database |-> 500,
           RecognitionNotFound |-> 404]
OK == 200
REQUEST_TIMEOUT == 408
NoStatus == 0

Awaits == {"body", "extract", "lookup", "fetch", "record"}
PCs == {"unsent", "sent", "ended"} \cup Awaits

NewHandler == [pc |-> "unsent", song |-> NoSong, version |-> Expected,
               insert |-> "none", status |-> NoStatus, id |-> 0]

NoTally == [success |-> 0, failure |-> 0]

Init ==
    /\ client = [c \in Clients |-> [state |-> "idle", upload |-> "wav", attempt |-> 0]]
    /\ req = [r \in Requests |-> NewHandler]
    /\ songs = Songs
    /\ log = {}
    /\ nextId = 1
    /\ tally = NoTally
    /\ backend = "up"
    /\ stops = 0

-----------------------------------------------------------------------------
(***************************************************************************)
(* The client.  DefaultRecognitionRepository sends the same recording at   *)
(* most twice, the second time only after an IOException.                  *)
(***************************************************************************)
Send(c, upload) ==
    /\ client' = [client EXCEPT ![c] = [state |-> "waiting", upload |-> upload,
                                        attempt |-> @.attempt + 1]]
    /\ req' = [req EXCEPT ![<<c, client[c].attempt + 1>>].pc = "sent"]

Finish(c) ==
    /\ client' = [client EXCEPT ![c].state = "done"]
    /\ UNCHANGED req

Start(c) ==
    /\ client[c].state = "idle"
    /\ \E u \in Uploads : Send(c, u)
    /\ UNCHANGED <<shared, tally, process>>

\* An IOException: refused, reset, or no answer within the read timeout.
Lose(c) ==
    /\ client[c].state = "waiting"
    /\ IF client[c].attempt < MaxAttempts THEN Send(c, client[c].upload) ELSE Finish(c)
    /\ UNCHANGED <<shared, tally, process>>

\* Any answer, an error or not, is the result.
Hear(c) ==
    /\ client[c].state = "waiting"
    /\ req[Current(c)].status # NoStatus
    /\ Finish(c)
    /\ UNCHANGED <<shared, tally, process>>

-----------------------------------------------------------------------------
(***************************************************************************)
(* The handlers.                                                           *)
(***************************************************************************)
Goto(r, pc) == req' = [req EXCEPT ![r].pc = pc]
Ended(status) == [NewHandler EXCEPT !.pc = "ended", !.status = status]
Fail(r, error) == req' = [req EXCEPT ![r] = Ended(Status[error])]

\* rate_limit_middleware
Accept(r) ==
    /\ req[r].pc = "sent" /\ backend = "up"
    /\ Goto(r, "body") \/ Fail(r, "RateLimited")
    /\ UNCHANGED <<client, shared, tally, process>>

\* The multipart fields, or the JSON body.
ReadBody(r) ==
    /\ req[r].pc = "body"
    /\ \/ client[r[1]].upload = "wav" /\ Goto(r, "extract")
       \/ /\ client[r[1]].upload = "json"
          /\ \E v \in Versions :
                req' = [req EXCEPT ![r].pc = "lookup", ![r].version = v]
       \/ client[r[1]].upload = "text" /\ Fail(r, "InvalidAudio")
       \/ client[r[1]].upload \in {"empty", "missing"} /\ Fail(r, "MissingAudio")
       \/ client[r[1]].upload \in {"oversize", "malformed"} /\ Fail(r, "BadRequest")
    /\ UNCHANGED <<client, shared, tally, process>>

\* Errors of ProcessorClient::extract: the processor refuses the audio (422) or
\* is unavailable (another status, a timeout, an answer that is not JSON).
ProcessorErrors == {"ProcessorRejected", "ProcessorUnavailable"}

\* Mutant: the version of an extraction is not compared.
ExtractUnchecked(r) ==
    /\ req[r].pc = "extract"
    /\ \/ \E v \in Versions : req' = [req EXCEPT ![r].pc = "lookup", ![r].version = v]
       \/ \E e \in ProcessorErrors : Fail(r, e)
    /\ UNCHANGED <<client, shared, tally, process>>

(***************************************************************************)
(* RecognitionService::recognize_audio up to the version check.  The       *)
(* processor is deployed on its own and may answer with any version.       *)
(***************************************************************************)
Extract(r) ==
    /\ req[r].pc = "extract"
    /\ \/ \E v \in Versions :
             IF v = Expected
             THEN req' = [req EXCEPT ![r].pc = "lookup", ![r].version = v]
             ELSE Fail(r, "AlgorithmVersionMismatch")
       \/ \E e \in ProcessorErrors : Fail(r, e)
    /\ UNCHANGED <<client, shared, tally, process>>

\* finalize: the INSERT is on its way.
ToRecord(r, song) ==
    req' = [req EXCEPT ![r].pc = "record", ![r].song = song, ![r].insert = "pending"]

\* MatchingEngine::recognize as far as the scores: the best song, or no match.
Lookup(r) ==
    /\ req[r].pc = "lookup"
    /\ \/ \E s \in songs : req' = [req EXCEPT ![r].pc = "fetch", ![r].song = s]
       \/ ToRecord(r, NoSong)
       \/ Fail(r, "Database")
    /\ UNCHANGED <<client, shared, tally, process>>

\* ... and its metadata: a song deleted in the meantime is no match.
Fetch(r) ==
    /\ req[r].pc = "fetch"
    /\ \/ ToRecord(r, IF req[r].song \in songs THEN req[r].song ELSE NoSong)
       \/ Fail(r, "Database")
    /\ UNCHANGED <<client, shared, tally, process>>

\* Mutant: the sequence starts at 0, which no client may ask for.
RowFromZero(r) == [id |-> nextId - 1, by |-> r, song |-> req[r].song,
                   recognized |-> req[r].song # NoSong, version |-> req[r].version]

\* The row that is inserted, with its id from the sequence.
Row(r) == [id |-> nextId, by |-> r, song |-> req[r].song,
           recognized |-> req[r].song # NoSong, version |-> req[r].version]

\* Mutant: an INSERT whose reply is lost is executed again.
InsertRetried(r) ==
    /\ req[r].insert = "pending"
    /\ req[r].song \in songs \cup {NoSong}
    /\ nextId < 4
    /\ log' = log \cup {Row(r)}
    /\ nextId' = nextId + 1
    /\ \E i \in {"pending", "executed"} : req' = [req EXCEPT ![r].insert = i]
    /\ UNCHANGED <<client, songs, tally, process>>

(***************************************************************************)
(* The database executes an INSERT, its handler alive or not, or never     *)
(* does.  The foreign key refuses a song that has been deleted.            *)
(***************************************************************************)
Insert(r) ==
    /\ req[r].insert = "pending"
    /\ \/ /\ req[r].song \in songs \cup {NoSong}
          /\ log' = log \cup {Row(r)}
          /\ nextId' = nextId + 1
          /\ req' = [req EXCEPT ![r].insert = "executed"]
       \/ /\ req[r].song \notin songs \cup {NoSong}
          /\ nextId' = nextId + 1
          /\ req' = [req EXCEPT ![r].insert = "failed"]
          /\ UNCHANGED log
       \/ /\ req' = [req EXCEPT ![r].insert = "failed"]
          /\ UNCHANGED <<log, nextId>>
    /\ UNCHANGED <<client, songs, tally, process>>

RowsBy(r) == {row \in log : row.by = r}

\* Mutant: only what is in the log counts as recognized.
CountLogged(r) ==
    tally' = IF req[r].song # NoSong /\ RowsBy(r) # {}
             THEN [tally EXCEPT !.success = @ + 1] ELSE [tally EXCEPT !.failure = @ + 1]

\* record_metrics
Count(r) ==
    tally' = IF req[r].song # NoSong THEN [tally EXCEPT !.success = @ + 1]
             ELSE [tally EXCEPT !.failure = @ + 1]

\* Mutant: the id is asked for after the INSERT, and is the newest there is.
AnswerNewest(r) ==
    /\ req[r].pc = "record" /\ req[r].insert \in {"executed", "failed"}
    /\ Count(r)
    /\ req' = [req EXCEPT ![r].pc = "ended", ![r].status = OK, ![r].id = nextId - 1]
    /\ UNCHANGED <<client, shared, process>>

(***************************************************************************)
(* The rest of finalize and of the handler, without an await in between.   *)
(* A failed INSERT, or one whose reply is lost, costs the answer its id.   *)
(***************************************************************************)
Answer(r) ==
    /\ req[r].pc = "record" /\ req[r].insert \in {"executed", "failed"}
    /\ Count(r)
    /\ \E id \in {row.id : row \in RowsBy(r)} \cup {0} :
          req' = [req EXCEPT ![r].pc = "ended", ![r].status = OK, ![r].id = id]
    /\ UNCHANGED <<client, shared, process>>

\* What is left of a dropped handler: its INSERT, if that is under way...
Dropped(h, status) ==
    IF h.insert = "none" THEN Ended(status)
    ELSE [h EXCEPT !.pc = "ended", !.status = status]

\* ... which may be taken along as long as it is not sent.
Drop(h, status) ==
    {Dropped(h, status)} \cup IF h.insert = "pending" THEN {Ended(status)} ELSE {}

\* Mutant: the time limit starts when the body has been read.
TimeoutAfterBody(r) ==
    /\ req[r].pc \in Awaits \ {"body"}
    /\ \E h \in Drop(req[r], REQUEST_TIMEOUT) : req' = [req EXCEPT ![r] = h]
    /\ UNCHANGED <<client, shared, tally, process>>

\* TimeoutLayer: HTTP_REQUEST_TIMEOUT_MS is over, wherever the handler is.
Timeout(r) ==
    /\ req[r].pc \in Awaits
    /\ \E h \in Drop(req[r], REQUEST_TIMEOUT) : req' = [req EXCEPT ![r] = h]
    /\ UNCHANGED <<client, shared, tally, process>>

\* The client has closed the connection, before the handler or during it.
Disconnect(r) ==
    /\ req[r].pc \in Awaits \cup {"sent"}
    /\ client[r[1]].state # "waiting" \/ r # Current(r[1])
    /\ \E h \in Drop(req[r], NoStatus) : req' = [req EXCEPT ![r] = h]
    /\ UNCHANGED <<client, shared, tally, process>>

-----------------------------------------------------------------------------
(***************************************************************************)
(* The process, and an operator who deletes songs.                         *)
(***************************************************************************)
Handled == {r \in Requests : req[r].pc \in Awaits}

\* SIGTERM or ctrl-c: no more connections, the handlers may finish.
Shutdown ==
    /\ backend = "up" /\ stops < MaxStops
    /\ backend' = "draining" /\ stops' = stops + 1
    /\ UNCHANGED <<client, req, shared, tally>>

Stop ==
    /\ backend = "draining" /\ Handled = {}
    /\ backend' = "down"
    /\ tally' = NoTally
    /\ UNCHANGED <<client, req, shared, stops>>

\* The process dies; what is sent to the database may still be executed.
Crash ==
    /\ backend # "down" /\ stops < MaxStops
    /\ backend' = "down" /\ stops' = stops + 1
    /\ tally' = NoTally
    /\ req' = [r \in Requests |->
                 IF r \in Handled THEN Dropped(req[r], NoStatus) ELSE req[r]]
    /\ UNCHANGED <<client, shared>>

Boot ==
    /\ backend = "down"
    /\ backend' = "up"
    /\ UNCHANGED <<client, req, shared, tally, stops>>

\* recognitions.song_id REFERENCES songs ON DELETE SET NULL
DeleteSong(s) ==
    /\ s \in songs
    /\ songs' = songs \ {s}
    /\ log' = {IF row.song = s THEN [row EXCEPT !.song = NoSong] ELSE row : row \in log}
    /\ UNCHANGED <<client, req, nextId, tally, process>>

Next ==
    \/ \E c \in Clients : Start(c) \/ Lose(c) \/ Hear(c)
    \/ \E r \in Requests :
          \/ Accept(r) \/ ReadBody(r) \/ Extract(r) \/ Lookup(r) \/ Fetch(r)
          \/ Insert(r) \/ Answer(r) \/ Timeout(r) \/ Disconnect(r)
    \/ Shutdown \/ Stop \/ Crash \/ Boot
    \/ \E s \in Songs : DeleteSong(s)

(***************************************************************************)
(* Fair are the timer of the timeout layer and the wait for the handlers   *)
(* at shutdown.  The client, the processor and the database may never act. *)
(***************************************************************************)
Fairness == (\A r \in Requests : WF_vars(Timeout(r))) /\ WF_vars(Stop)

Spec == Init /\ [][Next]_vars /\ Fairness

-----------------------------------------------------------------------------
(***************************************************************************)
(* Properties.                                                             *)
(***************************************************************************)
Handler ==
    [pc : PCs, song : Songs \cup {NoSong}, version : Versions,
     insert : {"none", "pending", "executed", "failed"},
     status : {NoStatus, OK, REQUEST_TIMEOUT} \cup {Status[e] : e \in DOMAIN Status},
     id : Nat]

Client ==
    [state : {"idle", "waiting", "done"}, upload : AllUploads, attempt : 0..MaxAttempts]

TableRow ==
    [id : Nat \ {0}, by : Requests, song : Songs \cup {NoSong}, recognized : BOOLEAN,
     version : Versions]

\* Every field holds a value of its kind: the columns of migration 0004, the
\* state of a handler and of a client, the process.
TypeOK ==
    /\ client \in [Clients -> Client]
    /\ req \in [Requests -> Handler]
    /\ songs \subseteq Songs
    /\ log \subseteq TableRow
    /\ nextId \in Nat \ {0}
    /\ tally \in [success : Nat, failure : Nat]
    /\ backend \in {"up", "draining", "down"} /\ stops \in 0..MaxStops

\* GET /api/v1/recognitions/{id}
GetRecognition(id) ==
    IF id <= 0 THEN [status |-> Status["BadRequest"]]
    ELSE IF \E row \in log : row.id = id
         THEN [status |-> OK, record |-> CHOOSE row \in log : row.id = id]
         ELSE [status |-> Status["RecognitionNotFound"]]

(***************************************************************************)
(* An id that was answered leads back to that very recognition: the same   *)
(* verdict, version and song, unless the song has been deleted since       *)
(* (recognition_service.rs 103-121, recognition_handler.rs 205-218).       *)
(***************************************************************************)
AnswersAreOnRecord ==
    \A r \in Requests : req[r].status = OK /\ req[r].id # 0 =>
        LET got == GetRecognition(req[r].id)
        IN  /\ got.status = OK
            /\ got.record.by = r
            /\ got.record.recognized = (req[r].song # NoSong)
            /\ got.record.version = req[r].version
            /\ got.record.song = IF req[r].song \in songs THEN req[r].song ELSE NoSong

(***************************************************************************)
(* A request leaves at most one row, and leaves one only if it was         *)
(* answered 200 or dropped while its INSERT was under way: no refused      *)
(* upload, no error, is in the log (recognition_service.rs 37-95).         *)
(***************************************************************************)
RowsAreEarned ==
    /\ \A row, other \in log : row.by = other.by => row = other
    /\ \A row \in log :
          \/ req[row.by].pc = "record"
          \/ req[row.by].status \in {OK, REQUEST_TIMEOUT, NoStatus}

(***************************************************************************)
(* What came from audio was fingerprinted by the version the backend       *)
(* expects, whatever the processor is at the time: neither matched nor     *)
(* logged otherwise (recognition_service.rs 72-77).                        *)
(***************************************************************************)
VersionsAreNotMixed ==
    \A r \in Requests :
        client[r[1]].upload = "wav" =>
            /\ req[r].pc \in {"lookup", "fetch", "record"} => req[r].version = Expected
            /\ \A row \in RowsBy(r) : row.version = Expected

(***************************************************************************)
(* The counters add up with the log: while the backend has not crashed,    *)
(* what was counted and not logged was answered without an id or lost its  *)
(* reply, what was logged and not counted was dropped                      *)
(* (recognition_handler.rs 106-112, 159-163).                              *)
(***************************************************************************)
Answered(recognized) ==
    {r \in Requests : req[r].status = OK /\ (req[r].song # NoSong) = recognized}

AddsUp(count, recognized) ==
    count + Cardinality({row \in log : row.recognized = recognized /\ req[row.by].status # OK})
    = Cardinality({row \in log : row.recognized = recognized})
      + Cardinality({r \in Answered(recognized) : RowsBy(r) = {}})

CountersAddUp == stops = 0 => AddsUp(tally.success, TRUE) /\ AddsUp(tally.failure, FALSE)

\* A graceful shutdown ends: the time limit ends every handler it waits for,
\* however slow the upload, the processor or the database (main.rs 80-85,
\* routes/mod.rs 78-81).
ShutdownEnds == backend = "draining" ~> backend = "down"
=============================================================================
