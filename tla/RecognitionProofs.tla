-------------------------- MODULE RecognitionProofs --------------------------
(***************************************************************************)
(* Theorems of Recognition for any number of clients, songs, versions,     *)
(* retries and stops: what the audit log says of a request, and what an    *)
(* answer says of the audit log.                                           *)
(***************************************************************************)
EXTENDS Recognition, FiniteSetTheorems, TLAPS

(***************************************************************************)
(* The inductive invariant.  A row tells what its handler holds, and that  *)
(* handler's INSERT has been executed, once; a handler holds its INSERT to *)
(* the end; a client has sent nothing yet beyond its latest attempt.       *)
(***************************************************************************)
RowInv(row) ==
    /\ row.id < nextId
    /\ req[row.by].insert = "executed"
    /\ row.recognized = (req[row.by].song # NoSong)
    /\ row.version = req[row.by].version
    /\ row.song = IF req[row.by].song \in songs THEN req[row.by].song ELSE NoSong

Unique == \A row, other \in log : row.by = other.by \/ row.id = other.id => row = other

Bound(h) ==
    h.insert # "none" =>
       \/ h.pc = "record"
       \/ h.pc = "ended" /\ h.status \in {OK, REQUEST_TIMEOUT, NoStatus}

OnRecord(r, h) ==
    h.status = OK /\ h.id # 0 => \E row \in log : row.by = r /\ row.id = h.id

Checked(r, h) == client[r[1]].upload = "wav" => h.version = Expected

HandlerInv(r, h) == Bound(h) /\ OnRecord(r, h) /\ Checked(r, h)

ClientInv(c) ==
    /\ client[c].state = "idle" => client[c].attempt = 0 /\ client[c].upload = "wav"
    /\ \A k \in 1..MaxAttempts : k > client[c].attempt => req[<<c, k>>] = NewHandler

Inv ==
    /\ TypeOK
    /\ \A row \in log : RowInv(row)
    /\ Unique
    /\ \A r \in Requests : HandlerInv(r, req[r])
    /\ \A c \in Clients : ClientInv(c)

\* How a handler that has been sent may go on, as far as Inv can tell.
Evolves(r, h) ==
    /\ req[r].pc # "unsent"
    /\ req[r].insert = "executed" =>
          h.insert = "executed" /\ h.song = req[r].song /\ h.version = req[r].version
    /\ HandlerInv(r, h)

-----------------------------------------------------------------------------
LEMMA HandlerTypes ==
  /\ NewHandler \in Handler
  /\ \A status \in {NoStatus, OK, REQUEST_TIMEOUT} \cup {Status[e] : e \in DOMAIN Status} :
        Ended(status) \in Handler
  BY RecognitionAssumption DEF NewHandler, Handler, Ended, PCs, Awaits

LEMMA InvInit == Init => Inv
<1> SUFFICES ASSUME Init PROVE Inv
  OBVIOUS
<1>1. \A r \in Requests : req[r] = NewHandler  BY DEF Init
<1>2. TypeOK
  <2>1. req \in [Requests -> Handler]  BY HandlerTypes DEF Init
  <2>2. client \in [Clients -> Client]
    BY RecognitionAssumption DEF Init, Client, AllUploads
  <2>3. stops \in 0..MaxStops /\ tally \in [success : Nat, failure : Nat]
    BY RecognitionAssumption DEF Init, NoTally
  <2>4. QED  BY <2>1, <2>2, <2>3 DEF Init, TypeOK
<1>3. \A r \in Requests : HandlerInv(r, req[r])
  BY <1>1 DEF HandlerInv, Bound, OnRecord, Checked, NewHandler, OK, NoStatus
<1>4. \A c \in Clients : ClientInv(c)
  BY <1>1 DEF Init, ClientInv, Requests
<1>5. Unique /\ \A row \in log : RowInv(row)  BY DEF Init, Unique
<1>6. QED  BY <1>2, <1>3, <1>4, <1>5 DEF Inv

LEMMA HandlersStep ==
  ASSUME Inv, req' \in [Requests -> Handler], UNCHANGED <<client, songs, log, nextId>>,
         tally' \in [success : Nat, failure : Nat],
         backend' \in {"up", "draining", "down"}, stops' \in 0..MaxStops,
         \A r \in Requests : req'[r] = req[r] \/ Evolves(r, req'[r])
  PROVE  Inv'
<1> USE DEF Inv
<1>1. TypeOK'  BY DEF TypeOK
<1>2. ASSUME NEW row \in log' PROVE RowInv(row)'
  <2>1. row \in log /\ RowInv(row) /\ row.by \in Requests  BY <1>2 DEF TypeOK, TableRow
  <2>2. /\ req'[row.by].insert = "executed"
        /\ req'[row.by].song = req[row.by].song
        /\ req'[row.by].version = req[row.by].version
    BY <2>1 DEF Evolves, RowInv
  <2>3. QED  BY <2>1, <2>2 DEF RowInv
<1>3. Unique'  BY DEF Unique
<1>4. ASSUME NEW r \in Requests PROVE HandlerInv(r, req[r])'
  <2>1. HandlerInv(r, req'[r])  BY DEF Evolves
  <2>2. QED  BY <2>1 DEF HandlerInv, Bound, OnRecord, Checked
<1>5. ASSUME NEW c \in Clients PROVE ClientInv(c)'
  <2>1. ClientInv(c)  OBVIOUS
  <2>2. ASSUME NEW k \in 1..MaxAttempts, k > client[c].attempt
        PROVE  req'[<<c, k>>] = NewHandler
    <3>1. <<c, k>> \in Requests /\ req[<<c, k>>] = NewHandler
      BY <2>1, <2>2 DEF ClientInv, Requests
    <3>2. ~ Evolves(<<c, k>>, req'[<<c, k>>])  BY <3>1 DEF Evolves, NewHandler
    <3>3. QED  BY <3>1, <3>2
  <2>3. QED  BY <2>1, <2>2 DEF ClientInv
<1>6. QED  BY <1>1, <1>2, <1>3, <1>4, <1>5

\* The same for the step of one handler.
LEMMA HandlerStep ==
  ASSUME Inv, NEW r \in Requests, NEW h \in Handler, Evolves(r, h),
         req' = [req EXCEPT ![r] = h], UNCHANGED <<client, shared, process>>,
         tally' \in [success : Nat, failure : Nat]
  PROVE  Inv'
<1>1. req' \in [Requests -> Handler]  BY DEF Inv, TypeOK
<1>2. \A s \in Requests : req'[s] = req[s] \/ Evolves(s, req'[s])
  BY DEF Inv, TypeOK
<1>3. UNCHANGED <<songs, log, nextId, backend, stops>>  BY DEF shared, process
<1>4. backend' \in {"up", "draining", "down"} /\ stops' \in 0..MaxStops
  BY <1>3 DEF Inv, TypeOK
<1>5. QED  BY <1>1, <1>2, <1>3, <1>4, HandlersStep

-----------------------------------------------------------------------------
(***************************************************************************)
(* The steps of a handler.                                                 *)
(***************************************************************************)
LEMMA Statuses ==
  /\ \A e \in DOMAIN Status : Status[e] # OK
  /\ OK # NoStatus /\ OK # REQUEST_TIMEOUT
  BY DEF Status, OK, NoStatus, REQUEST_TIMEOUT

LEMMA EndedEvolves ==
  ASSUME Inv, NEW r \in Requests, req[r].pc # "unsent", req[r].insert # "executed",
         NEW status, status # OK
  PROVE  Evolves(r, Ended(status))
<1>1. /\ Ended(status).insert = "none" /\ Ended(status).status = status
      /\ Ended(status).version = Expected
  BY DEF Ended, NewHandler
<1>2. QED  BY <1>1 DEF Evolves, HandlerInv, Bound, OnRecord, Checked

LEMMA Before ==
  ASSUME Inv, NEW r \in Requests,
         req[r].pc \in {"sent", "body", "extract", "lookup", "fetch"}
  PROVE  req[r].insert = "none" /\ req[r].pc # "unsent" /\ req[r] \in Handler
  BY DEF Inv, HandlerInv, Bound, TypeOK

LEMMA FailStep ==
  ASSUME Inv, NEW r \in Requests, NEW e \in DOMAIN Status, Fail(r, e),
         req[r].pc \in {"sent", "body", "extract", "lookup", "fetch"},
         UNCHANGED <<client, shared, tally, process>>
  PROVE  Inv'
<1>1. Ended(Status[e]) \in Handler /\ Status[e] # OK  BY HandlerTypes, Statuses
<1>2. Evolves(r, Ended(Status[e]))  BY <1>1, Before, EndedEvolves
<1>3. tally' \in [success : Nat, failure : Nat]  BY DEF Inv, TypeOK
<1>4. QED  BY <1>1, <1>2, <1>3, HandlerStep DEF Fail

\* On to the next await, with what the handler holds by then.
LEMMA GoOn ==
  ASSUME Inv, NEW r \in Requests,
         req[r].pc \in {"sent", "body", "extract", "lookup", "fetch"},
         UNCHANGED <<client, shared, tally, process>>,
         NEW h \in Handler, req' = [req EXCEPT ![r] = h],
         h.status = req[r].status, h.id = req[r].id,
         h.insert = "none" \/ h.pc = "record", Checked(r, h)
  PROVE  Inv'
<1>1. req[r].insert = "none" /\ req[r].pc # "unsent"  BY Before
<1>2. OnRecord(r, h)  BY DEF Inv, HandlerInv, OnRecord
<1>3. Bound(h)  BY DEF Bound
<1>4. Evolves(r, h)  BY <1>1, <1>2, <1>3 DEF Evolves, HandlerInv
<1>5. tally' \in [success : Nat, failure : Nat]  BY DEF Inv, TypeOK
<1>6. QED  BY <1>4, <1>5, HandlerStep

LEMMA CheckedNow ==
  ASSUME Inv, NEW r \in Requests, client[r[1]].upload = "wav"
  PROVE  req[r].version = Expected
  BY DEF Inv, HandlerInv, Checked

LEMMA GotoStep ==
  ASSUME Inv, NEW r \in Requests, NEW pc \in Awaits, Goto(r, pc),
         req[r].pc \in {"sent", "body", "extract", "lookup", "fetch"},
         UNCHANGED <<client, shared, tally, process>>
  PROVE  Inv'
<1> DEFINE h == [req[r] EXCEPT !.pc = pc]
<1>1. req[r] \in Handler /\ req \in [Requests -> Handler]  BY DEF Inv, TypeOK
<1>2. /\ h \in Handler /\ h.insert = req[r].insert /\ h.status = req[r].status
      /\ h.id = req[r].id /\ h.version = req[r].version
      /\ req' = [req EXCEPT ![r] = h]
  BY <1>1 DEF Handler, PCs, Goto
<1>3. Checked(r, h)  BY <1>2, CheckedNow DEF Checked
<1> HIDE DEF h
<1>4. QED  BY <1>2, <1>3, Before, GoOn

LEMMA ToLookup ==
  ASSUME Inv, NEW r \in Requests, NEW v \in Versions,
         client[r[1]].upload = "wav" => v = Expected,
         req' = [req EXCEPT ![r].pc = "lookup", ![r].version = v],
         req[r].pc \in {"body", "extract"},
         UNCHANGED <<client, shared, tally, process>>
  PROVE  Inv'
<1> DEFINE h == [req[r] EXCEPT !.pc = "lookup", !.version = v]
<1>1. req[r] \in Handler /\ req \in [Requests -> Handler]  BY DEF Inv, TypeOK
<1>2. /\ h \in Handler /\ h.insert = req[r].insert /\ h.status = req[r].status
      /\ h.id = req[r].id /\ h.version = v /\ req' = [req EXCEPT ![r] = h]
  BY <1>1 DEF Handler, PCs, Awaits
<1>3. Checked(r, h)  BY <1>2 DEF Checked
<1> HIDE DEF h
<1>4. QED  BY <1>2, <1>3, Before, GoOn

LEMMA ToRecordStep ==
  ASSUME Inv, NEW r \in Requests, NEW s \in Songs \cup {NoSong}, ToRecord(r, s),
         req[r].pc \in {"lookup", "fetch"},
         UNCHANGED <<client, shared, tally, process>>
  PROVE  Inv'
<1> DEFINE h == [req[r] EXCEPT !.pc = "record", !.song = s, !.insert = "pending"]
<1>1. req[r] \in Handler /\ req \in [Requests -> Handler]  BY DEF Inv, TypeOK
<1>2. /\ h \in Handler /\ h.pc = "record" /\ h.status = req[r].status
      /\ h.id = req[r].id /\ h.version = req[r].version /\ req' = [req EXCEPT ![r] = h]
  BY <1>1 DEF Handler, PCs, Awaits, ToRecord
<1>3. Checked(r, h)  BY <1>2, CheckedNow DEF Checked
<1> HIDE DEF h
<1>4. QED  BY <1>2, <1>3, GoOn

LEMMA AcceptStep == ASSUME Inv, NEW r \in Requests, Accept(r) PROVE Inv'
<1>1. req[r].pc = "sent" /\ UNCHANGED <<client, shared, tally, process>>  BY DEF Accept
<1>2. CASE Goto(r, "body")  BY <1>1, <1>2, GotoStep DEF Awaits
<1>3. CASE Fail(r, "RateLimited")  BY <1>1, <1>3, FailStep DEF Status
<1>4. QED  BY <1>2, <1>3 DEF Accept

LEMMA ReadBodyStep == ASSUME Inv, NEW r \in Requests, ReadBody(r) PROVE Inv'
<1>1. req[r].pc = "body" /\ UNCHANGED <<client, shared, tally, process>>  BY DEF ReadBody
<1>2. CASE Goto(r, "extract")  BY <1>1, <1>2, GotoStep DEF Awaits
<1>3. ASSUME client[r[1]].upload = "json", NEW v \in Versions,
             req' = [req EXCEPT ![r].pc = "lookup", ![r].version = v]
      PROVE  Inv'
  BY <1>1, <1>3, ToLookup
<1>4. ASSUME NEW e \in {"InvalidAudio", "MissingAudio", "BadRequest"}, Fail(r, e)
      PROVE  Inv'
  BY <1>1, <1>4, FailStep DEF Status
<1>5. QED  BY <1>2, <1>3, <1>4 DEF ReadBody

LEMMA ExtractStep == ASSUME Inv, NEW r \in Requests, Extract(r) PROVE Inv'
<1>1. req[r].pc = "extract" /\ UNCHANGED <<client, shared, tally, process>>
  BY DEF Extract
<1>2. ASSUME NEW e \in {"AlgorithmVersionMismatch", "ProcessorRejected",
                        "ProcessorUnavailable"}, Fail(r, e)
      PROVE  Inv'
  BY <1>1, <1>2, FailStep DEF Status
<1>3. CASE req' = [req EXCEPT ![r].pc = "lookup", ![r].version = Expected]
  BY <1>1, <1>3, ToLookup, RecognitionAssumption
<1>4. QED  BY <1>2, <1>3 DEF Extract, ProcessorErrors

LEMMA LookupStep == ASSUME Inv, NEW r \in Requests, Lookup(r) PROVE Inv'
<1>1. req[r].pc = "lookup" /\ UNCHANGED <<client, shared, tally, process>>
  BY DEF Lookup
<1>2. CASE Fail(r, "Database")  BY <1>1, <1>2, FailStep DEF Status
<1>3. CASE ToRecord(r, NoSong)  BY <1>1, <1>3, ToRecordStep
<1>4. ASSUME NEW s \in songs, req' = [req EXCEPT ![r].pc = "fetch", ![r].song = s]
      PROVE  Inv'
  <2> DEFINE h == [req[r] EXCEPT !.pc = "fetch", !.song = s]
  <2>1. req[r] \in Handler /\ req \in [Requests -> Handler] /\ s \in Songs
    BY DEF Inv, TypeOK
  <2>2. /\ h \in Handler /\ h.insert = req[r].insert /\ h.status = req[r].status
        /\ h.id = req[r].id /\ h.version = req[r].version
        /\ req' = [req EXCEPT ![r] = h]
    BY <1>4, <2>1 DEF Handler, PCs, Awaits
  <2>3. Checked(r, h)  BY <2>2, CheckedNow DEF Checked
  <2> HIDE DEF h
  <2>4. QED  BY <1>1, <2>2, <2>3, Before, GoOn
<1>5. QED  BY <1>2, <1>3, <1>4 DEF Lookup

LEMMA FetchStep == ASSUME Inv, NEW r \in Requests, Fetch(r) PROVE Inv'
<1>1. req[r].pc = "fetch" /\ UNCHANGED <<client, shared, tally, process>>
  BY DEF Fetch
<1>2. CASE Fail(r, "Database")  BY <1>1, <1>2, FailStep DEF Status
<1>3. CASE ToRecord(r, IF req[r].song \in songs THEN req[r].song ELSE NoSong)
  <2> DEFINE s == IF req[r].song \in songs THEN req[r].song ELSE NoSong
  <2>1. s \in Songs \cup {NoSong}  BY DEF Inv, TypeOK
  <2>2. ToRecord(r, s)  BY <1>3
  <2> HIDE DEF s
  <2>3. QED  BY <1>1, <2>1, <2>2, ToRecordStep
<1>4. QED  BY <1>2, <1>3 DEF Fetch

\* The INSERT that is executed: its handler has no row yet.
LEMMA InsertRow ==
  ASSUME Inv, NEW r \in Requests, req[r].insert = "pending",
         req[r].song \in songs \cup {NoSong},
         log' = log \cup {Row(r)}, nextId' = nextId + 1,
         req' = [req EXCEPT ![r].insert = "executed"],
         UNCHANGED <<client, songs, tally, process>>
  PROVE  Inv'
<1> USE DEF Inv
<1>1. /\ req[r] \in Handler /\ req \in [Requests -> Handler] /\ nextId \in Nat \ {0}
      /\ songs \subseteq Songs
  BY DEF TypeOK
<1>2. /\ req' \in [Requests -> Handler]
      /\ req'[r] = [req[r] EXCEPT !.insert = "executed"]
      /\ req'[r].insert = "executed" /\ req'[r].song = req[r].song
      /\ req'[r].version = req[r].version /\ req'[r].pc = req[r].pc
      /\ req'[r].status = req[r].status /\ req'[r].id = req[r].id
      /\ \A s \in Requests : s # r => req'[s] = req[s]
  BY <1>1 DEF Handler
<1>3. \A row \in log : row.by # r /\ row.by \in Requests /\ row.id < nextId /\ row.id \in Nat
  BY DEF RowInv, TypeOK, TableRow
<1>4. /\ Row(r).id = nextId /\ Row(r).by = r /\ Row(r).song = req[r].song
      /\ Row(r).version = req[r].version
      /\ Row(r).recognized = (req[r].song # NoSong)
  BY DEF Row
<1>5. Row(r) \in TableRow  BY <1>1 DEF Row, TableRow, Handler
<1>6. TypeOK'
  <2>1. log' \subseteq TableRow /\ nextId' \in Nat \ {0}  BY <1>1, <1>5 DEF TypeOK
  <2>2. QED  BY <1>2, <2>1 DEF TypeOK, process
<1>7. ASSUME NEW row \in log' PROVE RowInv(row)'
  <2>1. CASE row \in log
    <3>1. RowInv(row) /\ row.by \in Requests /\ row.by # r /\ row.id < nextId'
      BY <1>1, <1>3, <2>1
    <3>2. req'[row.by] = req[row.by] /\ songs' = songs  BY <1>2, <3>1
    <3>3. QED  BY <3>1, <3>2 DEF RowInv
  <2>2. CASE row = Row(r)
    <3>1. row.id < nextId'  BY <1>1, <1>4, <2>2
    <3>2. row.recognized = (req'[row.by].song # NoSong)  BY <1>2, <1>4, <2>2
    <3>3. row.song = IF req'[row.by].song \in songs' THEN req'[row.by].song ELSE NoSong
      BY <1>2, <1>4, <2>2
    <3>4. row.version = req'[row.by].version /\ req'[row.by].insert = "executed"
      BY <1>2, <1>4, <2>2
    <3>5. QED  BY <3>1, <3>2, <3>3, <3>4 DEF RowInv
  <2>3. QED  BY <2>1, <2>2
<1>8. Unique'
  <2> SUFFICES ASSUME NEW row \in log', NEW other \in log',
                      row.by = other.by \/ row.id = other.id
               PROVE  row = other
    BY DEF Unique
  <2>1. \A old \in log : Row(r).by # old.by /\ Row(r).id # old.id
    BY <1>1, <1>3, <1>4
  <2>2. QED  BY <2>1 DEF Unique
<1>9. ASSUME NEW s \in Requests PROVE HandlerInv(s, req[s])'
  <2>1. HandlerInv(s, req[s])  OBVIOUS
  <2>2. Bound(req'[s])  BY <1>2, <2>1 DEF HandlerInv, Bound
  <2>3. OnRecord(s, req'[s])  BY <1>2, <2>1 DEF HandlerInv, OnRecord
  <2>4. Checked(s, req'[s])  BY <1>2, <2>1 DEF HandlerInv, Checked
  <2>5. log \subseteq log'  OBVIOUS
  <2>6. OnRecord(s, req[s])'  BY <2>3, <2>5 DEF OnRecord
  <2>7. Bound(req[s])' /\ Checked(s, req[s])'  BY <2>2, <2>4 DEF Bound, Checked
  <2>8. QED  BY <2>6, <2>7 DEF HandlerInv
<1>10. ASSUME NEW c \in Clients PROVE ClientInv(c)'
  <2>1. ClientInv(c)  OBVIOUS
  <2>2. ASSUME NEW k \in 1..MaxAttempts, k > client[c].attempt
        PROVE  req'[<<c, k>>] = NewHandler
    <3>1. <<c, k>> \in Requests /\ req[<<c, k>>] = NewHandler
      BY <2>1, <2>2 DEF ClientInv, Requests
    <3>2. <<c, k>> # r  BY <3>1 DEF NewHandler
    <3>3. QED  BY <1>2, <3>1, <3>2
  <2>3. QED  BY <2>1, <2>2 DEF ClientInv
<1>11. QED  BY <1>6, <1>7, <1>8, <1>9, <1>10

\* An INSERT that failed may have used up an id.
LEMMA InsertFailed ==
  ASSUME Inv, NEW r \in Requests, req[r].insert = "pending",
         log' = log, nextId' \in {nextId, nextId + 1},
         req' = [req EXCEPT ![r].insert = "failed"],
         UNCHANGED <<client, songs, tally, process>>
  PROVE  Inv'
<1> USE DEF Inv
<1>1. req[r] \in Handler /\ req \in [Requests -> Handler] /\ nextId \in Nat \ {0}
  BY DEF TypeOK
<1>2. /\ req' \in [Requests -> Handler]
      /\ req'[r].insert = "failed" /\ req'[r].version = req[r].version
      /\ req'[r].pc = req[r].pc /\ req'[r].status = req[r].status /\ req'[r].id = req[r].id
      /\ \A s \in Requests : s # r => req'[s] = req[s]
  BY <1>1 DEF Handler
<1>3. TypeOK'  BY <1>1, <1>2 DEF TypeOK, process
<1>4. ASSUME NEW row \in log' PROVE RowInv(row)'
  <2>1. RowInv(row) /\ row.by \in Requests /\ row.by # r /\ row.id \in Nat
    BY <1>4 DEF RowInv, TypeOK, TableRow
  <2>2. req'[row.by] = req[row.by] /\ row.id < nextId' /\ songs' = songs
    BY <1>1, <1>2, <2>1 DEF RowInv
  <2>3. QED  BY <2>1, <2>2 DEF RowInv
<1>5. ASSUME NEW s \in Requests PROVE HandlerInv(s, req[s])'
  <2>1. HandlerInv(s, req[s])  OBVIOUS
  <2>2. Bound(req'[s])  BY <1>2, <2>1 DEF HandlerInv, Bound
  <2>3. OnRecord(s, req'[s])  BY <1>2, <2>1 DEF HandlerInv, OnRecord
  <2>4. Checked(s, req'[s])  BY <1>2, <2>1 DEF HandlerInv, Checked
  <2>5. QED  BY <2>2, <2>3, <2>4 DEF HandlerInv, Bound, OnRecord, Checked
<1>6. ASSUME NEW c \in Clients PROVE ClientInv(c)'
  <2>1. ClientInv(c)  OBVIOUS
  <2>2. ASSUME NEW k \in 1..MaxAttempts, k > client[c].attempt
        PROVE  req'[<<c, k>>] = NewHandler
    <3>1. <<c, k>> \in Requests /\ req[<<c, k>>] = NewHandler
      BY <2>1, <2>2 DEF ClientInv, Requests
    <3>2. <<c, k>> # r  BY <3>1 DEF NewHandler
    <3>3. QED  BY <1>2, <3>1, <3>2
  <2>3. QED  BY <2>1, <2>2 DEF ClientInv
<1>7. Unique'  BY DEF Unique
<1>8. QED  BY <1>3, <1>4, <1>5, <1>6, <1>7

LEMMA InsertStep == ASSUME Inv, NEW r \in Requests, Insert(r) PROVE Inv'
  BY InsertRow, InsertFailed DEF Insert

LEMMA AnswerStep == ASSUME Inv, NEW r \in Requests, Answer(r) PROVE Inv'
<1>1. /\ req[r].pc = "record" /\ req[r].insert \in {"executed", "failed"}
      /\ UNCHANGED <<client, shared, process>>
  BY DEF Answer
<1>2. PICK id \in {row.id : row \in RowsBy(r)} \cup {0} :
         req' = [req EXCEPT ![r].pc = "ended", ![r].status = OK, ![r].id = id]
  BY DEF Answer
<1>3. id # 0 => \E row \in log : row.by = r /\ row.id = id  BY DEF RowsBy
<1>4. id \in Nat
  <2>1. \A row \in log : row.id \in Nat  BY DEF Inv, TypeOK, TableRow
  <2>2. QED  BY <1>3, <2>1
<1> DEFINE h == [req[r] EXCEPT !.pc = "ended", !.status = OK, !.id = id]
<1>5. req[r] \in Handler /\ req \in [Requests -> Handler]  BY DEF Inv, TypeOK
<1>6. /\ h \in Handler /\ h.pc = "ended" /\ h.status = OK /\ h.id = id
      /\ h.insert = req[r].insert /\ h.version = req[r].version /\ h.song = req[r].song
      /\ req' = [req EXCEPT ![r] = h]
  BY <1>2, <1>4, <1>5 DEF Handler, PCs
<1>7. Bound(h) /\ OnRecord(r, h) /\ Checked(r, h)
  <2> HIDE DEF h
  <2>1. QED  BY <1>3, <1>6, CheckedNow DEF Bound, OnRecord, Checked
<1>8. tally' \in [success : Nat, failure : Nat]
  <2>1. tally \in [success : Nat, failure : Nat] /\ Count(r)
    BY DEF Inv, TypeOK, Answer
  <2>2. QED  BY <2>1 DEF Count
<1> HIDE DEF h
<1>9. Evolves(r, h)  BY <1>1, <1>6, <1>7 DEF Evolves, HandlerInv
<1>10. QED  BY <1>1, <1>6, <1>8, <1>9, HandlerStep

\* A handler that is dropped: its INSERT may stay behind.
LEMMA DroppedEvolves ==
  ASSUME Inv, NEW r \in Requests, NEW status \in {NoStatus, REQUEST_TIMEOUT},
         req[r].pc # "unsent", NEW h \in Drop(req[r], status)
  PROVE  h \in Handler /\ Evolves(r, h)
<1>1. Ended(status) \in Handler /\ status # OK  BY HandlerTypes, Statuses
<1>2. CASE h = Ended(status) /\ req[r].insert # "executed"
  BY <1>1, <1>2, EndedEvolves
<1>3. CASE req[r].insert # "none" /\ h = [req[r] EXCEPT !.pc = "ended", !.status = status]
  <2>1. req[r] \in Handler  BY DEF Inv, TypeOK
  <2>2. /\ h \in Handler /\ h.pc = "ended" /\ h.status = status
        /\ h.insert = req[r].insert /\ h.song = req[r].song /\ h.version = req[r].version
    BY <1>3, <2>1 DEF Handler, PCs
  <2>3. Bound(h) /\ OnRecord(r, h) /\ Checked(r, h)
    BY <1>1, <2>2, CheckedNow DEF Bound, OnRecord, Checked
  <2>4. QED  BY <2>2, <2>3 DEF Evolves, HandlerInv
<1>4. QED  BY <1>2, <1>3 DEF Drop, Dropped

LEMMA DropStep ==
  ASSUME Inv, NEW r \in Requests, NEW status \in {NoStatus, REQUEST_TIMEOUT},
         req[r].pc # "unsent", NEW h \in Drop(req[r], status),
         req' = [req EXCEPT ![r] = h], UNCHANGED <<client, shared, tally, process>>
  PROVE  Inv'
<1>1. h \in Handler /\ Evolves(r, h)  BY DroppedEvolves
<1>2. tally' \in [success : Nat, failure : Nat]  BY DEF Inv, TypeOK
<1>3. QED  BY <1>1, <1>2, HandlerStep

LEMMA TimeoutStep == ASSUME Inv, NEW r \in Requests, Timeout(r) PROVE Inv'
<1>1. req[r].pc # "unsent"  BY DEF Timeout, Awaits
<1>2. QED  BY <1>1, DropStep DEF Timeout

LEMMA DisconnectStep == ASSUME Inv, NEW r \in Requests, Disconnect(r) PROVE Inv'
<1>1. req[r].pc # "unsent"  BY DEF Disconnect, Awaits
<1>2. QED  BY <1>1, DropStep DEF Disconnect

-----------------------------------------------------------------------------
(***************************************************************************)
(* The steps of the process.                                               *)
(***************************************************************************)
LEMMA CrashStep == ASSUME Inv, Crash PROVE Inv'
<1>1. /\ UNCHANGED <<client, songs, log, nextId>>
      /\ tally' = NoTally /\ backend' = "down" /\ stops' = stops + 1 /\ stops < MaxStops
      /\ req' = [r \in Requests |->
                   IF r \in Handled THEN Dropped(req[r], NoStatus) ELSE req[r]]
  BY DEF Crash, shared
<1>2. ASSUME NEW r \in Requests, r \in Handled
      PROVE  Dropped(req[r], NoStatus) \in Handler /\ Evolves(r, Dropped(req[r], NoStatus))
  <2>1. req[r].pc # "unsent"  BY <1>2 DEF Handled, Awaits
  <2>2. Dropped(req[r], NoStatus) \in Drop(req[r], NoStatus)  BY DEF Drop
  <2>3. QED  BY <2>1, <2>2, DroppedEvolves
<1>3. req' \in [Requests -> Handler]  BY <1>1, <1>2 DEF Inv, TypeOK
<1>4. \A r \in Requests : req'[r] = req[r] \/ Evolves(r, req'[r])  BY <1>1, <1>2
<1>5. stops' \in 0..MaxStops /\ tally' \in [success : Nat, failure : Nat]
  BY <1>1, RecognitionAssumption DEF Inv, TypeOK, NoTally
<1>6. QED  BY <1>1, <1>3, <1>4, <1>5, HandlersStep

LEMMA ProcessStep == ASSUME Inv, Shutdown \/ Stop \/ Boot PROVE Inv'
<1>1. UNCHANGED <<client, req, songs, log, nextId>>  BY DEF Shutdown, Stop, Boot, shared
<1>2. tally' \in [success : Nat, failure : Nat]
  BY DEF Shutdown, Stop, Boot, Inv, TypeOK, NoTally
<1>3. backend' \in {"up", "draining", "down"}  BY DEF Shutdown, Stop, Boot
<1>4. stops' \in 0..MaxStops
  BY RecognitionAssumption DEF Shutdown, Stop, Boot, Inv, TypeOK
<1>5. req' \in [Requests -> Handler]  BY <1>1 DEF Inv, TypeOK
<1>6. QED  BY <1>1, <1>2, <1>3, <1>4, <1>5, HandlersStep

-----------------------------------------------------------------------------
(***************************************************************************)
(* The steps of a client, and of the operator.                             *)
(***************************************************************************)
LEMMA SendStep ==
  ASSUME Inv, NEW c \in Clients, NEW u \in AllUploads, Send(c, u),
         client[c].attempt < MaxAttempts, UNCHANGED <<shared, tally, process>>,
         u = "wav" => \A k \in 1..MaxAttempts : req[<<c, k>>].version = Expected
  PROVE  Inv'
<1> USE DEF Inv
<1> DEFINE a == client[c].attempt + 1
           r == <<c, a>>
<1>1. /\ client \in [Clients -> Client] /\ client[c].attempt \in Nat /\ ClientInv(c)
      /\ MaxAttempts \in Nat
  BY RecognitionAssumption DEF TypeOK, Client
<1>2. a \in 1..MaxAttempts /\ a > client[c].attempt  BY <1>1
<1>3. r \in Requests /\ req[r] = NewHandler  BY <1>1, <1>2 DEF ClientInv, Requests
<1>4. req \in [Requests -> Handler] /\ req[r] \in Handler  BY <1>3 DEF TypeOK
<1>5. /\ client' \in [Clients -> Client]
      /\ client'[c].state = "waiting" /\ client'[c].upload = u /\ client'[c].attempt = a
      /\ \A d \in Clients : d # c => client'[d] = client[d]
  BY <1>1, <1>2 DEF Send, Client
<1> HIDE DEF a
<1>6. /\ req' \in [Requests -> Handler]
      /\ req'[r].insert = req[r].insert /\ req'[r].song = req[r].song
      /\ req'[r].version = req[r].version /\ req'[r].status = req[r].status
      /\ req'[r].id = req[r].id
      /\ \A s \in Requests : s # r => req'[s] = req[s]
  <2>1. req' = [req EXCEPT ![r] = [req[r] EXCEPT !.pc = "sent"]]
    BY <1>4 DEF Send, a
  <2>2. [req[r] EXCEPT !.pc = "sent"] \in Handler  BY <1>4 DEF Handler, PCs
  <2>3. QED  BY <1>3, <1>4, <2>1, <2>2 DEF Handler
<1>7. /\ req[r].insert = "none" /\ req[r].status = NoStatus
  BY <1>3 DEF NewHandler
<1> HIDE DEF r
<1>8. UNCHANGED <<songs, log, nextId, backend, stops, tally>>  BY DEF shared, process
<1>9. TypeOK'  BY <1>5, <1>6, <1>8 DEF TypeOK
<1>10. ASSUME NEW row \in log' PROVE RowInv(row)'
  <2>1. RowInv(row) /\ row.by \in Requests  BY <1>8, <1>10 DEF TypeOK, TableRow
  <2>2. row.by # r  BY <1>7, <2>1 DEF RowInv
  <2>3. QED  BY <1>6, <1>8, <2>1, <2>2 DEF RowInv
<1>11. Unique'  BY <1>8 DEF Unique
<1>12. ASSUME NEW s \in Requests PROVE HandlerInv(s, req[s])'
  <2>1. HandlerInv(s, req[s])  OBVIOUS
  <2>2. Bound(req[s])'  BY <1>6, <1>7, <2>1 DEF HandlerInv, Bound
  <2>3. OnRecord(s, req[s])'
    BY <1>6, <1>7, <1>8, <2>1, Statuses DEF HandlerInv, OnRecord
  <2>4. Checked(s, req[s])'
    <3>1. req'[s].version = req[s].version  BY <1>6
    <3>2. CASE s[1] = c
      <4>1. PICK k \in 1..MaxAttempts : s = <<c, k>>  BY <3>2 DEF Requests
      <4>2. QED  BY <1>5, <3>1, <3>2, <4>1 DEF Checked
    <3>3. CASE s[1] # c
      <4>1. client'[s[1]] = client[s[1]]  BY <1>5, <3>3 DEF Requests
      <4>2. QED  BY <2>1, <3>1, <4>1 DEF HandlerInv, Checked
    <3>4. QED  BY <3>2, <3>3
  <2>5. QED  BY <2>2, <2>3, <2>4 DEF HandlerInv
<1>13. ASSUME NEW d \in Clients PROVE ClientInv(d)'
  <2>1. ClientInv(d)  OBVIOUS
  <2>2. ASSUME NEW k \in 1..MaxAttempts, k > client'[d].attempt
        PROVE  req'[<<d, k>>] = NewHandler
    <3>1. k > client[d].attempt /\ <<d, k>> # r
      BY <1>1, <1>5, <2>2 DEF a, r
    <3>2. <<d, k>> \in Requests /\ req[<<d, k>>] = NewHandler
      BY <2>1, <2>2, <3>1 DEF ClientInv, Requests
    <3>3. QED  BY <1>6, <3>1, <3>2
  <2>3. QED  BY <1>5, <2>1, <2>2 DEF ClientInv
<1>14. QED  BY <1>9, <1>10, <1>11, <1>12, <1>13

LEMMA FinishStep ==
  ASSUME Inv, NEW c \in Clients, Finish(c), UNCHANGED <<shared, tally, process>>
  PROVE  Inv'
<1> USE DEF Inv
<1>1. client \in [Clients -> Client]  BY DEF TypeOK
<1>2. /\ client' \in [Clients -> Client] /\ client'[c].state = "done"
      /\ \A d \in Clients : /\ client'[d].attempt = client[d].attempt
                            /\ client'[d].upload = client[d].upload
                            /\ d # c => client'[d] = client[d]
  BY <1>1 DEF Finish, Client
<1>3. UNCHANGED <<req, songs, log, nextId, backend, stops, tally>>
  BY DEF Finish, shared, process
<1>4. TypeOK'  BY <1>2, <1>3 DEF TypeOK
<1>5. \A row \in log' : RowInv(row)'  BY <1>3 DEF RowInv
<1>6. Unique'  BY <1>3 DEF Unique
<1>7. ASSUME NEW s \in Requests PROVE HandlerInv(s, req[s])'
  <2>1. HandlerInv(s, req[s]) /\ s[1] \in Clients  BY DEF Requests
  <2>2. QED  BY <1>2, <1>3, <2>1 DEF HandlerInv, Bound, OnRecord, Checked
<1>8. ASSUME NEW d \in Clients PROVE ClientInv(d)'
  <2>1. ClientInv(d)  OBVIOUS
  <2>2. QED  BY <1>2, <1>3, <2>1 DEF ClientInv
<1>9. QED  BY <1>4, <1>5, <1>6, <1>7, <1>8

LEMMA StartStep == ASSUME Inv, NEW c \in Clients, Start(c) PROVE Inv'
<1>1. PICK u \in Uploads : Send(c, u)  BY DEF Start
<1>2. client[c].attempt = 0 /\ ClientInv(c)  BY DEF Start, Inv, ClientInv
<1>3. \A k \in 1..MaxAttempts : req[<<c, k>>].version = Expected
  BY <1>2 DEF ClientInv, NewHandler
<1>4. u \in AllUploads /\ client[c].attempt < MaxAttempts
  BY <1>2, RecognitionAssumption
<1>5. QED  BY <1>1, <1>3, <1>4, SendStep DEF Start

LEMMA LoseStep == ASSUME Inv, NEW c \in Clients, Lose(c) PROVE Inv'
<1>1. CASE client[c].attempt < MaxAttempts /\ Send(c, client[c].upload)
  <2>1. client[c].upload \in AllUploads  BY DEF Inv, TypeOK, Client
  <2>2. ASSUME client[c].upload = "wav", NEW k \in 1..MaxAttempts
        PROVE  req[<<c, k>>].version = Expected
    <3>1. <<c, k>> \in Requests  BY DEF Requests
    <3>2. QED  BY <2>2, <3>1, CheckedNow
  <2>3. QED  BY <1>1, <2>1, <2>2, SendStep DEF Lose
<1>2. CASE Finish(c)  BY <1>2, FinishStep DEF Lose
<1>3. QED  BY <1>1, <1>2 DEF Lose

LEMMA HearStep == ASSUME Inv, NEW c \in Clients, Hear(c) PROVE Inv'
BY FinishStep DEF Hear

Unlinked(row, s) == IF row.song = s THEN [row EXCEPT !.song = NoSong] ELSE row

LEMMA DeleteSongStep == ASSUME Inv, NEW s \in Songs, DeleteSong(s) PROVE Inv'
<1> USE DEF Inv
<1>1. /\ songs' = songs \ {s} /\ log' = {Unlinked(row, s) : row \in log}
      /\ UNCHANGED <<client, req, nextId, tally, backend, stops>>
  BY DEF DeleteSong, Unlinked, process
<1>2. \A row \in log : /\ Unlinked(row, s) \in TableRow
                       /\ Unlinked(row, s).id = row.id /\ Unlinked(row, s).by = row.by
                       /\ Unlinked(row, s).recognized = row.recognized
                       /\ Unlinked(row, s).version = row.version
                       /\ Unlinked(row, s).song = IF row.song = s THEN NoSong ELSE row.song
  BY DEF TypeOK, TableRow, Unlinked
<1>3. TypeOK'  BY <1>1, <1>2 DEF TypeOK
<1>4. ASSUME NEW new \in log' PROVE RowInv(new)'
  <2>1. PICK row \in log : new = Unlinked(row, s)  BY <1>1
  <2>2. RowInv(row) /\ row.by \in Requests  BY DEF TypeOK, TableRow
  <2>3. NoSong \notin songs /\ NoSong # s  BY RecognitionAssumption DEF TypeOK
  <2>4. /\ new.id = row.id /\ new.by = row.by /\ new.recognized = row.recognized
        /\ new.version = row.version
        /\ new.song = IF row.song = s THEN NoSong ELSE row.song
    BY <1>2, <2>1
  <2>5. new.song = IF req[new.by].song \in songs' THEN req[new.by].song ELSE NoSong
    BY <1>1, <2>2, <2>3, <2>4 DEF RowInv
  <2>6. QED  BY <1>1, <2>2, <2>4, <2>5 DEF RowInv
<1>5. Unique'
  <2> SUFFICES ASSUME NEW new \in log', NEW other \in log',
                      new.by = other.by \/ new.id = other.id
               PROVE  new = other
    BY DEF Unique
  <2>1. PICK row \in log, old \in log : new = Unlinked(row, s) /\ other = Unlinked(old, s)
    BY <1>1
  <2>2. row = old  BY <1>2, <2>1 DEF Unique
  <2>3. QED  BY <2>1, <2>2
<1>6. ASSUME NEW r \in Requests PROVE HandlerInv(r, req[r])'
  <2>1. HandlerInv(r, req[r])  OBVIOUS
  <2>2. ASSUME req[r].status = OK, req[r].id # 0
        PROVE  \E new \in log' : new.by = r /\ new.id = req[r].id
    <3>1. PICK row \in log : row.by = r /\ row.id = req[r].id
      BY <2>1, <2>2 DEF HandlerInv, OnRecord
    <3>2. Unlinked(row, s) \in log'  BY <1>1
    <3>3. QED  BY <1>2, <3>1, <3>2
  <2>3. QED  BY <1>1, <2>1, <2>2 DEF HandlerInv, Bound, OnRecord, Checked
<1>7. \A c \in Clients : ClientInv(c)'  BY <1>1 DEF ClientInv
<1>8. QED  BY <1>3, <1>4, <1>5, <1>6, <1>7

-----------------------------------------------------------------------------
LEMMA InvStep == Inv /\ [Next]_vars => Inv'
<1> SUFFICES ASSUME Inv, [Next]_vars PROVE Inv'
  OBVIOUS
<1>1. ASSUME NEW c \in Clients, Start(c) \/ Lose(c) \/ Hear(c) PROVE Inv'
  BY <1>1, StartStep, LoseStep, HearStep
<1>2. ASSUME NEW r \in Requests,
             \/ Accept(r) \/ ReadBody(r) \/ Extract(r) \/ Lookup(r) \/ Fetch(r)
             \/ Insert(r) \/ Answer(r) \/ Timeout(r) \/ Disconnect(r)
      PROVE  Inv'
  BY <1>2, AcceptStep, ReadBodyStep, ExtractStep, LookupStep, FetchStep, InsertStep,
     AnswerStep, TimeoutStep, DisconnectStep
<1>3. CASE Shutdown \/ Stop \/ Crash \/ Boot  BY <1>3, CrashStep, ProcessStep
<1>4. ASSUME NEW s \in Songs, DeleteSong(s) PROVE Inv'  BY <1>4, DeleteSongStep
<1>5. CASE UNCHANGED vars
  <2>1. UNCHANGED <<client, req, songs, log, nextId, tally, backend, stops>>
    BY <1>5 DEF vars, shared, process
  <2>2. QED
    BY <2>1 DEF Inv, TypeOK, RowInv, Unique, HandlerInv, Bound, OnRecord, Checked, ClientInv
<1>6. QED  BY <1>1, <1>2, <1>3, <1>4, <1>5 DEF Next

LEMMA Invariance == Spec => []Inv
<1>1. QED  BY InvInit, InvStep, PTL DEF Spec

\* Every field holds a value of its kind, for any number of requests.
THEOREM TypeCorrect == Spec => []TypeOK
<1>1. Inv => TypeOK  BY DEF Inv
<1>2. QED  BY <1>1, Invariance, PTL

(***************************************************************************)
(* The id in an answer leads, by GET /api/v1/recognitions/{id}, to the row *)
(* of that very request: no other row has the id, and the row says what    *)
(* the handler said (recognition_service.rs finalize).                     *)
(***************************************************************************)
THEOREM AnswersOnRecord == Spec => []AnswersAreOnRecord
<1>1. Inv => AnswersAreOnRecord
  <2> SUFFICES ASSUME Inv, NEW r \in Requests, req[r].status = OK, req[r].id # 0
               PROVE  LET got == GetRecognition(req[r].id)
                      IN  /\ got.status = OK
                          /\ got.record.by = r
                          /\ got.record.recognized = (req[r].song # NoSong)
                          /\ got.record.version = req[r].version
                          /\ got.record.song = IF req[r].song \in songs THEN req[r].song
                                               ELSE NoSong
    BY DEF AnswersAreOnRecord
  <2> DEFINE id == req[r].id
             record == CHOOSE row \in log : row.id = id
  <2>1. PICK row \in log : row.by = r /\ row.id = id
    BY DEF Inv, HandlerInv, OnRecord
  <2>2. record \in log /\ record.id = id  BY <2>1
  <2>3. record = row  BY <2>1, <2>2 DEF Inv, Unique
  <2>4. RowInv(row) /\ id \in Nat \ {0}  BY <2>1 DEF Inv, TypeOK, TableRow
  <2>5. GetRecognition(id) = [status |-> OK, record |-> record]
    BY <2>1, <2>4 DEF GetRecognition
  <2> HIDE DEF id, record
  <2>6. GetRecognition(id).status = OK /\ GetRecognition(id).record = row
    BY <2>3, <2>5
  <2>7. QED  BY <2>1, <2>4, <2>6 DEF RowInv, id
<1>2. QED  BY <1>1, Invariance, PTL

\* A request leaves at most one row, and none if it was refused or failed,
\* whatever is dropped, retried, shut down or killed in the meantime.
THEOREM RowsEarned == Spec => []RowsAreEarned
<1>1. Inv => RowsAreEarned
  <2> SUFFICES ASSUME Inv PROVE RowsAreEarned
    OBVIOUS
  <2>1. \A row, other \in log : row.by = other.by => row = other  BY DEF Inv, Unique
  <2>2. ASSUME NEW row \in log
        PROVE  req[row.by].pc = "record" \/ req[row.by].status \in {OK, REQUEST_TIMEOUT, NoStatus}
    <3>1. row.by \in Requests /\ RowInv(row)  BY DEF Inv, TypeOK, TableRow
    <3>2. QED  BY <3>1 DEF Inv, HandlerInv, Bound, RowInv
  <2>3. QED  BY <2>1, <2>2 DEF RowsAreEarned
<1>2. QED  BY <1>1, Invariance, PTL

\* Audio is matched and logged under the expected version only, also when the
\* phone's second attempt meets a processor that has changed.
THEOREM VersionsNotMixed == Spec => []VersionsAreNotMixed
<1>1. Inv => VersionsAreNotMixed
  <2> SUFFICES ASSUME Inv, NEW r \in Requests, client[r[1]].upload = "wav"
               PROVE  /\ req[r].version = Expected
                      /\ \A row \in RowsBy(r) : row.version = Expected
    BY DEF VersionsAreNotMixed
  <2>1. req[r].version = Expected  BY CheckedNow
  <2>2. QED  BY <2>1 DEF Inv, RowInv, RowsBy
<1>2. QED  BY <1>1, Invariance, PTL
-----------------------------------------------------------------------------
(***************************************************************************)
(* The counters.  Until the backend is first stopped, each counter is the  *)
(* number of answers 200 with its verdict: an answer is counted in the     *)
(* step that gives it, and what has been answered is not touched again.    *)
(* The log agrees, for a request and its row have the same verdict.        *)
(***************************************************************************)
AnsweredHaveEnded == \A r \in Requests : req[r].status = OK => req[r].pc = "ended"

Counts(count, recognized) ==
    IsFiniteSet(Answered(recognized)) /\ count = Cardinality(Answered(recognized))

Counted ==
    stops = 0 =>
        /\ backend = "up"
        /\ Counts(tally.success, TRUE) /\ Counts(tally.failure, FALSE)

CountInv == AnsweredHaveEnded /\ Counted /\ IsFiniteSet(log)

\* A step that neither answers a request nor touches an answered one.
Quiet(r) ==
    /\ req'[r].status = OK <=> req[r].status = OK
    /\ req[r].status = OK => req'[r].song = req[r].song /\ req'[r].pc = req[r].pc

LEMMA CountInit == Init => CountInv
<1> SUFFICES ASSUME Init PROVE CountInv
  OBVIOUS
<1>1. \A r \in Requests : req[r].status # OK  BY DEF Init, NewHandler, OK, NoStatus
<1>2. Answered(TRUE) = {} /\ Answered(FALSE) = {}  BY <1>1 DEF Answered
<1>3. tally.success = 0 /\ tally.failure = 0 /\ backend = "up" /\ log = {}
  BY DEF Init, NoTally
<1>4. QED
  BY <1>1, <1>2, <1>3, FS_EmptySet DEF CountInv, AnsweredHaveEnded, Counted, Counts

LEMMA QuietDrop ==
  ASSUME Inv, NEW r \in Requests, req[r].status # OK,
         NEW status \in {NoStatus, REQUEST_TIMEOUT}, NEW h \in Drop(req[r], status)
  PROVE  h.status # OK
<1>1. req[r] \in Handler /\ status # OK  BY Statuses DEF Inv, TypeOK
<1>2. Ended(status).status = status  BY DEF Ended, NewHandler
<1>3. [req[r] EXCEPT !.pc = "ended", !.status = status].status = status
  BY <1>1 DEF Handler
<1>4. QED  BY <1>1, <1>2, <1>3 DEF Drop, Dropped

LEMMA QuietStep ==
  ASSUME Inv, AnsweredHaveEnded, [Next]_vars, ~ \E r \in Requests : Answer(r),
         NEW r \in Requests
  PROVE  Quiet(r)
<1>1. req \in [Requests -> Handler] /\ req[r] \in Handler  BY DEF Inv, TypeOK
<1>2. CASE UNCHANGED req  BY <1>2 DEF Quiet
<1>3. ASSUME NEW q \in Requests, q # r, NEW h, req' = [req EXCEPT ![q] = h]
      PROVE  Quiet(r)
  BY <1>1, <1>3 DEF Quiet
<1>4. ASSUME req[r].status # OK, req'[r].status # OK PROVE Quiet(r)
  BY <1>4 DEF Quiet
<1>5. ASSUME NEW q \in Requests, NEW e \in DOMAIN Status, Fail(q, e),
             req[q].pc \in {"sent"} \cup Awaits
      PROVE  Quiet(r)
  <2>1. CASE q = r
    <3>1. req'[r].status = Status[e]  BY <1>1, <1>5, <2>1 DEF Fail, Ended, NewHandler
    <3>2. req[r].status # OK  BY <1>5, <2>1 DEF AnsweredHaveEnded, Awaits
    <3>3. QED  BY <1>4, <3>1, <3>2, Statuses
  <2>2. CASE q # r  BY <1>3, <1>5, <2>2 DEF Fail
  <2>3. QED  BY <2>1, <2>2
<1>6. ASSUME NEW c \in Clients, NEW u, Send(c, u) PROVE Quiet(r)
  <2> DEFINE q == <<c, client[c].attempt + 1>>
  <2>1. req' = [req EXCEPT ![q] = [req[q] EXCEPT !.pc = "sent"]]  BY <1>6 DEF Send
  <2>2. CASE q = r
    <3>1. client[c].attempt \in Nat  BY DEF Inv, TypeOK, Client
    <3>2. client[c].attempt + 1 \in 1..MaxAttempts  BY <2>2 DEF Requests
    <3>3. client[c].attempt + 1 > client[c].attempt  BY <3>1
    <3>4. req[r] = NewHandler  BY <2>2, <3>2, <3>3 DEF Inv, ClientInv
    <3>5. req'[r].status = NoStatus  BY <1>1, <2>1, <2>2, <3>4 DEF NewHandler
    <3>6. QED  BY <1>4, <3>4, <3>5, Statuses DEF NewHandler
  <2>3. CASE q # r
    <3> HIDE DEF q
    <3>1. req'[r] = req[r]  BY <1>1, <2>1, <2>3
    <3>2. QED  BY <3>1 DEF Quiet
  <2>4. QED  BY <2>2, <2>3
<1>7. ASSUME NEW c \in Clients, Start(c) \/ Lose(c) \/ Hear(c) PROVE Quiet(r)
  BY <1>2, <1>6, <1>7 DEF Start, Lose, Hear, Finish
<1>8. ASSUME NEW q \in Requests,
             Accept(q) \/ ReadBody(q) \/ Extract(q) \/ Lookup(q) \/ Fetch(q)
      PROVE  Quiet(r)
  <2>1. CASE \E e \in DOMAIN Status : Fail(q, e)
    BY <1>5, <1>8, <2>1 DEF Accept, ReadBody, Extract, Lookup, Fetch, Awaits
  <2>2. CASE ~ \E e \in DOMAIN Status : Fail(q, e)
    <3>1. DOMAIN Status = {"MissingAudio", "InvalidAudio", "BadRequest",
                           "ProcessorRejected", "ProcessorUnavailable",
                           "AlgorithmVersionMismatch", "RateLimited", "Database",
                           "RecognitionNotFound"}
      BY DEF Status
    <3>2. /\ req[q].pc \in {"sent"} \cup Awaits
          /\ \/ \E pc \in Awaits : Goto(q, pc)
             \/ \E v \in Versions : req' = [req EXCEPT ![q].pc = "lookup", ![q].version = v]
             \/ \E s \in songs : req' = [req EXCEPT ![q].pc = "fetch", ![q].song = s]
             \/ \E s : ToRecord(q, s)
      BY <1>8, <2>2, <3>1, RecognitionAssumption
      DEF Accept, ReadBody, Extract, Lookup, Fetch, Awaits, ProcessorErrors
    <3>3. req'[q].status = req[q].status /\ (q # r => req'[r] = req[r])
      <4>1. req[q] \in Handler  BY <1>1
      <4>2. CASE \E pc \in Awaits : Goto(q, pc)
        BY <1>1, <4>1, <4>2 DEF Goto, Handler
      <4>3. CASE \E v \in Versions :
                    req' = [req EXCEPT ![q].pc = "lookup", ![q].version = v]
        BY <1>1, <4>1, <4>3 DEF Handler
      <4>4. CASE \E s \in songs : req' = [req EXCEPT ![q].pc = "fetch", ![q].song = s]
        BY <1>1, <4>1, <4>4 DEF Handler
      <4>5. CASE \E s : ToRecord(q, s)
        BY <1>1, <4>1, <4>5 DEF ToRecord, Handler
      <4>6. QED  BY <3>2, <4>2, <4>3, <4>4, <4>5
    <3>4. req[q].status # OK  BY <3>2 DEF AnsweredHaveEnded, Awaits
    <3>5. QED  BY <1>4, <3>3, <3>4 DEF Quiet
  <2>3. QED  BY <2>1, <2>2
<1>9. ASSUME NEW q \in Requests, Insert(q) PROVE Quiet(r)
  <2>1. \E i : req' = [req EXCEPT ![q].insert = i]  BY <1>9 DEF Insert
  <2>2. QED  BY <1>1, <2>1 DEF Quiet, Handler
<1>10. ASSUME NEW q \in Requests, Timeout(q) \/ Disconnect(q) PROVE Quiet(r)
  <2>1. PICK status \in {NoStatus, REQUEST_TIMEOUT} :
           \E h \in Drop(req[q], status) : req' = [req EXCEPT ![q] = h]
    BY <1>10 DEF Timeout, Disconnect
  <2>2. PICK h \in Drop(req[q], status) : req' = [req EXCEPT ![q] = h]  BY <2>1
  <2>3. req[q].status # OK  BY <1>10 DEF Timeout, Disconnect, AnsweredHaveEnded, Awaits
  <2>4. h.status # OK  BY <2>2, <2>3, QuietDrop
  <2>5. QED  BY <1>1, <1>3, <1>4, <2>2, <2>3, <2>4
<1>11. CASE Crash
  <2>1. req'[r] = IF r \in Handled THEN Dropped(req[r], NoStatus) ELSE req[r]
    BY <1>11 DEF Crash
  <2>2. CASE r \in Handled
    <3>1. req[r].status # OK  BY <2>2 DEF Handled, AnsweredHaveEnded, Awaits
    <3>2. Dropped(req[r], NoStatus) \in Drop(req[r], NoStatus)  BY DEF Drop
    <3>3. Dropped(req[r], NoStatus).status # OK  BY <3>1, <3>2, QuietDrop
    <3>4. QED  BY <1>4, <2>1, <2>2, <3>1, <3>3
  <2>3. CASE r \notin Handled  BY <2>1, <2>3 DEF Quiet
  <2>4. QED  BY <2>2, <2>3
<1>12. CASE Shutdown \/ Stop \/ Boot \/ (\E s \in Songs : DeleteSong(s)) \/ UNCHANGED vars
  BY <1>2, <1>12 DEF Shutdown, Stop, Boot, DeleteSong, vars
<1>13. QED  BY <1>7, <1>8, <1>9, <1>10, <1>11, <1>12 DEF Next

LEMMA LogStaysFinite == Inv /\ IsFiniteSet(log) /\ [Next]_vars => IsFiniteSet(log')
<1> SUFFICES ASSUME Inv, IsFiniteSet(log), [Next]_vars PROVE IsFiniteSet(log')
  OBVIOUS
<1>1. CASE UNCHANGED log  BY <1>1
<1>2. ASSUME NEW r \in Requests, Insert(r) PROVE IsFiniteSet(log')
  <2>1. log' = log \/ log' = log \cup {Row(r)}  BY <1>2 DEF Insert
  <2>2. QED  BY <2>1, FS_AddElement
<1>3. ASSUME NEW s \in Songs, DeleteSong(s) PROVE IsFiniteSet(log')
  <2> DEFINE f == [row \in log |-> Unlinked(row, s)]
  <2>1. log' = {Unlinked(row, s) : row \in log}  BY <1>3 DEF DeleteSong, Unlinked
  <2>2. f \in Surjection(log, log')  BY <2>1 DEF Surjection
  <2> HIDE DEF f
  <2>3. QED  BY <2>2, FS_Surjection
<1>4. UNCHANGED log \/ (\E r \in Requests : Insert(r)) \/ \E s \in Songs : DeleteSong(s)
  <2>1. ASSUME NEW c \in Clients, Start(c) \/ Lose(c) \/ Hear(c) PROVE UNCHANGED log
    BY <2>1 DEF Start, Lose, Hear, shared
  <2>2. ASSUME NEW r \in Requests,
               \/ Accept(r) \/ ReadBody(r) \/ Extract(r) \/ Lookup(r) \/ Fetch(r)
               \/ Answer(r) \/ Timeout(r) \/ Disconnect(r)
        PROVE  UNCHANGED log
    BY <2>2 DEF Accept, ReadBody, Extract, Lookup, Fetch, Answer, Timeout, Disconnect, shared
  <2>3. CASE Shutdown \/ Stop \/ Crash \/ Boot \/ UNCHANGED vars
    BY <2>3 DEF Shutdown, Stop, Crash, Boot, vars, shared
  <2>4. QED  BY <2>1, <2>2, <2>3 DEF Next
<1>5. QED  BY <1>1, <1>2, <1>3, <1>4

\* An answer moves one request into Answered, and one counter with it.
LEMMA AnswerCounts ==
  ASSUME Inv, CountInv, NEW r \in Requests, Answer(r)
  PROVE  CountInv'
<1>1. /\ req[r].pc = "record" /\ req[r].status # OK
      /\ req \in [Requests -> Handler] /\ req[r] \in Handler
  BY DEF Answer, CountInv, AnsweredHaveEnded, Inv, TypeOK
<1>2. PICK id : req' = [req EXCEPT ![r].pc = "ended", ![r].status = OK, ![r].id = id]
  BY DEF Answer
<1>3. /\ req'[r].pc = "ended" /\ req'[r].status = OK /\ req'[r].song = req[r].song
      /\ \A q \in Requests : q # r => req'[q] = req[q]
  BY <1>1, <1>2 DEF Handler
<1>4. AnsweredHaveEnded'  BY <1>3 DEF CountInv, AnsweredHaveEnded
<1>5. UNCHANGED <<log, backend, stops>>  BY DEF Answer, shared, process
<1>6. /\ req[r].song # NoSong =>
            /\ Answered(TRUE)' = Answered(TRUE) \cup {r}
            /\ Answered(FALSE)' = Answered(FALSE)
      /\ req[r].song = NoSong =>
            /\ Answered(TRUE)' = Answered(TRUE)
            /\ Answered(FALSE)' = Answered(FALSE) \cup {r}
  BY <1>1, <1>3 DEF Answered
<1>7. r \notin Answered(TRUE) /\ r \notin Answered(FALSE)  BY <1>1 DEF Answered
<1>8. /\ tally \in [success : Nat, failure : Nat] /\ Count(r)
  BY DEF Inv, TypeOK, Answer
<1>9. /\ req[r].song # NoSong =>
            tally'.success = tally.success + 1 /\ tally'.failure = tally.failure
      /\ req[r].song = NoSong =>
            tally'.success = tally.success /\ tally'.failure = tally.failure + 1
  BY <1>8 DEF Count
<1>10. ASSUME stops = 0
       PROVE  Counts(tally.success, TRUE)' /\ Counts(tally.failure, FALSE)'
  <2>1. /\ IsFiniteSet(Answered(TRUE)) /\ tally.success = Cardinality(Answered(TRUE))
        /\ IsFiniteSet(Answered(FALSE)) /\ tally.failure = Cardinality(Answered(FALSE))
    BY <1>10 DEF CountInv, Counted, Counts
  <2>2. /\ IsFiniteSet(Answered(TRUE) \cup {r})
        /\ Cardinality(Answered(TRUE) \cup {r}) = Cardinality(Answered(TRUE)) + 1
    BY <1>7, <2>1, FS_AddElement
  <2>3. /\ IsFiniteSet(Answered(FALSE) \cup {r})
        /\ Cardinality(Answered(FALSE) \cup {r}) = Cardinality(Answered(FALSE)) + 1
    BY <1>7, <2>1, FS_AddElement
  <2>4. CASE req[r].song # NoSong  BY <1>6, <1>9, <2>1, <2>2, <2>4 DEF Counts
  <2>5. CASE req[r].song = NoSong  BY <1>6, <1>9, <2>1, <2>3, <2>5 DEF Counts
  <2>6. QED  BY <2>4, <2>5
<1>11. QED  BY <1>4, <1>5, <1>10 DEF CountInv, Counted

LEMMA CountStep == Inv /\ CountInv /\ [Next]_vars => CountInv'
<1> SUFFICES ASSUME Inv, CountInv, [Next]_vars PROVE CountInv'
  OBVIOUS
<1>1. CASE \E r \in Requests : Answer(r)  BY <1>1, AnswerCounts
<1>2. CASE ~ \E r \in Requests : Answer(r)
  <2>1. \A r \in Requests : Quiet(r)  BY <1>2, QuietStep DEF CountInv
  <2>2. AnsweredHaveEnded'  BY <2>1 DEF Quiet, CountInv, AnsweredHaveEnded
  <2>3. Answered(TRUE)' = Answered(TRUE) /\ Answered(FALSE)' = Answered(FALSE)
    BY <2>1 DEF Quiet, Answered
  <2>4. stops' = 0 => stops = 0 /\ (backend = "up" => backend' = "up" /\ tally' = tally)
    <3>1. ASSUME NEW c \in Clients, Start(c) \/ Lose(c) \/ Hear(c)
          PROVE  UNCHANGED <<stops, backend, tally>>
      BY <3>1 DEF Start, Lose, Hear, process
    <3>2. ASSUME NEW r \in Requests,
                 \/ Accept(r) \/ ReadBody(r) \/ Extract(r) \/ Lookup(r) \/ Fetch(r)
                 \/ Insert(r) \/ Timeout(r) \/ Disconnect(r)
          PROVE  UNCHANGED <<stops, backend, tally>>
      BY <3>2 DEF Accept, ReadBody, Extract, Lookup, Fetch, Insert, Timeout, Disconnect,
         process
    <3>3. ASSUME NEW s \in Songs, DeleteSong(s) PROVE UNCHANGED <<stops, backend, tally>>
      BY <3>3 DEF DeleteSong, process
    <3>4. CASE Shutdown \/ Crash
      <4>1. stops' = stops + 1 /\ stops \in Nat
        BY <3>4, RecognitionAssumption DEF Shutdown, Crash, Inv, TypeOK
      <4>2. QED  BY <4>1
    <3>5. CASE Stop \/ Boot  BY <3>5 DEF Stop, Boot
    <3>6. CASE UNCHANGED vars  BY <3>6 DEF vars
    <3>7. QED  BY <1>2, <3>1, <3>2, <3>3, <3>4, <3>5, <3>6 DEF Next
  <2>5. Counted'  BY <2>3, <2>4 DEF CountInv, Counted, Counts
  <2>6. QED  BY <2>2, <2>5, LogStaysFinite DEF CountInv
<1>3. QED  BY <1>1, <1>2

\* The rows of answered requests are as many as the requests that have a row.
LEMMA AnswersMatchLog ==
  ASSUME Inv, IsFiniteSet(log), NEW recognized \in BOOLEAN, NEW count,
         Counts(count, recognized)
  PROVE  AddsUp(count, recognized)
<1> DEFINE rows == {row \in log : row.recognized = recognized}
           open == {row \in log : row.recognized = recognized /\ req[row.by].status # OK}
           closed == rows \ open
           lost == {r \in Answered(recognized) : RowsBy(r) = {}}
           kept == Answered(recognized) \ lost
           f == [row \in closed |-> row.by]
<1>1. IsFiniteSet(rows)
  <2>1. rows \in SUBSET log  OBVIOUS
  <2>2. QED  BY <2>1, FS_Subset
<1>2. /\ IsFiniteSet(open) /\ IsFiniteSet(closed)
      /\ Cardinality(rows) = Cardinality(open) + Cardinality(closed)
  <2>1. open \in SUBSET rows /\ rows \cap open = open  OBVIOUS
  <2> HIDE DEF rows, open
  <2>2. IsFiniteSet(open) /\ IsFiniteSet(closed)  BY <1>1, <2>1, FS_Subset, FS_Difference
  <2>3. Cardinality(closed) = Cardinality(rows) - Cardinality(open)
    BY <1>1, <2>1, FS_Difference
  <2>4. Cardinality(rows) \in Nat /\ Cardinality(open) \in Nat
    BY <1>1, <2>2, FS_CardinalityType
  <2>5. QED  BY <2>2, <2>3, <2>4
<1>3. /\ IsFiniteSet(lost) /\ IsFiniteSet(kept)
      /\ count = Cardinality(lost) + Cardinality(kept)
  <2>1. /\ IsFiniteSet(Answered(recognized))
        /\ count = Cardinality(Answered(recognized))
    BY DEF Counts
  <2>2. lost \in SUBSET Answered(recognized) /\ Answered(recognized) \cap lost = lost
    OBVIOUS
  <2> HIDE DEF lost
  <2>3. IsFiniteSet(lost) /\ IsFiniteSet(kept)  BY <2>1, <2>2, FS_Subset, FS_Difference
  <2>4. Cardinality(kept) = Cardinality(Answered(recognized)) - Cardinality(lost)
    BY <2>1, <2>2, FS_Difference
  <2>5. Cardinality(Answered(recognized)) \in Nat /\ Cardinality(lost) \in Nat
    BY <2>1, <2>3, FS_CardinalityType
  <2>6. QED  BY <2>1, <2>3, <2>4, <2>5
<1>4. ASSUME NEW row \in log
      PROVE  row.by \in Requests /\ row.recognized = (req[row.by].song # NoSong)
  BY DEF Inv, TypeOK, TableRow, RowInv
<1>5. f \in [closed -> kept]
  <2> SUFFICES ASSUME NEW row \in closed PROVE row.by \in kept
    OBVIOUS
  <2>1. row \in log /\ row.recognized = recognized /\ req[row.by].status = OK
    OBVIOUS
  <2>2. row.by \in Answered(recognized)  BY <1>4, <2>1 DEF Answered
  <2>3. row \in RowsBy(row.by)  BY <2>1 DEF RowsBy
  <2>4. QED  BY <2>2, <2>3
<1>6. \A x, y \in closed : f[x] = f[y] => x = y  BY DEF Inv, Unique
<1>7. ASSUME NEW r \in kept PROVE \E row \in closed : f[row] = r
  <2>1. r \in Answered(recognized) /\ RowsBy(r) # {}  OBVIOUS
  <2>2. PICK row \in log : row.by = r  BY <2>1 DEF RowsBy
  <2>3. row.recognized = recognized /\ req[row.by].status = OK
    BY <1>4, <2>1, <2>2 DEF Answered
  <2>4. row \in closed /\ f[row] = r  BY <2>2, <2>3
  <2>5. QED  BY <2>4
<1>8. ExistsBijection(closed, kept)
  <2> HIDE DEF f, closed, kept
  <2>1. f \in Bijection(closed, kept)
    BY <1>5, <1>6, <1>7 DEF Bijection, Injection, Surjection, IsInjective
  <2>2. QED  BY <2>1 DEF ExistsBijection
<1>9. Cardinality(kept) = Cardinality(closed)
  <2> HIDE DEF closed, kept
  <2>1. QED  BY <1>2, <1>8, FS_Bijection
<1>10. count + Cardinality(open) = Cardinality(rows) + Cardinality(lost)
  <2> HIDE DEF rows, open, closed, lost, kept
  <2>1. /\ Cardinality(open) \in Nat /\ Cardinality(closed) \in Nat
        /\ Cardinality(lost) \in Nat /\ Cardinality(kept) \in Nat
    BY <1>2, <1>3, FS_CardinalityType
  <2>2. QED  BY <1>2, <1>3, <1>9, <2>1
<1>11. QED  BY <1>10 DEF AddsUp

\* While the backend has not been stopped, its two counters are the log's
\* verdicts, less the rows of dropped requests, plus the answers that have no
\* row: for any number of clients, retries, timeouts and deleted songs
\* (recognition_handler.rs 106-112, 159-163).
THEOREM CountersAgree == Spec => []CountersAddUp
<1>1. Inv /\ CountInv => CountersAddUp
  BY AnswersMatchLog DEF CountInv, Counted, CountersAddUp
<1>2. QED  BY <1>1, CountInit, CountStep, Invariance, PTL DEF Spec
=============================================================================
