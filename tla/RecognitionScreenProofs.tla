----------------------- MODULE RecognitionScreenProofs -----------------------
(***************************************************************************)
(* Theorems of RecognitionScreen for any number of taps: what the screen   *)
(* says of the coroutines, and what a result says of the history.          *)
(***************************************************************************)
EXTENDS RecognitionScreen, TLAPS

(***************************************************************************)
(* The inductive invariant.  UiTellsTheTruth holds its own against the     *)
(* coroutines; against a permission that is refused late it needs that     *)
(* nothing runs before it is granted, and the navigation needs that behind *)
(* what is composed as settled there is nothing under way.                 *)
(***************************************************************************)
Unsaved == {"new", "capturing", "uploading"}

CancelInv == \A j \in cancelled : job[j] # "new"

RowsInv ==
    \A j \in Jobs :
        /\ job[j] \in Unsaved => insert[j] = "none"
        /\ history[j] = IF insert[j] = "done" THEN 1 ELSE 0

ResultInv ==
    ui.kind = "Result" => ui.job \in Jobs /\ ui.job = current /\ insert[ui.job] = "done"

ScreenInv ==
    /\ ResultScreenIsAtRest
    /\ shown \in Terminal => LiveJobs = {} /\ (ui.kind \in Terminal \/ LateFailure)

GrantInv ==
    /\ asking => ~granted
    /\ ~granted => /\ \A j \in Jobs : job[j] \notin Live
                   /\ ui.kind \in {"Idle", "PermissionDenied"} /\ ~LateFailure

\* The ViewModel's own variables, and the others.
ModelType ==
    /\ ui \in [kind : UiStates, job : Jobs \cup {NoJob}]
    /\ current \in Jobs \cup {NoJob}
    /\ job \in [Jobs -> Live \cup {"new", "done"}]
    /\ cancelled \subseteq Jobs

ThreadType ==
    /\ mic \in [Jobs -> {"closed", "open", "released", "failed"}]
    /\ insert \in [Jobs -> {"none", "pending", "done", "failed"}]
    /\ history \in [Jobs -> 0..1]

ScreenType ==
    /\ shown \in UiStates \cup {Nothing}
    /\ screen \in {"home", "result", "history"}
    /\ app \in {"started", "stopped"}
    /\ asking \in BOOLEAN /\ granted \in BOOLEAN

ModelInv == ModelType /\ CancelInv /\ UiTellsTheTruth

Inv == ModelInv /\ ThreadType /\ ScreenType /\ RowsInv /\ ResultInv /\ ScreenInv /\ GrantInv

LEMMA Types == TypeOK <=> ModelType /\ ThreadType /\ ScreenType
  BY DEF TypeOK, ModelType, ThreadType, ScreenType

LEMMA NoJobs == NoJob \notin Jobs
  BY ScreenAssumption DEF NoJob, Jobs

UiType == [kind : UiStates, job : Jobs \cup {NoJob}]

LEMMA States ==
  \A kind \in UiStates :
     State(kind) \in UiType /\ State(kind).kind = kind /\ State(kind).job = NoJob
  BY DEF State, UiType

LEMMA InvInit == Init => Inv
<1> SUFFICES ASSUME Init PROVE Inv
  OBVIOUS
<1>1. ui.kind = "Idle" /\ ModelType
  BY States DEF Init, ModelType, UiStates, UiType
<1>2. LiveJobs = {}  BY DEF Init, LiveJobs, Live
<1>3. UiTellsTheTruth /\ CancelInv  BY <1>1, <1>2 DEF Init, UiTellsTheTruth, CancelInv
<1>4. ThreadType /\ ScreenType
  <2>1. ThreadType  BY DEF Init, ThreadType
  <2>2. ScreenType  BY DEF Init, ScreenType, UiStates
  <2>3. QED  BY <2>1, <2>2
<1>5. RowsInv /\ ResultInv  BY <1>1 DEF Init, RowsInv, ResultInv
<1>6. ScreenInv /\ GrantInv
  BY <1>1, <1>2 DEF Init, ScreenInv, ResultScreenIsAtRest, LateFailure, GrantInv, Terminal, Live
<1>7. QED  BY <1>1, <1>3, <1>4, <1>5, <1>6 DEF Inv, ModelInv

-----------------------------------------------------------------------------
(***************************************************************************)
(* The operations of the ViewModel.                                        *)
(***************************************************************************)
LEMMA OnlyCurrent ==
  ASSUME ModelInv
  PROVE  \A j \in Jobs : job[j] \in Live => j = current \/ j \in cancelled
  BY DEF ModelInv, UiTellsTheTruth, LiveJobs

LEMMA NothingLeft ==
  ASSUME ModelInv, Cancel
  PROVE  /\ cancelled' \subseteq Jobs
         /\ \A j \in cancelled' : job[j] # "new"
         /\ \A j \in Jobs : job[j] \in Live => j \in cancelled'
<1>1. LiveJobs \subseteq {current}  BY DEF ModelInv, UiTellsTheTruth
<1>2. cancelled' = cancelled \cup LiveJobs  BY <1>1 DEF Cancel
<1>3. cancelled \subseteq Jobs /\ \A j \in cancelled : job[j] # "new"
  BY DEF ModelInv, ModelType, CancelInv
<1>4. \A j \in LiveJobs : j \in Jobs /\ job[j] # "new"  BY DEF LiveJobs, Live
<1>5. \A j \in Jobs : job[j] \in Live => j \in cancelled \/ j \in LiveJobs  BY DEF LiveJobs
<1>6. QED  BY <1>2, <1>3, <1>4, <1>5

\* What an operation does that starts or ends jobs from outside.
Fresh ==
    /\ ModelInv'
    /\ \A j \in Jobs : job'[j] \in Unsaved => job[j] \in Unsaved

\* Nothing is under way any more.
LEMMA AtRest ==
  ASSUME ModelInv, ui' \in UiType, ui'.kind \notin {"Listening", "Processing"},
         Cancel, UNCHANGED <<current, job>>
  PROVE  Fresh /\ LiveJobs' = {}
<1>1. LiveJobs' = {}  BY NothingLeft DEF LiveJobs
<1>2. ModelType' /\ CancelInv'
  BY NothingLeft DEF ModelInv, ModelType, CancelInv, UiType
<1>3. UiTellsTheTruth'  BY <1>1 DEF UiTellsTheTruth
<1>4. QED  BY <1>1, <1>2, <1>3 DEF Fresh, ModelInv

LEMMA Started ==
  ASSUME ModelInv, StartListening
  PROVE  Fresh /\ (UNCHANGED <<ui, coroutine>> \/ ui'.kind = "Listening")
<1>1. CASE UNCHANGED <<ui, coroutine>>
  BY <1>1 DEF coroutine, Fresh, ModelInv, ModelType, CancelInv, UiTellsTheTruth, LiveJobs, LateFailure
<1>2. ASSUME NEW i \in Jobs, job[i] = "new", ui' = State("Listening"), Cancel, current' = i,
             job' = [job EXCEPT ![i] = "capturing"]
      PROVE  Fresh /\ ui'.kind = "Listening"
  <2>1. ui'.kind = "Listening" /\ ui' \in UiType  BY <1>2, States DEF UiStates
  <2>2. job'[i] = "capturing" /\ \A j \in Jobs : j # i => job'[j] = job[j]
    BY <1>2 DEF ModelInv, ModelType
  <2>3. ModelType' /\ CancelInv'
    BY <1>2, <2>1, <2>2, NothingLeft DEF ModelInv, ModelType, CancelInv, UiType, Live
  <2>4. i \notin cancelled'  BY <1>2, NothingLeft
  <2>5. LiveJobs' = {i}
    <3>1. \A j \in LiveJobs' : j = i  BY <1>2, <2>2, NothingLeft DEF LiveJobs
    <3>2. i \in LiveJobs'  BY <2>2, <2>4 DEF LiveJobs, Live
    <3>3. QED  BY <3>1, <3>2
  <2>6. UiTellsTheTruth'  BY <1>2, <2>1, <2>2, <2>5 DEF UiTellsTheTruth
  <2>7. \A j \in Jobs : job'[j] \in Unsaved => job[j] \in Unsaved
    BY <1>2, <2>2 DEF Unsaved
  <2>8. QED  BY <2>1, <2>3, <2>6, <2>7 DEF Fresh, ModelInv
<1>3. QED  BY <1>1, <1>2 DEF StartListening

\* How Inv follows from what an operation has done.
LEMMA FreshInv ==
  ASSUME Inv, Fresh, UNCHANGED threads, ScreenType', ResultInv', ScreenInv', GrantInv'
  PROVE  Inv'
<1>1. UNCHANGED <<mic, insert, history>>  BY DEF threads
<1>2. ThreadType'  BY <1>1 DEF Inv, ThreadType
<1>3. RowsInv'  BY <1>1 DEF Inv, RowsInv, Fresh
<1>4. QED  BY <1>2, <1>3 DEF Inv, Fresh

-----------------------------------------------------------------------------
(***************************************************************************)
(* The coroutines.                                                         *)
(***************************************************************************)
\* One that has not been cancelled.
LEMMA Running ==
  ASSUME Inv, NEW j \in LiveJobs
  PROVE  /\ j = current /\ granted /\ LiveJobs = {j}
         /\ ui.kind \notin Terminal
         /\ screen # "result" /\ shown \notin Terminal
<1>1. j = current /\ LiveJobs = {j}  BY DEF Inv, ModelInv, UiTellsTheTruth
<1>2. ui.kind \notin Terminal
  BY <1>1 DEF Inv, ModelInv, UiTellsTheTruth, LateFailure, Terminal
<1>3. granted  BY DEF Inv, GrantInv, LiveJobs
<1>4. screen # "result" /\ shown \notin Terminal
  BY <1>1 DEF Inv, ScreenInv, ResultScreenIsAtRest
<1>5. QED  BY <1>1, <1>2, <1>3, <1>4

\* A coroutine that ends takes no other with it.
LEMMA Ended ==
  ASSUME Inv, NEW j \in Jobs, job[j] \in Live, Goes(j, "done")
  PROVE  /\ LiveJobs' = LiveJobs \ {j}
         /\ \A i \in Jobs : i # j => job'[i] = job[i]
         /\ job' \in [Jobs -> Live \cup {"new", "done"}]
         /\ CancelInv' /\ \A i \in Jobs : job'[i] \in Unsaved => job[i] \in Unsaved
<1>1. /\ job'[j] = "done" /\ \A i \in Jobs : i # j => job'[i] = job[i]
      /\ job' \in [Jobs -> Live \cup {"new", "done"}]
      /\ cancelled' = cancelled /\ cancelled \subseteq Jobs
  BY DEF Goes, Inv, ModelInv, ModelType
<1>2. \A i \in Jobs : i \in LiveJobs' <=> i \in LiveJobs /\ i # j
  BY <1>1 DEF LiveJobs, Live
<1>3. LiveJobs \subseteq Jobs /\ LiveJobs' \subseteq Jobs  BY DEF LiveJobs
<1>4. CancelInv'  BY <1>1 DEF Inv, ModelInv, CancelInv
<1>5. \A i \in Jobs : job'[i] \in Unsaved => job[i] \in Unsaved  BY <1>1 DEF Unsaved
<1>6. QED  BY <1>1, <1>2, <1>3, <1>4, <1>5

Settled == {"Result", "NotFound", "Error", "PermissionDenied"}

LEMMA SettleStep ==
  ASSUME Inv, NEW j \in Jobs, job[j] \in Live, NEW kind \in Settled, Settle(j, kind),
         j \in cancelled => kind \in {"Error", "PermissionDenied"},
         kind = "Result" => insert[j] = "done",
         UNCHANGED <<shown, threads, screen, app, permission>>
  PROVE  Inv'
<1>1. /\ ui' = [kind |-> kind, job |-> j] /\ Goes(j, "done")
      /\ UNCHANGED <<current, cancelled>>
  BY DEF Settle, Goes
<1>2. ui' \in UiType /\ ui'.kind = kind /\ ui'.job = j
  BY <1>1 DEF UiType, UiStates, Settled, Terminal
<1>3. ModelType'  BY <1>1, <1>2, Ended DEF Inv, ModelInv, ModelType, UiType
<1>4. LateFailure' <=> kind \in {"Error", "PermissionDenied"} /\ j \in cancelled
  BY <1>1, <1>2 DEF LateFailure
<1>5. UNCHANGED <<shown, mic, insert, history, screen, app, asking, granted>>
  BY DEF threads, permission
<1>6. granted /\ ScreenType'
  <2>1. granted  BY DEF Inv, GrantInv
  <2>2. ScreenType'  BY <1>5 DEF Inv, ScreenType
  <2>3. QED  BY <2>1, <2>2
<1>7. GrantInv'  BY <1>5, <1>6 DEF Inv, GrantInv
<1>8. CASE j \in cancelled
  <2>1. LiveJobs' = LiveJobs  BY <1>1, <1>8, Ended DEF LiveJobs
  <2>2. LateFailure' /\ kind \in {"Error", "PermissionDenied"}  BY <1>4, <1>8
  <2>3. UiTellsTheTruth'
    BY <1>1, <1>2, <2>1, <2>2 DEF Inv, ModelInv, UiTellsTheTruth
  <2>4. Fresh  BY <1>1, <1>3, <2>3, Ended DEF Fresh, ModelInv
  <2>5. ResultInv'  BY <1>2, <2>2 DEF ResultInv
  <2>6. ScreenInv'  BY <1>5, <2>1, <2>2 DEF Inv, ScreenInv, ResultScreenIsAtRest
  <2>7. QED  BY <1>6, <1>7, <2>4, <2>5, <2>6, FreshInv
<1>9. CASE j \notin cancelled
  <2>1. j \in LiveJobs  BY <1>9 DEF LiveJobs
  <2>2. LiveJobs' = {}  BY <1>1, <2>1, Ended, Running
  <2>3. UiTellsTheTruth'  BY <1>2, <2>2 DEF UiTellsTheTruth, Settled
  <2>4. Fresh  BY <1>1, <1>3, <2>3, Ended DEF Fresh, ModelInv
  <2>5. ResultInv'  BY <1>1, <1>2, <1>5, <2>1, Running DEF ResultInv
  <2>6. ScreenInv'  BY <1>5, <2>1, Running DEF ScreenInv, ResultScreenIsAtRest
  <2>7. QED  BY <1>6, <1>7, <2>4, <2>5, <2>6, FreshInv
<1>10. QED  BY <1>8, <1>9

\* The cancelled coroutine that ends in silence.
LEMMA UnwindStep ==
  ASSUME Inv, NEW j \in Jobs, job[j] \in Live, Unwind(j),
         UNCHANGED <<shown, threads, screen, app, permission>>
  PROVE  Inv'
<1>1. j \in cancelled /\ Goes(j, "done") /\ UNCHANGED <<ui, current, cancelled>>
  BY DEF Unwind, Goes
<1>2. UNCHANGED <<shown, mic, insert, history, screen, app, asking, granted>>
  BY DEF threads, permission
<1>3. LiveJobs' = LiveJobs /\ \A i \in LiveJobs : job'[i] = job[i]
  BY <1>1, Ended DEF LiveJobs
<1>4. LateFailure' = LateFailure  BY <1>1 DEF LateFailure
<1>5. ModelType'  BY <1>1, Ended DEF Inv, ModelInv, ModelType
<1>6. UiTellsTheTruth'  BY <1>1, <1>3, <1>4 DEF Inv, ModelInv, UiTellsTheTruth
<1>7. Fresh  BY <1>1, <1>5, <1>6, Ended DEF Fresh, ModelInv
<1>8. ScreenType' /\ ResultInv'  BY <1>1, <1>2 DEF Inv, ScreenType, ResultInv
<1>9. ScreenInv'  BY <1>1, <1>2, <1>3, <1>4 DEF Inv, ScreenInv, ResultScreenIsAtRest
<1>10. GrantInv'  BY <1>1, <1>2 DEF Inv, GrantInv
<1>11. QED  BY <1>7, <1>8, <1>9, <1>10, FreshInv

\* On to the next suspension: capturing, uploading or saving.
LEMMA Continued ==
  ASSUME Inv, NEW j \in LiveJobs, NEW at \in Live, Goes(j, at), ui' \in UiType,
         ui'.kind = (IF at = "capturing" THEN "Listening" ELSE "Processing") \/ UNCHANGED ui,
         UNCHANGED ui => at = "saving" /\ job[j] = "uploading"
  PROVE  ModelInv'
<1>1. j \in Jobs /\ j \notin cancelled /\ job[j] \in Live  BY DEF LiveJobs
<1>2. /\ job'[j] = at /\ \A i \in Jobs : i # j => job'[i] = job[i]
      /\ job' \in [Jobs -> Live \cup {"new", "done"}]
      /\ UNCHANGED <<current, cancelled>>
  BY <1>1 DEF Goes, Inv, ModelInv, ModelType
<1>3. ModelType' /\ CancelInv'
  BY <1>1, <1>2 DEF Inv, ModelInv, ModelType, CancelInv, UiType
<1>4. LiveJobs' = {j}
  <2>1. LiveJobs = {j}  BY Running
  <2>2. \A i \in Jobs : i \in LiveJobs' <=> i \in LiveJobs  BY <1>1, <1>2 DEF LiveJobs
  <2>3. LiveJobs \subseteq Jobs /\ LiveJobs' \subseteq Jobs  BY DEF LiveJobs
  <2>4. QED  BY <2>1, <2>2, <2>3
<1>5. j = current'  BY <1>2, Running
<1>6. UiTellsTheTruth'
  <2>1. CASE UNCHANGED ui
    <3>1. LateFailure' = LateFailure  BY <1>2, <2>1 DEF LateFailure
    <3>2. ui.kind # "Listening" /\ at = "saving"
      BY <2>1, Running DEF Inv, ModelInv, UiTellsTheTruth
    <3>3. ui.kind = "Processing" \/ LateFailure
      BY <3>2 DEF Inv, ModelInv, UiTellsTheTruth
    <3>4. QED  BY <1>2, <1>4, <1>5, <2>1, <3>1, <3>2, <3>3 DEF UiTellsTheTruth, Live
  <2>2. CASE ui'.kind = IF at = "capturing" THEN "Listening" ELSE "Processing"
    BY <1>2, <1>4, <1>5, <1>1, <2>2 DEF UiTellsTheTruth, Live
  <2>3. QED  BY <2>1, <2>2
<1>7. QED  BY <1>3, <1>6 DEF ModelInv


LEMMA ChunkStep == ASSUME Inv, NEW j \in Jobs, Chunk(j) PROVE Inv'
<1>1. /\ j \in LiveJobs /\ job[j] = "capturing" /\ ui' = State("Listening")
      /\ UNCHANGED <<shown, current, job, cancelled, threads, screen, app, asking, granted>>
  BY DEF Chunk, coroutine, permission
<1>2. ui' \in UiType /\ ui'.kind = "Listening"  BY <1>1, States DEF UiStates
<1>3. LiveJobs' = LiveJobs /\ LiveJobs = {j} /\ j = current  BY <1>1, Running DEF LiveJobs
<1>4. ModelType' /\ CancelInv' /\ UiTellsTheTruth'
  BY <1>1, <1>2, <1>3 DEF Inv, ModelInv, ModelType, CancelInv, UiTellsTheTruth, UiType
<1>5. Fresh  BY <1>1, <1>4 DEF Fresh, ModelInv
<1>6. ScreenType' /\ ResultInv'  BY <1>1, <1>2 DEF Inv, ScreenType, ResultInv
<1>7. ScreenInv' /\ GrantInv'
  BY <1>1, Running DEF Inv, ScreenInv, ResultScreenIsAtRest, GrantInv
<1>8. QED  BY <1>1, <1>5, <1>6, <1>7, FreshInv

LEMMA CapturedStep == ASSUME Inv, NEW j \in Jobs, Captured(j) PROVE Inv'
<1>1. /\ job[j] = "capturing" /\ job[j] \in Live
      /\ UNCHANGED <<shown, threads, screen, app, permission>>
  BY DEF Captured, Live
<1>2. CASE j \notin cancelled /\ ui' = State("Processing") /\ Goes(j, "uploading")
  <2>1. j \in LiveJobs  BY <1>1, <1>2 DEF LiveJobs
  <2>2. ui' \in UiType /\ ui'.kind = "Processing"  BY <1>2, States DEF UiStates
  <2>3. ModelInv'
    <3>1. ui # ui'
      BY <2>1, <2>2, <1>1, Running DEF Inv, ModelInv, UiTellsTheTruth
    <3>2. QED  BY <1>2, <2>1, <2>2, <3>1, Continued DEF Live
  <2>4. \A i \in Jobs : job'[i] \in Unsaved => job[i] \in Unsaved
    BY <1>1, <1>2 DEF Goes, Unsaved, Inv, ModelInv, ModelType
  <2>5. UNCHANGED <<shown, screen, app, asking, granted>>  BY <1>1 DEF permission
  <2>6. ScreenType' /\ ResultInv' /\ ScreenInv' /\ GrantInv'
    BY <2>1, <2>2, <2>5, Running
       DEF Inv, ScreenType, ResultInv, ScreenInv, ResultScreenIsAtRest, GrantInv
  <2>7. QED  BY <1>1, <2>3, <2>4, <2>6, FreshInv DEF Fresh
<1>3. ASSUME NEW e \in {"Error", "PermissionDenied"}, Settle(j, e) PROVE Inv'
  BY <1>1, <1>3, SettleStep DEF Settled
<1>4. CASE Unwind(j)  BY <1>1, <1>4, UnwindStep
<1>5. QED  BY <1>2, <1>3, <1>4 DEF Captured

LEMMA RecognizedStep == ASSUME Inv, NEW j \in Jobs, Recognized(j) PROVE Inv'
<1>1. /\ job[j] = "uploading" /\ job[j] \in Live
      /\ UNCHANGED <<shown, mic, history, screen, app, permission, asking, granted>>
  BY DEF Recognized, Live, permission
<1>2. CASE /\ j \notin cancelled /\ Goes(j, "saving") /\ UNCHANGED ui
           /\ insert' = [insert EXCEPT ![j] = "pending"]
  <2>1. j \in LiveJobs /\ ui \in UiType  BY <1>1, <1>2 DEF LiveJobs, Inv, ModelInv, ModelType, UiType
  <2>2. ModelInv'  BY <1>1, <1>2, <2>1, Continued DEF Live
  <2>3. ThreadType'  BY <1>1, <1>2 DEF Inv, ThreadType
  <2>4. job'[j] = "saving" /\ \A i \in Jobs : i # j => job'[i] = job[i]
    BY <1>2 DEF Goes, Inv, ModelInv, ModelType
  <2>5. RowsInv'
    <3> SUFFICES ASSUME NEW i \in Jobs
                 PROVE  /\ job'[i] \in Unsaved => insert'[i] = "none"
                        /\ history'[i] = IF insert'[i] = "done" THEN 1 ELSE 0
      BY DEF RowsInv
    <3>1. CASE i = j
      <4>1. insert'[j] = "pending" /\ insert[j] = "none"
        BY <1>1, <1>2 DEF Inv, ThreadType, RowsInv, Unsaved
      <4>2. QED  BY <1>1, <2>4, <3>1, <4>1 DEF Inv, RowsInv, Unsaved
    <3>2. CASE i # j
      <4>1. insert'[i] = insert[i]  BY <1>2, <3>2 DEF Inv, ThreadType
      <4>2. QED  BY <1>1, <2>4, <3>2, <4>1 DEF Inv, RowsInv
    <3>3. QED  BY <3>1, <3>2
  <2>6. ScreenType' /\ ResultInv' /\ ScreenInv' /\ GrantInv'
    BY <1>1, <1>2, <2>1, Running
       DEF Inv, ScreenType, ResultInv, ScreenInv, ResultScreenIsAtRest, GrantInv, Terminal
  <2>7. QED  BY <2>2, <2>3, <2>5, <2>6 DEF Inv
<1>3. ASSUME NEW e \in {"NotFound", "Error"}, Settle(j, e), UNCHANGED insert,
             j \in cancelled => e = "Error"
      PROVE  Inv'
  BY <1>1, <1>3, SettleStep DEF threads, Settled
<1>4. CASE Unwind(j) /\ UNCHANGED insert  BY <1>1, <1>4, UnwindStep DEF threads
<1>5. QED  BY <1>2, <1>3, <1>4 DEF Recognized

LEMMA SavedStep == ASSUME Inv, NEW j \in Jobs, Saved(j) PROVE Inv'
<1>1. job[j] \in Live /\ UNCHANGED <<shown, threads, screen, app, permission>>
  BY DEF Saved, Live
<1>2. CASE j \notin cancelled /\ insert[j] = "done" /\ Settle(j, "Result")
  BY <1>1, <1>2, SettleStep DEF Settled
<1>3. CASE insert[j] = "failed" /\ Settle(j, "Error")
  BY <1>1, <1>3, SettleStep DEF Settled
<1>4. CASE Unwind(j)  BY <1>1, <1>4, UnwindStep
<1>5. QED  BY <1>2, <1>3, <1>4 DEF Saved

-----------------------------------------------------------------------------
(***************************************************************************)
(* The threads, the screens and the user.                                  *)
(***************************************************************************)
\* The state and its jobs stay as they are.
LEMMA Stays ==
  ASSUME Inv, UNCHANGED <<ui, coroutine>>
  PROVE  /\ Fresh /\ LiveJobs' = LiveJobs /\ LateFailure' = LateFailure
         /\ UNCHANGED threads => ResultInv'
<1>1. UNCHANGED <<ui, current, job, cancelled>>  BY DEF coroutine
<1>2. LiveJobs' = LiveJobs /\ LateFailure' = LateFailure  BY <1>1 DEF LiveJobs, LateFailure
<1>3. ModelType' /\ CancelInv' /\ UiTellsTheTruth'
  BY <1>1, <1>2 DEF Inv, ModelInv, ModelType, CancelInv, UiTellsTheTruth
<1>4. UNCHANGED threads => ResultInv'  BY <1>1 DEF Inv, ResultInv, threads
<1>5. QED  BY <1>1, <1>2, <1>3, <1>4 DEF Fresh, ModelInv

\* Only a thread moves.
LEMMA ThreadStep ==
  ASSUME Inv, UNCHANGED <<ui, shown, coroutine, screen, app, permission>>,
         ThreadType', RowsInv',
         \A j \in Jobs : insert[j] = "done" => insert'[j] = "done"
  PROVE  Inv'
<1>1. UNCHANGED <<ui, shown, current, job, cancelled, screen, app, asking, granted>>
  BY DEF coroutine, permission
<1>2. Fresh /\ LiveJobs' = LiveJobs /\ LateFailure' = LateFailure  BY Stays
<1>3. ScreenType' /\ ResultInv'  BY <1>1 DEF Inv, ScreenType, ResultInv
<1>4. ScreenInv' /\ GrantInv'
  BY <1>1, <1>2 DEF Inv, ScreenInv, ResultScreenIsAtRest, GrantInv
<1>5. QED  BY <1>2, <1>3, <1>4 DEF Inv, Fresh

LEMMA MicStep == ASSUME Inv, NEW j \in Jobs, Open(j) \/ Release(j) PROVE Inv'
<1>1. /\ UNCHANGED <<ui, shown, coroutine, job, insert, history, screen, app, permission>>
      /\ \E m \in {"open", "failed", "released"} : mic' = [mic EXCEPT ![j] = m]
  BY DEF Open, Release, coroutine
<1>2. ThreadType' /\ RowsInv'  BY <1>1 DEF Inv, ThreadType, RowsInv
<1>3. QED  BY <1>1, <1>2, ThreadStep

LEMMA ExecuteStep == ASSUME Inv, NEW j \in Jobs, Execute(j) PROVE Inv'
<1>1. /\ insert[j] = "pending" /\ history[j] = 0 /\ job[j] \notin Unsaved
      /\ UNCHANGED <<ui, shown, coroutine, job, mic, screen, app, permission>>
  BY DEF Execute, coroutine, Inv, RowsInv
<1>2. /\ insert'[j] \in {"done", "failed"}
      /\ history'[j] = IF insert'[j] = "done" THEN 1 ELSE 0
      /\ \A i \in Jobs : i # j => insert'[i] = insert[i] /\ history'[i] = history[i]
  <2>1. insert \in [Jobs -> {"none", "pending", "done", "failed"}]
        /\ history \in [Jobs -> 0..1]
    BY DEF Inv, ThreadType
  <2>2. CASE /\ insert' = [insert EXCEPT ![j] = "done"]
             /\ history' = [history EXCEPT ![j] = history[j] + 1]
    BY <1>1, <2>1, <2>2
  <2>3. CASE insert' = [insert EXCEPT ![j] = "failed"] /\ UNCHANGED history
    BY <1>1, <2>1, <2>3
  <2>4. QED  BY <2>2, <2>3 DEF Execute
<1>3. ThreadType'
  <2>1. insert' \in [Jobs -> {"none", "pending", "done", "failed"}]
    BY DEF Execute, Inv, ThreadType
  <2>2. history' \in [Jobs -> 0..1]  BY <1>1 DEF Execute, Inv, ThreadType
  <2>3. QED  BY <1>1, <2>1, <2>2 DEF Inv, ThreadType
<1>4. RowsInv'
  <2> SUFFICES ASSUME NEW i \in Jobs
               PROVE  /\ job[i] \in Unsaved => insert'[i] = "none"
                      /\ history'[i] = IF insert'[i] = "done" THEN 1 ELSE 0
    BY <1>1 DEF RowsInv
  <2>1. QED  BY <1>1, <1>2 DEF Inv, RowsInv
<1>5. \A i \in Jobs : insert[i] = "done" => insert'[i] = "done"  BY <1>1, <1>2
<1>6. QED  BY <1>1, <1>3, <1>4, <1>5, ThreadStep

LEMMA ComposeStep == ASSUME Inv, Compose PROVE Inv'
<1>1. /\ screen = "home" /\ shown' = ui.kind
      /\ UNCHANGED <<ui, threads, screen, app, asking, granted>> /\ UNCHANGED job
      /\ Fresh /\ ResultInv' /\ LiveJobs' = LiveJobs /\ LateFailure' = LateFailure
  BY Stays DEF Compose, permission, coroutine
<1>2. ScreenType'  BY <1>1 DEF Inv, ModelInv, ModelType, ScreenType
<1>3. ui.kind \in Terminal => LiveJobs = {}  BY Running
<1>4. ScreenInv' /\ GrantInv'
  BY <1>1, <1>3 DEF Inv, ScreenInv, ResultScreenIsAtRest, GrantInv
<1>5. QED  BY <1>1, <1>2, <1>4, FreshInv

\* A tap, or the permission that was waited for.
LEMMA StartedStep ==
  ASSUME Inv, StartListening, granted', UNCHANGED <<shown, threads, screen, app>>,
         screen = "home", shown \notin Terminal, asking' \in BOOLEAN, ~ asking',
         granted' \in BOOLEAN
  PROVE  Inv'
<1>1. Fresh /\ (UNCHANGED <<ui, coroutine>> \/ ui'.kind = "Listening")
  BY Started DEF Inv
<1>2. ResultInv'
  <2>1. CASE UNCHANGED <<ui, coroutine>>  BY <2>1, Stays
  <2>2. CASE ui'.kind = "Listening"  BY <2>2 DEF ResultInv
  <2>3. QED  BY <1>1, <2>1, <2>2
<1>3. ScreenType' /\ ScreenInv' /\ GrantInv'
  BY DEF Inv, ScreenType, ScreenInv, ResultScreenIsAtRest, GrantInv
<1>4. QED  BY <1>1, <1>2, <1>3, FreshInv

\* Refused: nothing is running.
LEMMA DeniedStep ==
  ASSUME Inv, OnPermissionDenied, UNCHANGED <<shown, threads, screen, app>>,
         ~ granted, granted' = granted, asking' \in BOOLEAN, screen = "home",
         shown \notin Terminal
  PROVE  Inv'
<1>1. /\ ui' = State("PermissionDenied") /\ ui'.kind = "PermissionDenied"
      /\ ui' \in UiType /\ ui'.job = NoJob
      /\ UNCHANGED <<current, job, cancelled>>
  BY States DEF OnPermissionDenied, coroutine, UiStates
<1>2. \A j \in Jobs : job[j] \notin Live  BY DEF Inv, GrantInv
<1>3. LiveJobs' = {} /\ ~ LateFailure'
  BY <1>1, <1>2, NoJobs DEF LiveJobs, LateFailure, Inv, ModelInv, ModelType
<1>4. ModelType' /\ CancelInv'
  BY <1>1 DEF Inv, ModelInv, ModelType, CancelInv, UiType
<1>5. UiTellsTheTruth'  BY <1>1, <1>3 DEF UiTellsTheTruth
<1>6. Fresh  BY <1>1, <1>4, <1>5 DEF Fresh, ModelInv
<1>7. ScreenType' /\ ResultInv' /\ ScreenInv'
  BY <1>1 DEF Inv, ScreenType, ResultInv, ScreenInv, ResultScreenIsAtRest
<1>8. GrantInv'  BY <1>1, <1>2, <1>3 DEF Inv, GrantInv
<1>9. QED  BY <1>6, <1>7, <1>8, FreshInv

LEMMA TapStep == ASSUME Inv, Tap PROVE Inv'
<1>1. /\ screen = "home" /\ shown \notin Terminal
      /\ UNCHANGED <<shown, threads, screen, app, granted>>
  BY DEF Tap, MicEnabled, Terminal
<1>2. granted \in BOOLEAN /\ asking \in BOOLEAN /\ (asking => ~ granted)
  BY DEF Inv, ScreenType, GrantInv
<1>3. CASE granted /\ StartListening /\ UNCHANGED asking
  BY <1>1, <1>2, <1>3, StartedStep
<1>4. CASE ~ granted /\ ~ asking /\ asking' = TRUE /\ UNCHANGED <<ui, coroutine>>
  <2>1. Fresh /\ ResultInv' /\ LiveJobs' = LiveJobs /\ LateFailure' = LateFailure
    BY <1>1, <1>4, Stays
  <2>2. UNCHANGED <<ui, job>>  BY <1>4 DEF coroutine
  <2>3. ScreenType' /\ ScreenInv' /\ GrantInv'
    BY <1>1, <1>4, <2>1, <2>2 DEF Inv, ScreenType, ScreenInv, ResultScreenIsAtRest, GrantInv
  <2>4. QED  BY <1>1, <2>1, <2>3, FreshInv
<1>5. CASE ~ granted /\ asking /\ OnPermissionDenied /\ UNCHANGED asking
  BY <1>1, <1>2, <1>5, DeniedStep
<1>6. QED  BY <1>3, <1>4, <1>5 DEF Tap

LEMMA PermissionResultStep == ASSUME Inv, PermissionResult PROVE Inv'
<1>1. /\ screen = "home" /\ asking /\ asking' = FALSE
      /\ UNCHANGED <<shown, threads, screen, app>>
  BY DEF PermissionResult
<1>2. ~ granted /\ granted \in BOOLEAN /\ shown \notin Terminal
  BY <1>1 DEF Inv, ScreenType, GrantInv, ScreenInv, Terminal
<1>3. CASE granted' = TRUE /\ StartListening  BY <1>1, <1>2, <1>3, StartedStep
<1>4. CASE granted' = FALSE /\ OnPermissionDenied  BY <1>1, <1>2, <1>4, DeniedStep
<1>5. QED  BY <1>3, <1>4 DEF PermissionResult

\* Another screen, with the state as it is.
LEMMA MoveStep ==
  ASSUME Inv, UNCHANGED <<ui, coroutine, threads, permission>>,
         screen' \in {"home", "result", "history"}, app' \in {"started", "stopped"},
         shown' \in {shown, Nothing},
         screen' = "result" => screen = "result" \/ shown \in Terminal
  PROVE  Inv'
<1>1. UNCHANGED <<ui, current, job, asking, granted>>  BY DEF coroutine, permission
<1>2. Fresh /\ ResultInv' /\ LiveJobs' = LiveJobs /\ LateFailure' = LateFailure  BY Stays
<1>3. Nothing \notin Terminal  BY DEF Nothing, Terminal
<1>4. ScreenType' /\ ScreenInv' /\ GrantInv'
  BY <1>1, <1>2, <1>3 DEF Inv, ScreenType, ScreenInv, ResultScreenIsAtRest, GrantInv
<1>5. QED  BY <1>2, <1>4, FreshInv

\* Another screen, or none, with the state set back.
LEMMA RestStep ==
  ASSUME Inv, SetBack, Cancel, UNCHANGED <<threads, permission>>,
         screen' \in {"home", "history"}, app' \in {"started", "stopped"},
         shown' = Nothing \/ (shown' = shown /\ shown \notin Terminal)
  PROVE  Inv'
<1>1. /\ ui'.kind = "Idle" /\ ui' \in UiType
      /\ UNCHANGED <<current, job, asking, granted>>
  BY States DEF SetBack, UiStates, permission
<1>2. Fresh /\ LiveJobs' = {}  BY <1>1, AtRest DEF Inv
<1>3. Nothing \notin Terminal  BY DEF Nothing, Terminal
<1>4. ScreenType' /\ ResultInv' /\ ScreenInv'
  BY <1>1, <1>2, <1>3 DEF Inv, ScreenType, ResultInv, ScreenInv, ResultScreenIsAtRest
<1>5. GrantInv'  BY <1>1 DEF Inv, GrantInv, LateFailure
<1>6. QED  BY <1>2, <1>4, <1>5, FreshInv

LEMMA ToHistoryStep == ASSUME Inv, ToHistory PROVE Inv'
<1>1. /\ screen' = "history" /\ shown' = Nothing /\ app' = app
      /\ UNCHANGED <<threads, permission>>
  BY DEF ToHistory, Goto
<1>2. app \in {"started", "stopped"}  BY DEF Inv, ScreenType
<1>3. CASE UNCHANGED <<ui, coroutine>>  BY <1>1, <1>2, <1>3, MoveStep
<1>4. CASE SetBack /\ Cancel  BY <1>1, <1>2, <1>4, RestStep
<1>5. QED  BY <1>3, <1>4 DEF ToHistory, CancelListening

LEMMA AppStopStep == ASSUME Inv, AppStop PROVE Inv'
<1>1. /\ app' = "stopped" /\ UNCHANGED <<shown, threads, screen, permission>>
  BY DEF AppStop
<1>2. screen \in {"home", "result", "history"}  BY DEF Inv, ScreenType
<1>3. CASE UNCHANGED <<ui, coroutine>>  BY <1>1, <1>2, <1>3, MoveStep
<1>4. CASE screen = "home" /\ ui.kind = "Listening" /\ SetBack /\ Cancel
  <2>1. shown \notin Terminal  BY <1>4 DEF Inv, ScreenInv, LateFailure, Terminal
  <2>2. QED  BY <1>1, <1>4, <2>1, RestStep
<1>5. QED  BY <1>3, <1>4 DEF AppStop, CancelListening

LEMMA NavigationStep ==
  ASSUME Inv, ToResult \/ SearchAgain \/ Back \/ AppStart
  PROVE  Inv'
<1>1. screen \in {"home", "result", "history"} /\ app \in {"started", "stopped"}
  BY DEF Inv, ScreenType
<1>2. CASE ToResult  BY <1>1, <1>2, MoveStep DEF ToResult, Goto
<1>3. CASE SearchAgain  BY <1>1, <1>3, RestStep DEF SearchAgain, Reset, Goto
<1>4. CASE Back  BY <1>1, <1>4, MoveStep DEF Back, Goto
<1>5. CASE AppStart  BY <1>1, <1>5, MoveStep DEF AppStart
<1>6. QED  BY <1>2, <1>3, <1>4, <1>5

-----------------------------------------------------------------------------
(***************************************************************************)
(* A new ViewModel, in the same process or in a new one.                   *)
(***************************************************************************)
LEMMA NewModel ==
  ASSUME Inv, NewViewModel
  PROVE  /\ Fresh /\ LiveJobs' = {} /\ ui'.kind = "Idle" /\ current' = NoJob
         /\ \A j \in Jobs : job'[j] \notin Live
<1>1. /\ ui'.kind = "Idle" /\ ui' \in UiType /\ current' = NoJob
      /\ cancelled' = cancelled \cup LiveJobs
  BY States DEF NewViewModel, UiStates
<1>2. job \in [Jobs -> Live \cup {"new", "done"}]  BY DEF Inv, ModelInv, ModelType
<1>3. job' = [j \in Jobs |-> IF job[j] \in Live THEN "done" ELSE job[j]]
  BY DEF NewViewModel
<1>4. /\ job' \in [Jobs -> Live \cup {"new", "done"}]
      /\ \A j \in Jobs : job'[j] \notin Live /\ (job'[j] = "new" <=> job[j] = "new")
  BY <1>2, <1>3 DEF Live
<1>5. LiveJobs' = {}  BY <1>4 DEF LiveJobs
<1>6. \A j \in cancelled' : j \in Jobs /\ job[j] # "new"
  BY <1>1 DEF Inv, ModelInv, ModelType, CancelInv, LiveJobs, Live
<1>7. ModelType' /\ CancelInv'
  BY <1>1, <1>4, <1>6 DEF ModelType, CancelInv, UiType
<1>8. UiTellsTheTruth'  BY <1>1, <1>5 DEF UiTellsTheTruth
<1>9. \A j \in Jobs : job'[j] \in Unsaved => job[j] \in Unsaved
  BY <1>3, <1>4 DEF Unsaved, Live
<1>10. QED  BY <1>1, <1>4, <1>5, <1>7, <1>8, <1>9 DEF Fresh, ModelInv

LEMMA NewActivityStep ==
  ASSUME Inv, NewActivity, ThreadType', RowsInv', granted' \in {granted, FALSE}
  PROVE  Inv'
<1>1. /\ Fresh /\ LiveJobs' = {} /\ ui'.kind = "Idle" /\ current' = NoJob
      /\ \A j \in Jobs : job'[j] \notin Live
  BY NewModel DEF NewActivity
<1>2. /\ app' = "started" /\ shown' = Nothing
      /\ screen' \in {"home", screen} /\ asking' \in {FALSE, asking}
  BY DEF NewActivity
<1>3. ScreenType'  BY <1>2 DEF Inv, ScreenType
<1>4. ResultInv'  BY <1>1 DEF ResultInv
<1>5. ScreenInv'
  BY <1>1, <1>2 DEF ScreenInv, ResultScreenIsAtRest, Nothing, Terminal
<1>6. asking' => ~ granted'
  <2>1. asking' => asking  BY <1>2
  <2>2. granted' => granted  OBVIOUS
  <2>3. QED  BY <2>1, <2>2 DEF Inv, GrantInv
<1>7. GrantInv'  BY <1>1, <1>6 DEF GrantInv, LateFailure
<1>8. QED  BY <1>1, <1>3, <1>4, <1>5, <1>7 DEF Inv, Fresh

LEMMA CloseStep == ASSUME Inv, Close PROVE Inv'
<1>1. NewActivity /\ UNCHANGED <<mic, insert, history, granted>>  BY DEF Close, threads
<1>2. Fresh  BY <1>1, NewModel DEF NewActivity
<1>3. ThreadType' /\ RowsInv'  BY <1>1, <1>2 DEF Inv, ThreadType, RowsInv, Fresh
<1>4. QED  BY <1>1, <1>3, NewActivityStep

LEMMA KillStep == ASSUME Inv, Kill PROVE Inv'
<1>1. Fresh  BY NewModel DEF Kill, NewActivity
<1>2. PICK written \in SUBSET {j \in Jobs : insert[j] = "pending"} :
         /\ insert' = [j \in Jobs |-> IF insert[j] # "pending" THEN insert[j]
                                      ELSE IF j \in written THEN "done" ELSE "failed"]
         /\ history' = [j \in Jobs |-> IF j \in written THEN history[j] + 1 ELSE history[j]]
  BY DEF Kill
<1>3. mic' \in [Jobs -> {"closed", "open", "released", "failed"}]
  BY DEF Kill, Inv, ThreadType
<1>4. \A j \in Jobs : /\ insert[j] \in {"none", "pending", "done", "failed"}
                      /\ history[j] = IF insert[j] = "done" THEN 1 ELSE 0
                      /\ j \in written => insert[j] = "pending"
  BY <1>2 DEF Inv, ThreadType, RowsInv
<1>5. \A j \in Jobs : /\ insert'[j] \in {"none", "pending", "done", "failed"}
                      /\ history'[j] = IF insert'[j] = "done" THEN 1 ELSE 0
                      /\ history'[j] \in 0..1
                      /\ insert[j] = "none" => insert'[j] = "none"
  <2> SUFFICES ASSUME NEW j \in Jobs
               PROVE  /\ insert'[j] \in {"none", "pending", "done", "failed"}
                      /\ history'[j] = IF insert'[j] = "done" THEN 1 ELSE 0
                      /\ history'[j] \in 0..1
                      /\ insert[j] = "none" => insert'[j] = "none"
    OBVIOUS
  <2>1. CASE j \in written
    <3>1. insert'[j] = "done" /\ history'[j] = 1  BY <1>2, <1>4, <2>1
    <3>2. QED  BY <1>4, <2>1, <3>1
  <2>2. CASE j \notin written
    <3>1. history'[j] = history[j]  BY <1>2, <2>2
    <3>2. insert'[j] = IF insert[j] # "pending" THEN insert[j] ELSE "failed"  BY <1>2, <2>2
    <3>3. QED  BY <1>4, <3>1, <3>2
  <2>3. QED  BY <2>1, <2>2
<1>6. ThreadType'  BY <1>2, <1>3, <1>5 DEF ThreadType
<1>7. RowsInv'  BY <1>1, <1>5 DEF Inv, RowsInv, Fresh
<1>8. NewActivity /\ granted' \in {granted, FALSE}  BY DEF Kill
<1>9. QED  BY <1>6, <1>7, <1>8, NewActivityStep

-----------------------------------------------------------------------------
LEMMA InvStep == Inv /\ [Next]_vars => Inv'
<1> SUFFICES ASSUME Inv, [Next]_vars PROVE Inv'
  OBVIOUS
<1>1. ASSUME NEW j \in Jobs, Coroutine(j) \/ Open(j) \/ Release(j) \/ Execute(j)
      PROVE  Inv'
  BY <1>1, ChunkStep, CapturedStep, RecognizedStep, SavedStep, MicStep, ExecuteStep
     DEF Coroutine
<1>2. CASE Compose \/ Tap \/ PermissionResult
  BY <1>2, ComposeStep, TapStep, PermissionResultStep
<1>3. CASE \/ ToResult \/ SearchAgain \/ Back \/ ToHistory
           \/ AppStop \/ AppStart \/ Close \/ Kill
  BY <1>3, ToHistoryStep, AppStopStep, NavigationStep, CloseStep, KillStep
<1>4. CASE UNCHANGED vars
  <2>1. UNCHANGED <<ui, shown, coroutine, threads, screen, app, permission>>
    BY <1>4 DEF vars
  <2>2. screen \in {"home", "result", "history"} /\ app \in {"started", "stopped"}
    BY DEF Inv, ScreenType
  <2>3. QED  BY <2>1, <2>2, MoveStep
<1>5. QED  BY <1>1, <1>2, <1>3, <1>4 DEF Next

LEMMA Invariance == Spec => []Inv
<1>1. QED  BY InvInit, InvStep, PTL DEF Spec

\* Every variable holds a value of its kind, for any number of taps.
THEOREM TypeCorrect == Spec => []TypeOK
<1>1. Inv => TypeOK  BY Types DEF Inv, ModelInv
<1>2. QED  BY <1>1, Invariance, PTL

\* One recognition at a time, and the state the screen shows is what it does,
\* through every cancel, reset, restart and late permission, save for what a
\* job that was cancelled before it has left behind in failing
\* (RecognitionViewModel.kt 50-97).
THEOREM UiTruthful == Spec => []UiTellsTheTruth
<1>1. Inv => UiTellsTheTruth  BY DEF Inv, ModelInv
<1>2. QED  BY <1>1, Invariance, PTL

\* A result that is shown is the latest recognition's and is in the history
\* once (RecognitionViewModel.kt 120-126).
THEOREM ResultSaved == Spec => []ResultIsSaved
<1>1. Inv => ResultIsSaved
  BY DEF Inv, ResultInv, RowsInv, ResultIsSaved
<1>2. QED  BY <1>1, Invariance, PTL

\* Nothing is under way behind the result screen, although the navigation acts
\* on a composed state that may be old and the back stack outlives the
\* ViewModel; and the screen is empty for no other reason than a new ViewModel
\* or a cancelled job's failure (HomeScreen.kt 81-85, ResultScreen.kt 74-84).
THEOREM ScreenAtRest == Spec => []ResultScreenIsAtRest
<1>1. Inv => ResultScreenIsAtRest  BY DEF Inv, ScreenInv
<1>2. QED  BY <1>1, Invariance, PTL
=============================================================================
