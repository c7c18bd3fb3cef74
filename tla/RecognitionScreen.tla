-------------------------- MODULE RecognitionScreen -------------------------
(***************************************************************************)
(* The phone: RecognitionViewModel, the home and result screens and their  *)
(* navigation, the recorder and the history table (android, viewmodel/,    *)
(* ui/home/, ui/navigation/, audio/, data/repository/, data/db/).          *)
(*                                                                         *)
(* What runs on the main thread runs without interruption, from one        *)
(* suspension to the next.  A tap starts a job, a coroutine.  A cancelled  *)
(* one waits for the microphone's thread or the database's all the same,   *)
(* and is resumed with their failure if they fail, which goes before its   *)
(* CancellationException.  The user sees the state as it was last composed.*)
(***************************************************************************)
EXTENDS Naturals, FiniteSets

CONSTANT MaxJobs    \* bound: taps that start a recognition

ASSUME ScreenAssumption == MaxJobs \in Nat

Jobs == 1..MaxJobs
NoJob == 0

VARIABLES
    ui,         \* RecognitionUiState, with the job that has settled so
    shown,      \* the state that is composed
    current,    \* recordingJob
    job,        \* where each coroutine is suspended
    cancelled,  \* the jobs that cancel() has been called for in time
    mic,        \* the AudioRecord of each job
    insert,     \* the INSERT of each job
    history,    \* history: job -> its rows
    screen,     \* the top of the navigation stack
    app,        \* "started" or "stopped"
    asking,     \* the permission has been asked for
    granted     \* RECORD_AUDIO

coroutine == <<current, job, cancelled>>
threads == <<mic, insert, history>>
permission == <<asking, granted>>
vars == <<ui, shown, coroutine, threads, screen, app, permission>>

Live == {"capturing", "uploading", "saving"}
Terminal == {"Result", "NotFound"}
Nothing == "nothing"    \* HomeScreen is not composed
UiStates == {"Idle", "Listening", "Processing", "Error", "PermissionDenied"} \cup Terminal

State(kind) == [kind |-> kind, job |-> NoJob]

Init ==
    /\ ui = State("Idle") /\ shown = "Idle"
    /\ current = NoJob /\ cancelled = {}
    /\ job = [j \in Jobs |-> "new"]
    /\ mic = [j \in Jobs |-> "closed"]
    /\ insert = [j \in Jobs |-> "none"]
    /\ history = [j \in Jobs |-> 0]
    /\ screen = "home" /\ app = "started"
    /\ asking = FALSE /\ granted \in BOOLEAN

-----------------------------------------------------------------------------
(***************************************************************************)
(* RecognitionViewModel, called on the main thread.                        *)
(***************************************************************************)
LiveJobs == {j \in Jobs \ cancelled : job[j] \in Live}

\* recordingJob?.cancel(): it only asks the coroutine to end.
Cancel == cancelled' = cancelled \cup (LiveJobs \cap {current})

\* Main.immediate: the coroutine runs at once, up to the first chunk.
StartListening ==
    IF ui.kind \in {"Listening", "Processing"} THEN UNCHANGED <<ui, coroutine>>
    ELSE \E j \in Jobs :
            /\ job[j] = "new" /\ (\A i \in Jobs : i < j => job[i] # "new")
            /\ ui' = State("Listening")
            /\ Cancel
            /\ current' = j
            /\ job' = [job EXCEPT ![j] = "capturing"]

SetBack == ui' = State("Idle") /\ UNCHANGED <<current, job>>

\* Mutant: the state is set back and the job goes on.
CancelStateOnly ==
    IF ui.kind = "Listening"
    THEN SetBack /\ UNCHANGED cancelled
    ELSE UNCHANGED <<ui, coroutine>>

CancelListening ==
    IF ui.kind = "Listening" THEN SetBack /\ Cancel ELSE UNCHANGED <<ui, coroutine>>

Reset == SetBack /\ Cancel

OnPermissionDenied == ui' = State("PermissionDenied") /\ UNCHANGED coroutine

-----------------------------------------------------------------------------
(***************************************************************************)
(* The coroutine of a job.                                                 *)
(***************************************************************************)
Goes(j, to) == job' = [job EXCEPT ![j] = to] /\ UNCHANGED <<current, cancelled>>

Settle(j, kind) == ui' = [kind |-> kind, job |-> j] /\ Goes(j, "done")

\* The CancellationException, which is thrown on and changes no state.
Unwind(j) == j \in cancelled /\ Goes(j, "done") /\ UNCHANGED ui

\* A chunk of samples: Listening(elapsedSeconds).
Chunk(j) ==
    /\ j \in LiveJobs /\ job[j] = "capturing" /\ mic[j] \in {"open", "released"}
    /\ ui' = State("Listening")
    /\ UNCHANGED <<shown, coroutine, threads, screen, app, permission>>

\* The recording is complete, or has failed; the microphone is closed by then.
\* Nothing asks whether the coroutine that failed is still the current one.
Captured(j) ==
    /\ job[j] = "capturing" /\ mic[j] \in {"released", "failed"}
    /\ \/ /\ j \notin cancelled /\ mic[j] = "released"
          /\ ui' = State("Processing")
          /\ Goes(j, "uploading")
       \/ \E e \in {"Error", "PermissionDenied"} : Settle(j, e)
       \/ Unwind(j)
    /\ UNCHANGED <<shown, threads, screen, app, permission>>

\* repository.recognize has returned, whatever its attempts were.  An answer
\* does not reach a cancelled job, the last attempt's failure may.
Recognized(j) ==
    /\ job[j] = "uploading"
    /\ \/ /\ j \notin cancelled
          /\ Goes(j, "saving") /\ UNCHANGED ui
          /\ insert' = [insert EXCEPT ![j] = "pending"]
       \/ j \notin cancelled /\ Settle(j, "NotFound") /\ UNCHANGED insert
       \/ Settle(j, "Error") /\ UNCHANGED insert
       \/ Unwind(j) /\ UNCHANGED insert
    /\ UNCHANGED <<shown, mic, history, screen, app, permission>>

\* Mutant: the result is shown before the song is saved.
SavedLater(j) ==
    /\ job[j] = "saving" /\ j \notin cancelled
    /\ Settle(j, "Result")
    /\ UNCHANGED <<shown, threads, screen, app, permission>>

\* Mutant: an exception of saveToHistory is not caught.
SavedUncaught(j) ==
    /\ job[j] = "saving" /\ insert[j] = "done"
    /\ IF j \in cancelled THEN Unwind(j) ELSE Settle(j, "Result")
    /\ UNCHANGED <<shown, threads, screen, app, permission>>

\* saveToHistory has returned, or thrown.
Saved(j) ==
    /\ job[j] = "saving" /\ insert[j] \in {"done", "failed"}
    /\ \/ j \notin cancelled /\ insert[j] = "done" /\ Settle(j, "Result")
       \/ insert[j] = "failed" /\ Settle(j, "Error")
       \/ Unwind(j)
    /\ UNCHANGED <<shown, threads, screen, app, permission>>

Coroutine(j) == Chunk(j) \/ Captured(j) \/ Recognized(j) \/ Saved(j)

-----------------------------------------------------------------------------
(***************************************************************************)
(* The other threads.                                                      *)
(***************************************************************************)
\* The recorder's: a recording starts or fails to, and does so even when its
\* collector has been cancelled in the meantime.
Open(j) ==
    /\ job[j] # "new" /\ mic[j] = "closed"
    /\ \E m \in {"open", "failed"} : mic' = [mic EXCEPT ![j] = m]
    /\ UNCHANGED <<ui, shown, coroutine, insert, history, screen, app, permission>>

\* Mutant: no finally, so that a cancelled recording keeps the microphone.
ReleaseAtTheEnd(j) ==
    /\ mic[j] = "open" /\ j \notin cancelled
    /\ mic' = [mic EXCEPT ![j] = "released"]
    /\ UNCHANGED <<ui, shown, coroutine, insert, history, screen, app, permission>>

\* The end of 12 seconds, an error code or a cancelled collector.
Release(j) ==
    /\ mic[j] = "open"
    /\ mic' = [mic EXCEPT ![j] = "released"]
    /\ UNCHANGED <<ui, shown, coroutine, insert, history, screen, app, permission>>

\* Mutant: a failed INSERT is tried again although it may have been executed.
ExecuteAgain(j) ==
    /\ insert[j] = "pending"
    /\ \E i \in {"done", "pending"} : insert' = [insert EXCEPT ![j] = i]
    /\ history' = [history EXCEPT ![j] = @ + 1]
    /\ UNCHANGED <<ui, shown, coroutine, mic, screen, app, permission>>

\* The database's: a cancelled INSERT may be executed all the same.
Execute(j) ==
    /\ insert[j] = "pending"
    /\ \/ /\ insert' = [insert EXCEPT ![j] = "done"]
          /\ history' = [history EXCEPT ![j] = @ + 1]
       \/ /\ insert' = [insert EXCEPT ![j] = "failed"]
          /\ UNCHANGED history
    /\ UNCHANGED <<ui, shown, coroutine, mic, screen, app, permission>>

-----------------------------------------------------------------------------
(***************************************************************************)
(* The screens, the user and the system.                                   *)
(***************************************************************************)
Foreground == app = "started"

\* HomeScreen is composed anew, some time after a change of the state.
Compose ==
    /\ Foreground /\ screen = "home"
    /\ shown' = ui.kind
    /\ UNCHANGED <<ui, coroutine, threads, screen, app, permission>>

\* Mutant: the button is never disabled.
AlwaysEnabled == shown # Nothing

\* MicButton(enabled = ...), and the button that grants the permission.
MicEnabled == shown \in {"Idle", "Error", "PermissionDenied"}

\* requestListen.  Android refuses a second request during the first at once.
Tap ==
    /\ Foreground /\ screen = "home" /\ MicEnabled
    /\ \/ granted /\ StartListening /\ UNCHANGED asking
       \/ ~granted /\ ~asking /\ asking' = TRUE /\ UNCHANGED <<ui, coroutine>>
       \/ ~granted /\ asking /\ OnPermissionDenied /\ UNCHANGED asking
    /\ UNCHANGED <<shown, threads, screen, app, granted>>

\* The launcher's callback.
PermissionResult ==
    /\ Foreground /\ screen = "home" /\ asking
    /\ asking' = FALSE
    /\ \/ granted' = TRUE /\ StartListening
       \/ granted' = FALSE /\ OnPermissionDenied
    /\ UNCHANGED <<shown, threads, screen, app>>

Goto(to) == screen' = to /\ shown' = Nothing

\* LaunchedEffect(uiState) -> onRecognitionSettled
ToResult ==
    /\ Foreground /\ screen = "home" /\ shown \in Terminal
    /\ Goto("result")
    /\ UNCHANGED <<ui, coroutine, threads, app, permission>>

\* onSearchAgain, and the arrow of the result screen.
SearchAgain ==
    /\ Foreground /\ screen = "result"
    /\ Reset /\ Goto("home")
    /\ UNCHANGED <<threads, app, permission>>

\* The system's back, which nothing in the app handles; the history's arrow.
Back ==
    /\ Foreground /\ screen # "home"
    /\ Goto("home")
    /\ UNCHANGED <<ui, coroutine, threads, app, permission>>

\* HomeScreen's observer may hear of its ON_STOP or be gone by then.
ToHistory ==
    /\ Foreground /\ screen = "home" /\ shown # Nothing
    /\ Goto("history")
    /\ CancelListening \/ UNCHANGED <<ui, coroutine>>
    /\ UNCHANGED <<threads, app, permission>>

\* ON_STOP: the app goes to the background.
AppStop ==
    /\ Foreground
    /\ app' = "stopped"
    /\ IF screen = "home" THEN CancelListening ELSE UNCHANGED <<ui, coroutine>>
    /\ UNCHANGED <<shown, threads, screen, permission>>

AppStart ==
    /\ app = "stopped"
    /\ app' = "started"
    /\ UNCHANGED <<ui, shown, coroutine, threads, screen, permission>>

\* The ViewModel is gone with all its jobs: what they write is its own state.
\* The next one is Idle and knows of no job.
NewViewModel ==
    /\ ui' = State("Idle") /\ current' = NoJob
    /\ cancelled' = cancelled \cup LiveJobs
    /\ job' = [j \in Jobs |-> IF job[j] \in Live THEN "done" ELSE job[j]]

\* The activity is opened anew, or a stopped one comes back with its saved
\* state: the back stack of rememberNavController and the launcher's request.
NewActivity ==
    /\ NewViewModel
    /\ app' = "started" /\ shown' = Nothing
    /\ \/ screen' = "home" /\ asking' = FALSE
       \/ app = "stopped" /\ UNCHANGED <<screen, asking>>

\* onCleared: the activity is finished or destroyed, the process goes on.
Close == NewActivity /\ UNCHANGED <<threads, granted>>

\* The process is killed, which asks no ViewModel; RECORD_AUDIO may be revoked.
Kill ==
    /\ NewActivity
    /\ mic' = [j \in Jobs |-> IF mic[j] = "failed" \/ job[j] = "new" THEN mic[j] ELSE "released"]
    /\ \E written \in SUBSET {j \in Jobs : insert[j] = "pending"} :
          /\ insert' = [j \in Jobs |-> IF insert[j] # "pending" THEN insert[j]
                                       ELSE IF j \in written THEN "done" ELSE "failed"]
          /\ history' = [j \in Jobs |-> IF j \in written THEN history[j] + 1 ELSE history[j]]
    /\ granted' \in {granted, FALSE}

Next ==
    \/ \E j \in Jobs : Coroutine(j) \/ Open(j) \/ Release(j) \/ Execute(j)
    \/ Compose \/ Tap \/ PermissionResult
    \/ ToResult \/ SearchAgain \/ Back \/ ToHistory
    \/ AppStop \/ AppStart \/ Close \/ Kill

(***************************************************************************)
(* The main thread and the others run; a recording is 12 seconds long, the *)
(* HTTP client has timeouts and at most two attempts, SQLite answers.      *)
(* Nothing is asked of the user, of the system or of the composition.      *)
(***************************************************************************)
Fairness ==
    \A j \in Jobs :
        /\ WF_vars(Coroutine(j)) /\ WF_vars(Open(j))
        /\ WF_vars(Release(j)) /\ WF_vars(Execute(j))

Spec == Init /\ [][Next]_vars /\ Fairness

-----------------------------------------------------------------------------
(***************************************************************************)
(* Properties.                                                             *)
(***************************************************************************)
\* Every variable holds a value of its kind: the state of the ViewModel, of a
\* coroutine, of an AudioRecord, the table and the screens.
TypeOK ==
    /\ ui \in [kind : UiStates, job : Jobs \cup {NoJob}]
    /\ shown \in UiStates \cup {Nothing}
    /\ current \in Jobs \cup {NoJob}
    /\ job \in [Jobs -> Live \cup {"new", "done"}]
    /\ cancelled \subseteq Jobs
    /\ mic \in [Jobs -> {"closed", "open", "released", "failed"}]
    /\ insert \in [Jobs -> {"none", "pending", "done", "failed"}]
    /\ history \in [Jobs -> 0..1]
    /\ screen \in {"home", "result", "history"}
    /\ app \in {"started", "stopped"}
    /\ asking \in BOOLEAN /\ granted \in BOOLEAN

\* A failure that a cancelled job has left behind, whatever was shown before.
LateFailure == ui.kind \in {"Error", "PermissionDenied"} /\ ui.job \in cancelled

(***************************************************************************)
(* The screen tells the truth about the job: there is never a second one   *)
(* beside recordingJob, "Listening" is shown only while it records and     *)
(* "Analyzing" only while it is uploaded or saved, and it is shown while   *)
(* it runs, through every cancel, reset, restart and late permission, with *)
(* one exception: the failure of a job that was cancelled before it        *)
(* (RecognitionViewModel.kt 50-97).                                        *)
(***************************************************************************)
UiTellsTheTruth ==
    /\ LiveJobs \subseteq {current}
    /\ ui.kind = "Listening" => \E j \in LiveJobs : job[j] = "capturing"
    /\ ui.kind = "Processing" => \E j \in LiveJobs : job[j] \in {"uploading", "saving"}
    /\ LiveJobs # {} => ui.kind \in {"Listening", "Processing"} \/ LateFailure

(***************************************************************************)
(* A result that is shown is the latest recognition's and is in the        *)
(* history, once, whatever was cancelled before it                         *)
(* (RecognitionViewModel.kt 120-126).                                      *)
(***************************************************************************)
ResultIsSaved ==
    ui.kind = "Result" => ui.job = current /\ history[ui.job] = 1

(***************************************************************************)
(* Behind the result screen nothing records or is uploaded, although the   *)
(* navigation follows a state that was composed some time ago, and what it *)
(* shows is a result, or is empty for one of two reasons: the ViewModel is *)
(* new and the back stack older than it, or a job that was cancelled has   *)
(* failed late (HomeScreen.kt 81-85, ResultScreen.kt 74-84, 213-224).      *)
(***************************************************************************)
ResultScreenIsAtRest ==
    screen = "result" =>
        /\ LiveJobs = {}
        /\ ui.kind \in Terminal \/ (ui.kind = "Idle" /\ current = NoJob) \/ LateFailure

\* Every recognition comes to an end, in the background and across restarts
\* of the app too (RecognitionViewModel.kt 55-77).
EveryTapSettles ==
    ui.kind \in {"Listening", "Processing"} ~> ui.kind \notin {"Listening", "Processing"}

\* The microphone of a cancelled recording is released for good, even if it was
\* opened after the cancellation (AudioRecorder.kt 106-130).
MicIsReleased == \A j \in Jobs : j \in cancelled ~> [](mic[j] \in {"released", "failed"})

(***************************************************************************)
(* docs/how-song-recognition-works.md 708-710: "navigating away or         *)
(* backgrounding the app during either automatically cancels them - no     *)
(* leaked microphone handles, no orphaned network calls."  It does not:    *)
(* cancelListening acts on Listening only (RecognitionViewModel.kt 86-91). *)
(***************************************************************************)
NoOrphanedCalls == app = "stopped" => \A j \in LiveJobs : job[j] # "uploading"
=============================================================================
