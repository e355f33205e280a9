------------------------------- MODULE Desktop -------------------------------
(***************************************************************************)
(* The desktop application: the execution state of the frontend            *)
(* (features/execution/state.ts), the form that drives it                  *)
(* (features/configuration/BenchmarkForm.tsx) and the application service  *)
(* of module Service behind it.                                            *)
(*                                                                         *)
(* The two sides talk through the Wails runtime.  Events reach the page in *)
(* the order they were emitted.  The answer of a call reaches it at any    *)
(* time after the call has returned, before or after the events.           *)
(***************************************************************************)
EXTENDS Service

CONSTANTS
  Hasty,       \* the user may act between the event that announces the end of a run
               \* and the event that brings its outcome
  SuiteEdited  \* the suite may be edited between validation and start

ASSUME DesktopAssumption ==
  /\ Hasty \in BOOLEAN
  /\ SuiteEdited \in BOOLEAN

VARIABLES
  ui,         \* the execution state the page renders
  checking,   \* calls of ValidateBenchmark the form waits for
  calls,      \* calls of StartBenchmark the form has made, in order
  confirmed,  \* those whose request says that the write impact is confirmed
  asked,      \* the run a call of CancelBenchmark names
  settled,    \* calls whose answer the page has received
  delivered   \* how many events the page has received

page == <<ui, checking, calls, confirmed, asked, settled, delivered>>
desktop == <<vars, page>>

initialExecutionState ==
  [status |-> "idle", run |-> NoRun, accepting |-> FALSE, retired |-> {},
   confirmed |-> FALSE, confirmation |-> FALSE, report |-> NoRun, error |-> FALSE]

DesktopInit ==
  /\ Init
  /\ ui = initialExecutionState
  /\ checking = 0
  /\ calls = << >>
  /\ confirmed = {}
  /\ asked = [c \in Cancels |-> NoRun]
  /\ settled = {}
  /\ delivered = 0

-----------------------------------------------------------------------------
(* The reducer: the next execution state for what the page receives. *)

acceptsRunEvent(run) ==
  /\ ui.accepting
  /\ run \notin ui.retired
  /\ ui.run \in {NoRun, run}

finishRun(run, status) ==
  [ui EXCEPT !.status = status, !.run = run, !.accepting = FALSE,
             !.confirmation = FALSE, !.retired = @ \cup {run}]

\* An accepted event was emitted for ui.run, if the page knows its run.
applyStateEvent(run, state) ==
  IF state = "idle" /\ ui.status = "cancelled"
  THEN [ui EXCEPT !.accepting = FALSE, !.retired = @ \cup {run}]
  ELSE [ui EXCEPT !.status = state, !.run = run]

\* Faulty: the name of an event is taken for the state it announces.
applyEventByName(run, name) ==
  IF acceptsRunEvent(run) THEN applyStateEvent(run, name) ELSE ui

applyEvent(run, name) ==
  IF ~acceptsRunEvent(run) THEN ui
  ELSE CASE name = "Progress" -> [ui EXCEPT !.run = run]
         [] name = "Completed" -> [finishRun(run, "completed") EXCEPT !.report = run]
         [] name = "Failed" -> [finishRun(run, "failed") EXCEPT !.error = TRUE]
         [] name = "Cancelled" -> finishRun(run, "cancelled")
         [] OTHER -> applyStateEvent(run, name)

applyStartResult(answer) ==
  CASE answer.state = "completed" -> [finishRun(answer.run, "completed") EXCEPT !.report = answer.run]
    [] answer.state = "failed" -> [finishRun(answer.run, "failed") EXCEPT !.error = TRUE]
    [] answer.state = "cancelled" -> finishRun(answer.run, "cancelled")
    [] OTHER -> [ui EXCEPT !.status = answer.state, !.run = answer.run, !.error = answer.error]

\* Faulty: the answer is believed although its run is over.
applyRPCResultOfRetired(answer) ==
  IF ui.run \notin {NoRun, answer.run} THEN ui ELSE applyStartResult(answer)

\* Every answer of StartBenchmark names a run.
applyRPCResult(answer) ==
  IF answer.run \in ui.retired \/ ui.run \notin {NoRun, answer.run} THEN ui
  ELSE applyStartResult(answer)

applyCancelResult(run, answer) ==
  IF answer.error THEN [ui EXCEPT !.error = TRUE]
  ELSE IF answer.run # run THEN ui
  ELSE [ui EXCEPT !.status = answer.state, !.error = FALSE]

\* Faulty: the answer is believed although its run is over.
cancelResolvedOfRetired(run, answer) ==
  IF ui.run # run THEN ui ELSE applyCancelResult(run, answer)

cancelResolved(run, answer) ==
  IF ui.run # run \/ run \in ui.retired THEN ui ELSE applyCancelResult(run, answer)

-----------------------------------------------------------------------------
(* What the page shows, and what the user can do with it. *)

activeStates == {"validating", "running", "cancelling"}
Outcomes == {"completed", "failed", "cancelled"}

\* Faulty: the form is unlocked once the user has cancelled.
lockedUntilCancelled == ui.status \in {"validating", "running", "awaiting-confirmation"}

locked == ui.status \in activeStates \cup {"awaiting-confirmation"}
showsResults == ui.status = "completed" /\ ui.report # NoRun /\ ui.run # NoRun

showsDialog == ui.status = "awaiting-confirmation" /\ ui.confirmation

Called == Range(calls)

\* BenchmarkForm.execute: the run is requested and StartBenchmark called.
execute(request) ==
  \E c \in Starts \ Called :
    /\ calls' = Append(calls, c)
    /\ confirmed' = IF request THEN confirmed \cup {c} ELSE confirmed
    /\ ui' = [ui EXCEPT !.status = "validating", !.run = NoRun, !.accepting = TRUE,
                        !.confirmed = request, !.report = NoRun, !.error = FALSE,
                        !.confirmation = FALSE]

\* Unless it is hasty, the user waits for the event that retires an ended run.
Patient ==
  Hasty \/ ui.status \notin Outcomes \/ ui.run \in ui.retired \cup {NoRun}

\* Submit: the form is valid as far as the page can tell.
\* Bound: there is a call left for the run it asks for.
Submit ==
  /\ ~locked /\ ~showsResults
  /\ Called # Starts
  /\ Patient
  /\ ui' = [initialExecutionState EXCEPT !.status = "validating", !.retired = ui.retired]
  /\ checking' = checking + 1
  /\ UNCHANGED <<vars, calls, confirmed, asked, settled, delivered>>

\* ValidateBenchmark answers: the request is invalid, has to be confirmed, or
\* is run at once.
Validated ==
  /\ checking > 0
  /\ checking' = checking - 1
  /\ \/ /\ ui' = [ui EXCEPT !.status = "failed", !.accepting = FALSE, !.error = TRUE]
        /\ UNCHANGED <<calls, confirmed>>
     \/ /\ ui' = [ui EXCEPT !.status = "awaiting-confirmation", !.confirmed = TRUE,
                            !.confirmation = TRUE, !.error = FALSE]
        /\ UNCHANGED <<calls, confirmed>>
     \/ execute(FALSE)
  /\ UNCHANGED <<vars, asked, settled, delivered>>

Confirm ==
  /\ showsDialog
  /\ execute(ui.confirmed)
  /\ UNCHANGED <<vars, checking, asked, settled, delivered>>

Dismiss ==
  /\ showsDialog
  /\ ui' = [ui EXCEPT !.status = "idle", !.confirmation = FALSE, !.error = FALSE]
  /\ UNCHANGED <<vars, checking, calls, confirmed, asked, settled, delivered>>

\* The Cancel button of the execution view, while it can be pressed.
RequestCancel(c) ==
  /\ ui.status \in {"validating", "running"} /\ ui.run # NoRun
  /\ pc[c] = "uncalled" /\ asked[c] = NoRun
  /\ asked' = [asked EXCEPT ![c] = ui.run]
  /\ UNCHANGED <<vars, ui, checking, calls, confirmed, settled, delivered>>

\* "New benchmark" after a completed run, "Review configuration" after another.
Reset ==
  /\ showsResults \/ ui.status \in {"failed", "cancelled"}
  /\ Patient
  /\ ui' = [initialExecutionState EXCEPT !.retired = ui.retired]
  /\ UNCHANGED <<vars, checking, calls, confirmed, asked, settled, delivered>>

-----------------------------------------------------------------------------
(* Wails: calls reach the service, events and answers reach the page. *)

DeliverEvent ==
  /\ delivered < Len(events)
  /\ delivered' = delivered + 1
  /\ LET event == events[delivered'] IN ui' = applyEvent(event.run, event.name)
  /\ UNCHANGED <<vars, checking, calls, confirmed, asked, settled>>

Answered(c) == At(c, "returned") /\ c \notin settled

DeliverResult(c) ==
  /\ c \in Starts /\ Answered(c)
  /\ settled' = settled \cup {c}
  /\ ui' = applyRPCResult(result[c])
  /\ UNCHANGED <<vars, checking, calls, confirmed, asked, delivered>>

DeliverCancelResult(c) ==
  /\ c \in Cancels /\ Answered(c)
  /\ settled' = settled \cup {c}
  /\ ui' = cancelResolved(asked[c], result[c])
  /\ UNCHANGED <<vars, checking, calls, confirmed, asked, delivered>>

\* Only a request that was not confirmed can lack its confirmation, and only
\* if what ValidateBenchmark had seen has changed.
StartStep(c) ==
  /\ c \in Called
  /\ Start(c)
  /\ "confirmation" \in causes'[c] => SuiteEdited /\ c \notin confirmed
  /\ UNCHANGED page

CancelStep(c) ==
  /\ asked[c] # NoRun
  /\ Cancel(c, asked[c])
  /\ UNCHANGED page

\* Every run the bound allows has been made, and the user is done.
Quiet ==
  /\ Called = Starts /\ checking = 0 /\ delivered = Len(events)
  /\ \A c \in Called : c \in settled
  /\ UNCHANGED desktop

DesktopNext ==
  \/ Submit \/ Validated \/ Confirm \/ Dismiss \/ Reset
  \/ \E c \in Cancels : RequestCancel(c)
  \/ DeliverEvent
  \/ \E c \in Starts : DeliverResult(c)
  \/ \E c \in Cancels : DeliverCancelResult(c)
  \/ \E c \in Starts : StartStep(c)
  \/ \E c \in Cancels : CancelStep(c)
  \/ \E c \in Call : Emit(c) /\ UNCHANGED page
  \/ Quiet

DesktopSpec == DesktopInit /\ [][DesktopNext]_desktop

\* Calls that were made are executed, and the runtime delivers; the user does
\* not have to act.
DesktopFairSpec ==
  /\ DesktopSpec
  /\ WF_desktop(Validated) /\ WF_desktop(DeliverEvent)
  /\ \A c \in Call : WF_desktop(Emit(c) /\ UNCHANGED page)
  /\ \A c \in Starts : WF_desktop(DeliverResult(c))
  /\ \A c \in Starts : WF_desktop(StartStep(c) /\ pc'[c] # pc[c])

-----------------------------------------------------------------------------
(* Properties *)

\* The run of the last call of StartBenchmark, once it has begun.
RequestedRun == IF calls = << >> THEN NoRun ELSE runID[Last(calls)]

\* The execution state has the type state.ts gives it.
DesktopTypeOK ==
  /\ ui \in [status : RunStates, run : RunIDs \cup {NoRun}, accepting : BOOLEAN,
             retired : SUBSET RunIDs, confirmed : BOOLEAN, confirmation : BOOLEAN,
             report : RunIDs \cup {NoRun}, error : BOOLEAN]
  /\ checking \in Nat
  /\ Called \subseteq Starts /\ confirmed \subseteq Called /\ settled \subseteq Call
  /\ delivered \in 0..Len(events)

\* The run the page shows is the run it asked for last, and the outcome it shows
\* is the outcome of that run.
PageShowsItsRun ==
  /\ ui.run \in {NoRun, RequestedRun}
  /\ ui.run # NoRun /\ ui.status \in Outcomes => Shown(ui.run, ui.status)

\* The report on the page can be exported.
ShownReportCanBeExported == showsResults => ui.report \in reports

\* Without changes behind its back, the form is never refused a run.
StartIsNeverRefused == \A c \in Called : At(c, "returned") => HasBegun(c)

\* Nothing the page receives changes the outcome of a run it has retired.
FinishedStaysFinished ==
  [][(delivered' # delivered \/ settled' # settled)
       /\ ui.run \in ui.retired /\ ui.status \in Outcomes
     => /\ ui'.status = ui.status /\ ui'.run = ui.run /\ ui'.report = ui.report]_desktop

\* Whenever the configuration is locked for a confirmation, the dialog that can
\* unlock it is shown.
ConfirmationCanBeGiven == ui.status = "awaiting-confirmation" => showsDialog

\* A locked page is released: by an outcome, or by a dialog.
PageIsReleased == locked ~> (~locked \/ showsDialog)
=============================================================================
