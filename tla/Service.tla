------------------------------- MODULE Service -------------------------------
(***************************************************************************)
(* The run control of src/app/service.go: concurrent calls of              *)
(* StartBenchmark and CancelBenchmark share one active run under a mutex,  *)
(* and a second mutex, eventMu, is held from a change of the state until   *)
(* its events have been emitted.                                           *)
(*                                                                         *)
(* A call is a goroutine of the desktop runtime.  What it does while it    *)
(* holds the inner mutex is one action, and so is every event it emits     *)
(* before it releases eventMu.  The run itself is the Runner of module     *)
(* Runner, seen through the error it returns.                              *)
(***************************************************************************)
EXTENDS Integers, SequencesExt

CONSTANTS
  Starts,      \* calls of StartBenchmark
  Cancels,     \* calls of CancelBenchmark
  Free,        \* the state of a mutex nobody holds
  MaxProgress  \* bound: progress events of a run

ASSUME ServiceAssumption ==
  /\ Starts \cap Cancels = {}
  /\ Free \notin Starts \cup Cancels
  /\ MaxProgress \in Nat

VARIABLES
  active,     \* the active run: its id, NoRun if there is none, and its state
  nextRunID,
  contexts,   \* runs whose context has been cancelled
  reports,    \* runs whose report is kept for export
  eventMu,    \* who holds the mutex
  pending,    \* events a call has yet to emit
  events,     \* history: every event emitted
  pc,
  runID,      \* the run a call has begun, or has been told to cancel
  causes,     \* what went wrong in the run of a call
  result      \* what a call returns

service == <<active, nextRunID, contexts, reports>>
emission == <<eventMu, pending, events>>
vars == <<service, emission, pc, runID, causes, result>>

Call == Starts \cup Cancels
NoRun == 0
Event(run, name) == [run |-> run, name |-> name]
Result(run, state, error) == [run |-> run, state |-> state, error |-> error]
Inactive == [id |-> NoRun, state |-> "idle"]

Init ==
  /\ active = Inactive
  /\ nextRunID = 0
  /\ contexts = {}
  /\ reports = {}
  /\ eventMu = Free
  /\ pending = [c \in Call |-> << >>]
  /\ events = << >>
  /\ pc = [c \in Call |-> "uncalled"]
  /\ runID = [c \in Call |-> NoRun]
  /\ causes = [c \in Starts |-> {}]
  /\ result = [c \in Call |-> Result(NoRun, "idle", FALSE)]

-----------------------------------------------------------------------------
(* Emission *)

\* Faulty: the events are emitted after eventMu has been released.
AnnounceUnlocked(c, run, names) ==
  /\ pending' = [pending EXCEPT ![c] = [i \in DOMAIN names |-> Event(run, names[i])]]
  /\ UNCHANGED <<eventMu, events>>

\* Keep eventMu until the events have been emitted.
Announce(c, run, names) ==
  /\ eventMu' = c
  /\ pending' = [pending EXCEPT ![c] = [i \in DOMAIN names |-> Event(run, names[i])]]
  /\ UNCHANGED events

\* The last event releases eventMu.
Emit(c) ==
  /\ pending[c] # << >>
  /\ events' = Append(events, Head(pending[c]))
  /\ pending' = [pending EXCEPT ![c] = Tail(@)]
  /\ eventMu' = IF Len(pending[c]) = 1 THEN Free ELSE eventMu
  /\ UNCHANGED <<service, pc, runID, causes, result>>

At(c, label) == pc[c] = label /\ pending[c] = << >>
Lock == eventMu = Free
Goto(c, label) == pc' = [pc EXCEPT ![c] = label]
Return(c, run, state, error) ==
  result' = [result EXCEPT ![c] = Result(run, state, error)] /\ Goto(c, "returned")

-----------------------------------------------------------------------------
(* StartBenchmark *)

BeginRun(c) ==
  /\ At(c, "uncalled") /\ Lock
  /\ IF active # Inactive
     THEN /\ Return(c, active.id, active.state, TRUE)
          /\ UNCHANGED <<service, emission, runID>>
     ELSE /\ nextRunID' = nextRunID + 1
          /\ runID' = [runID EXCEPT ![c] = nextRunID']
          /\ active' = [id |-> nextRunID', state |-> "validating"]
          /\ Announce(c, nextRunID', <<"validating">>)
          /\ Goto(c, "validate")
          /\ UNCHANGED <<contexts, reports, result>>
  /\ UNCHANGED causes

\* Faulty: a request that lacks its confirmation returns at once.
ValidateReturnsEarly(c) ==
  /\ At(c, "validate")
  /\ \/ /\ causes' = [causes EXCEPT ![c] = {"validation"}]
        /\ Goto(c, "finish")
        /\ UNCHANGED result
     \/ /\ causes' = [causes EXCEPT ![c] = {"confirmation"}]
        /\ Return(c, runID[c], "awaiting-confirmation", TRUE)
     \/ Goto(c, "setRunning") /\ UNCHANGED <<causes, result>>
  /\ UNCHANGED <<service, emission, runID>>

\* buildBenchmark and assessWriteImpact.
Validate(c) ==
  /\ At(c, "validate")
  /\ \/ \E cause \in {"validation", "confirmation"} :
          causes' = [causes EXCEPT ![c] = {cause}] /\ Goto(c, "finish")
     \/ Goto(c, "setRunning") /\ UNCHANGED causes
  /\ UNCHANGED <<service, emission, runID, result>>

\* setRunState(runID, RunStateRunning).
SetRunning(c) ==
  /\ At(c, "setRunning") /\ Lock
  /\ IF active.id # runID[c] \/ active.state = "cancelling"
     THEN /\ causes' = [causes EXCEPT ![c] = {"canceled"}]
          /\ Goto(c, "finish")
          /\ UNCHANGED <<active, emission>>
     ELSE /\ active' = [active EXCEPT !.state = "running"]
          /\ Announce(c, runID[c], <<"running">>)
          /\ Goto(c, "run")
          /\ UNCHANGED causes
  /\ UNCHANGED <<nextRunID, contexts, reports, runID, result>>

\* The observer, called on the goroutine of the run.
Progress(c) ==
  /\ At(c, "run") /\ Lock
  /\ Cardinality({i \in DOMAIN events : events[i] = Event(runID[c], "Progress")}) < MaxProgress
  /\ Announce(c, runID[c], <<"Progress">>)
  /\ UNCHANGED <<service, pc, runID, causes, result>>

\* Run fails with context.Canceled only under a cancelled context, but a
\* cancelled run may also end in success or with another error.
RunReturns(c) ==
  /\ At(c, "run")
  /\ \E err \in {{}, {"io"}, {"canceled"}, {"canceled", "remove"}} :
       /\ "canceled" \in err => runID[c] \in contexts
       /\ causes' = [causes EXCEPT ![c] = err]
  /\ Goto(c, "finish")
  /\ UNCHANGED <<service, emission, runID, result>>

\* The state StartBenchmark finishes its run with.
target(c) ==
  CASE causes[c] = {} -> "completed"
    [] "canceled" \in causes[c] -> "cancelled"
    [] "confirmation" \in causes[c] -> "awaiting-confirmation"
    [] OTHER -> "failed"

\* Faulty: a cancellation that came too late for the run is forgotten.
finalStateOfRun(c) == target(c)

finalState(c) ==
  IF active.id = runID[c] /\ active.state = "cancelling" THEN "cancelled" ELSE target(c)

\* Faulty: the report is kept although the run has become cancelled.
keptReportsOfRun(c) == IF target(c) = "completed" THEN {runID[c]} ELSE reports

\* Faulty: the reports are cleared after the new one has been added.
keptReportsCleared(c) == IF finalState(c) = "completed" THEN {} ELSE reports

keptReports(c) == IF finalState(c) = "completed" THEN {runID[c]} ELSE reports

lastEvents(state) ==
  CASE state = "cancelled" -> <<"cancelled", "Cancelled", "idle">>
    [] state = "failed" -> <<"failed", "Failed">>
    [] state = "completed" -> <<"completed", "Completed">>
    [] OTHER -> <<state>>

\* Faulty: a failed run is returned as failed, whatever finishRun has decided.
returnedStateOfRun(c) == IF target(c) = "failed" THEN "failed" ELSE finalState(c)

returnedState(c) == finalState(c)

\* A run that was to fail returns its error unless it has become cancelled; the
\* missing confirmation is returned as an error whatever finishRun has decided.
returnedError(c) == returnedState(c) = "failed" \/ "confirmation" \in causes[c]

\* finishRun and the return of StartBenchmark.
FinishRun(c) ==
  /\ At(c, "finish") /\ Lock
  /\ IF active.id = runID[c]
     THEN /\ contexts' = contexts \cup {runID[c]}
          /\ active' = Inactive
     ELSE UNCHANGED <<contexts, active>>
  /\ reports' = keptReports(c)
  /\ Announce(c, runID[c], lastEvents(finalState(c)))
  /\ Return(c, runID[c], returnedState(c), returnedError(c))
  /\ UNCHANGED <<nextRunID, runID, causes>>

-----------------------------------------------------------------------------
(* CancelBenchmark(run); NoRun stands for the empty id. *)

\* Faulty: cancelling a run gives up its place at once.
CancelAbandons(c, run) ==
  /\ At(c, "uncalled") /\ Lock
  /\ IF active = Inactive \/ run \notin {NoRun, active.id}
     THEN /\ Return(c, active.id, active.state, TRUE)
          /\ UNCHANGED <<active, contexts, emission, runID>>
     ELSE /\ active' = Inactive
          /\ contexts' = contexts \cup {active.id}
          /\ runID' = [runID EXCEPT ![c] = active.id]
          /\ Announce(c, active.id, <<"cancelling">>)
          /\ Return(c, active.id, "cancelling", FALSE)
  /\ UNCHANGED <<nextRunID, reports, causes>>

Cancel(c, run) ==
  /\ At(c, "uncalled") /\ Lock
  /\ IF active = Inactive \/ run \notin {NoRun, active.id}
     THEN /\ Return(c, active.id, active.state, TRUE)
          /\ UNCHANGED <<active, contexts, emission, runID>>
     ELSE /\ active' = [active EXCEPT !.state = "cancelling"]
          /\ contexts' = contexts \cup {active.id}
          /\ runID' = [runID EXCEPT ![c] = active.id]
          /\ Announce(c, active.id, <<"cancelling">>)
          /\ Return(c, active.id, "cancelling", FALSE)
  /\ UNCHANGED <<nextRunID, reports, causes>>

-----------------------------------------------------------------------------
\* A listener knows the ids of the runs it has been shown.
Start(c) == BeginRun(c) \/ Validate(c) \/ SetRunning(c) \/ Progress(c) \/ RunReturns(c) \/ FinishRun(c)

AllReturned == \A c \in Call : At(c, "returned")

Next ==
  \/ \E c \in Starts : Start(c)
  \/ \E c \in Cancels, run \in 0..nextRunID : Cancel(c, run)
  \/ \E c \in Call : Emit(c)
  \/ AllReturned /\ UNCHANGED vars

Spec == Init /\ [][Next]_vars

\* A run that has begun goes on: its steps compute, wait for the file system or
\* for eventMu, which every holder releases.  Nobody has to call the service.
FairSpec ==
  /\ Spec
  /\ \A c \in Call : WF_vars(Emit(c))
  /\ \A c \in Starts :
       WF_vars(Validate(c)) /\ WF_vars(SetRunning(c)) /\ WF_vars(RunReturns(c)) /\ WF_vars(FinishRun(c))

-----------------------------------------------------------------------------
(* Properties *)

RunStates == {"idle", "validating", "awaiting-confirmation", "running",
              "cancelling", "completed", "failed", "cancelled"}
Names == RunStates \cup {"Progress", "Completed", "Failed", "Cancelled"}
RunIDs == 1..nextRunID
Shown(run, name) == \E i \in DOMAIN events : events[i] = Event(run, name)
HasBegun(c) == runID[c] # NoRun
Accepted(c) == c \in Cancels /\ result[c] = Result(runID[c], "cancelling", FALSE)

\* The variables have their types, and only the holder of eventMu emits.
TypeOK ==
  /\ active \in [id : RunIDs, state : {"validating", "running", "cancelling"}] \cup {Inactive}
  /\ nextRunID \in Nat
  /\ contexts \subseteq RunIDs
  /\ reports \subseteq RunIDs
  /\ eventMu \in Call \cup {Free}
  /\ events \in Seq([run : RunIDs, name : Names])
  /\ pending \in [Call -> Seq([run : RunIDs, name : Names])]
  /\ pc \in [Call -> {"uncalled", "validate", "setRunning", "run", "finish", "returned"}]
  /\ runID \in [Call -> RunIDs \cup {NoRun}]
  /\ result \in [Call -> [run : RunIDs \cup {NoRun}, state : RunStates, error : BOOLEAN]]
  /\ causes \in [Starts -> SUBSET {"validation", "confirmation", "canceled", "io", "remove"}]
  /\ \A c \in Call : eventMu = c <=> pending[c] # << >>

\* Until it finishes its run, a StartBenchmark call owns the active run, so two
\* benchmarks never load the disk at the same time.
CallOwnsActiveRun ==
  \A c \in Starts : pc[c] \in {"validate", "setRunning", "run", "finish"} => active.id = runID[c]

\* A run whose cancellation CancelBenchmark has accepted is returned as
\* cancelled and leaves no report to export, however the cancellation raced with
\* the end of the run.  What went wrong in the run is not returned, except that
\* its request lacked the confirmation.
CancelIsHonoured ==
  \A c \in Cancels, s \in Starts :
    Accepted(c) /\ HasBegun(s) /\ runID[s] = runID[c] =>
      /\ At(s, "returned") =>
           result[s] = Result(runID[s], "cancelled", "confirmation" \in causes[s])
      /\ runID[s] \notin reports

\* StartBenchmark returns the state its events have shown, and an error if they
\* have shown a failure; the one error no event shows is the missing confirmation.
ResultMatchesEvents ==
  \A s \in Starts : HasBegun(s) /\ At(s, "returned") =>
    /\ Shown(runID[s], result[s].state)
    /\ Shown(runID[s], "Completed") <=> result[s].state = "completed"
    /\ Shown(runID[s], "Failed") <=> result[s].state = "failed"
    /\ Shown(runID[s], "Cancelled") <=> result[s].state = "cancelled"
    /\ result[s].error <=> Shown(runID[s], "Failed") \/ "confirmation" \in causes[s]

\* The report that can be exported is that of the last run shown to have
\* completed; runs that fail or are cancelled after it do not take it away.
LastReportIsKept ==
  eventMu = Free => reports = {r \in RunIDs :
    Shown(r, "Completed") /\ \A later \in (r + 1)..nextRunID : ~Shown(later, "Completed")}

\* README.md: "Cleanup failures are reported as benchmark errors."
CleanupFailureIsReported ==
  \A s \in Starts : At(s, "returned") /\ "remove" \in causes[s] => result[s].error

\* Listeners see the runs go through their states in order.
lastEvent == IF events = << >> THEN Event(NoRun, "idle") ELSE Last(events)
Lifecycle == INSTANCE RunLifecycle WITH
  run <- lastEvent.run,
  shown <- lastEvent.name,
  asked <- Shown(lastEvent.run, "cancelling")
ImplementsLifecycle == Lifecycle!Spec

\* Every run that has begun is shown to be over and makes way for the next.
EveryRunEnds ==
  \A r \in 1..Cardinality(Starts) :
    (r <= nextRunID) ~> (active.id # r /\ \E name \in Lifecycle!Over : Shown(r, name))
=============================================================================
