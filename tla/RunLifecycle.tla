---------------------------- MODULE RunLifecycle ----------------------------
(***************************************************************************)
(* What the application service promises whoever listens to its events:    *)
(* runs are numbered and shown one after the other, and each goes through  *)
(* the states of RunState in an order that makes sense to a user.          *)
(***************************************************************************)
EXTENDS Naturals

VARIABLES
  run,    \* the run of the last event
  shown,  \* the name of the last event
  asked   \* whether the run has been shown to be cancelling

vars == <<run, shown, asked>>

Init ==
  /\ run = 0
  /\ shown = "idle"
  /\ asked = FALSE

\* A run is over once its last event has been shown.
Over == {"idle", "Completed", "Failed", "awaiting-confirmation"}

Open ==
  /\ shown \in Over
  /\ run' = run + 1
  /\ shown' = "validating"
  /\ asked' = FALSE

\* The states of a run are lower-case; Progress, Completed, Failed and
\* Cancelled are the events with a payload.
Unasked ==
  {<<"validating", "running">>, <<"validating", "failed">>,
   <<"validating", "awaiting-confirmation">>, <<"failed", "Failed">>}
  \cup {"running", "Progress"} \X {"Progress", "completed", "failed"}
  \cup {<<"completed", "Completed">>}

\* Once it is cancelling, a run can only become cancelled, and then idle.
Asked ==
  {"cancelling", "Progress"} \X {"cancelling", "Progress", "cancelled"}
  \cup {<<"cancelled", "Cancelled">>, <<"Cancelled", "idle">>}

Follow(name) ==
  /\ <<shown, name>> \in IF asked THEN Asked ELSE Unasked
  /\ shown' = name
  /\ UNCHANGED <<run, asked>>

AskToCancel ==
  /\ ~asked
  /\ shown \in {"validating", "running", "Progress"}
  /\ shown' = "cancelling"
  /\ asked' = TRUE
  /\ UNCHANGED run

Names == {"running", "cancelling", "cancelled", "completed", "failed",
          "awaiting-confirmation", "idle", "Progress", "Completed", "Failed", "Cancelled"}

Next ==
  \/ Open
  \/ AskToCancel
  \/ \E name \in Names : Follow(name)

Spec == Init /\ [][Next]_vars
=============================================================================
