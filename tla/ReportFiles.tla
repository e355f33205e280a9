---------------------------- MODULE ReportFiles ----------------------------
(***************************************************************************)
(* What exporting a report promises the user: a file is replaced at once,  *)
(* by the whole report that was asked for, before the export succeeds; it  *)
(* is never seen half written, whatever fails and whenever it stops.  The  *)
(* report stays until another replaces it, or the machine stops: then the  *)
(* file may have again any content it had since the machine was started,   *)
(* even though the export has succeeded.                                   *)
(***************************************************************************)
CONSTANTS
  Export,  \* exports
  Path,    \* where reports can be saved
  Nothing, \* there is no file
  Other,   \* a file that is no report
  Report   \* reports of runs, in a format

VARIABLES
  files,    \* what is at each path
  earlier,  \* what was there before, since the machine was started
  wanted,   \* the report, in a format, an export is for
  outcome   \* "pending", "placed", or how the export has ended

vars == <<files, earlier, wanted, outcome>>

Init ==
  /\ files \in [Path -> {Nothing, Other}]
  /\ earlier = [path \in Path |-> {}]
  /\ wanted = [e \in Export |-> Nothing]
  /\ outcome = [e \in Export |-> "pending"]

Want(e) ==
  /\ outcome[e] = "pending" /\ wanted[e] = Nothing
  /\ \E report \in Report : wanted' = [wanted EXCEPT ![e] = report]
  /\ UNCHANGED <<files, earlier, outcome>>

Place(e) ==
  /\ outcome[e] = "pending" /\ wanted[e] # Nothing
  /\ outcome' = [outcome EXCEPT ![e] = "placed"]
  /\ \E path \in Path :
       /\ files' = [files EXCEPT ![path] = wanted[e]]
       /\ earlier' = [earlier EXCEPT ![path] = @ \cup {files[path]}]
  /\ UNCHANGED wanted

\* An export that has placed its report may yet fail to clean up.
End(e) ==
  /\ \/ outcome[e] = "placed" /\ outcome' = [outcome EXCEPT ![e] = "success"]
     \/ outcome[e] \in {"pending", "placed"} /\ outcome' = [outcome EXCEPT ![e] = "error"]
     \/ outcome[e] = "pending" /\ outcome' = [outcome EXCEPT ![e] = "cancelled"]
  /\ UNCHANGED <<files, earlier, wanted>>

\* The application stops, which no file shows, or the machine, after which a file
\* is what it was at some time before.
Crash ==
  /\ \E lost \in SUBSET {e \in Export : outcome[e] \in {"pending", "placed"}} :
       outcome' = [e \in Export |-> IF e \in lost THEN "lost" ELSE outcome[e]]
  /\ \/ UNCHANGED <<files, earlier>>
     \/ /\ files' \in [Path -> Report \cup {Nothing, Other}]
        /\ \A path \in Path : files'[path] \in {files[path]} \cup earlier[path]
        /\ earlier' = [path \in Path |-> {}]
  /\ UNCHANGED wanted

Next == Crash \/ \E e \in Export : Want(e) \/ Place(e) \/ End(e)

Spec == Init /\ [][Next]_vars
=============================================================================
