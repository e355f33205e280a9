---------------------------- MODULE ReportExport ----------------------------
(***************************************************************************)
(* ExportReport of src/app/export.go: the report of a run is rendered      *)
(* (src/output/render.go) into a temporary file beside its destination,    *)
(* which is synced, closed, renamed to the destination, and removed by a   *)
(* deferred call.  Every call to the file system may fail, exports may     *)
(* overlap, and the application or the machine may stop at any moment; the *)
(* directory is not synced, so a stop of the machine may undo a rename.    *)
(*                                                                         *)
(* A path is named by its extension.  The content of a file is the number  *)
(* of records of a report it holds.                                        *)
(***************************************************************************)
EXTENDS Integers, FiniteSets

CONSTANTS
  Export,     \* calls of ExportReport
  Nothing,    \* the content of a file that does not exist
  Other,      \* the content of a file that is no report
  Records,    \* records of a rendered report
  MaxRuns,    \* bound: runs that complete
  MaxCrashes  \* bound: times the application stops

ExportFormats == {"json", "csv"}
Path == ExportFormats
Report == [run : 1..MaxRuns, format : ExportFormats]
Contents == [report : Report, records : 0..Records, synced : BOOLEAN]

ASSUME ReportExportAssumption ==
  /\ Records \in Nat \ {0}
  /\ MaxRuns \in Nat
  /\ MaxCrashes \in Nat
  /\ {Nothing, Other} \cap (Report \cup Contents) = {}

VARIABLES
  lastRun,    \* the run that has completed last, counted across restarts
  reports,    \* runs whose report the service keeps
  pc,
  wanted,     \* the report, in a format, an export is for
  path,       \* its destination
  rendered,   \* records the CSV writer has taken, buffered ones included
  temporary,  \* the content of the temporary file
  open,       \* exports whose temporary file is open
  files,      \* the content of the destinations
  failed,     \* exports that have met an error
  unremoved,  \* exports that could not remove their temporary file
  earlier,    \* contents that destinations had before, since the machine has started
  unlinked,   \* the content a temporary file had when its name went
  revived,    \* exports whose temporary file has come back
  result,     \* what the calls have returned
  crashes

exports == <<pc, wanted, path, rendered, failed, result>>
undoable == <<earlier, unlinked, revived>>
disk == <<temporary, open, files, unremoved, undoable>>
service == <<lastRun, reports>>
vars == <<exports, disk, service, crashes>>

ReportOf(run, format) == [run |-> run, format |-> format]
Content(report, records, synced) == [report |-> report, records |-> records, synced |-> synced]

Init ==
  /\ lastRun = 0
  /\ reports = {}
  /\ pc = [e \in Export |-> "uncalled"]
  /\ wanted = [e \in Export |-> Nothing]
  /\ path = [e \in Export |-> Nothing]
  /\ rendered = [e \in Export |-> 0]
  /\ temporary = [e \in Export |-> Nothing]
  /\ open = {}
  /\ files \in [Path -> {Nothing, Other}]
  /\ failed = {}
  /\ unremoved = {}
  /\ earlier = [p \in Path |-> {}]
  /\ unlinked = [e \in Export |-> Nothing]
  /\ revived = {}
  /\ result = [e \in Export |-> "none"]
  /\ crashes = 0

Goto(e, label) == pc' = [pc EXCEPT ![e] = label]
Return(e, answer) == Goto(e, "returned") /\ result' = [result EXCEPT ![e] = answer]

\* finishRun of a run that has completed: only its report is kept.
CompleteRun ==
  /\ lastRun < MaxRuns
  /\ lastRun' = lastRun + 1
  /\ reports' = {lastRun'}
  /\ UNCHANGED <<exports, disk, crashes>>

-----------------------------------------------------------------------------
(* ExportReport *)

\* 0 is the empty run ID; "text" is a format, but not of exports.
ExportReport(e) ==
  /\ pc[e] = "uncalled"
  /\ \E format \in ExportFormats \cup {"text", "unknown"}, run \in 0..lastRun :
       IF format \in ExportFormats /\ run \in reports
       THEN /\ wanted' = [wanted EXCEPT ![e] = ReportOf(run, format)]
            /\ Goto(e, "dialog")
            /\ UNCHANGED result
       ELSE Return(e, "error") /\ UNCHANGED wanted
  /\ UNCHANGED <<path, rendered, failed, disk, service, crashes>>

\* The dialog fails, is cancelled, or names a path, with or without an extension.
SelectSaveFile(e) ==
  /\ pc[e] = "dialog"
  /\ \/ \E answer \in {"error", "cancelled"} : Return(e, answer) /\ UNCHANGED path
     \/ \E extension \in Path \cup {""} :
          /\ path' = [path EXCEPT ![e] = IF extension = "" THEN wanted[e].format ELSE extension]
          /\ Goto(e, "create")
          /\ UNCHANGED result
  /\ UNCHANGED <<wanted, rendered, failed, disk, service, crashes>>

CreateTemp(e) ==
  /\ pc[e] = "create"
  /\ \/ Return(e, "error") /\ UNCHANGED <<temporary, open>>
     \/ /\ temporary' = [temporary EXCEPT ![e] = Content(wanted[e], 0, FALSE)]
        /\ open' = open \cup {e}
        /\ Goto(e, wanted[e].format)
        /\ UNCHANGED result
  /\ UNCHANGED <<wanted, path, rendered, failed, files, unremoved, undoable, service, crashes>>

-----------------------------------------------------------------------------
(* Render *)

\* A write may stop short with an error; one without an error is complete.
Write(e, upTo, next) ==
  \/ /\ temporary' = [temporary EXCEPT ![e].records = upTo]
     /\ Goto(e, next)
     /\ UNCHANGED failed
  \/ /\ \E records \in temporary[e].records..upTo :
          temporary' = [temporary EXCEPT ![e].records = records]
     /\ failed' = failed \cup {e}
     /\ Goto(e, "close")

\* The JSON encoder writes the report at once.
RenderJSON(e) ==
  /\ pc[e] = "json"
  /\ Write(e, Records, "sync")
  /\ UNCHANGED <<wanted, path, rendered, result, open, files, unremoved, undoable, service, crashes>>

\* A record stays in the buffer of the CSV writer unless it is full.
WriteRecord(e) ==
  /\ pc[e] = "csv" /\ rendered[e] < Records
  /\ rendered' = [rendered EXCEPT ![e] = @ + 1]
  /\ \/ UNCHANGED <<temporary, pc, failed>>
     \/ \E upTo \in rendered[e]..rendered'[e] : Write(e, upTo, "csv")
  /\ UNCHANGED <<wanted, path, result, open, files, unremoved, undoable, service, crashes>>

\* Faulty: csvWriter.Error is not looked at after the flush.
FlushUnchecked(e) ==
  /\ pc[e] = "csv" /\ rendered[e] = Records
  /\ \E records \in temporary[e].records..Records :
       temporary' = [temporary EXCEPT ![e].records = records]
  /\ Goto(e, "sync")
  /\ UNCHANGED <<wanted, path, rendered, failed, result, open, files, unremoved, undoable, service, crashes>>

Flush(e) ==
  /\ pc[e] = "csv" /\ rendered[e] = Records
  /\ Write(e, Records, "sync")
  /\ UNCHANGED <<wanted, path, rendered, result, open, files, unremoved, undoable, service, crashes>>

-----------------------------------------------------------------------------
(* The rest of writeReport *)

\* Faulty: a file that cannot be synced is not closed.
SyncWithoutClose(e) ==
  /\ pc[e] = "sync"
  /\ \/ /\ temporary' = [temporary EXCEPT ![e].synced = TRUE]
        /\ Goto(e, "close")
        /\ UNCHANGED failed
     \/ failed' = failed \cup {e} /\ Goto(e, "remove") /\ UNCHANGED temporary
  /\ UNCHANGED <<wanted, path, rendered, result, open, files, unremoved, undoable, service, crashes>>

Sync(e) ==
  /\ pc[e] = "sync"
  /\ \/ temporary' = [temporary EXCEPT ![e].synced = TRUE] /\ UNCHANGED failed
     \/ failed' = failed \cup {e} /\ UNCHANGED temporary
  /\ Goto(e, "close")
  /\ UNCHANGED <<wanted, path, rendered, result, open, files, unremoved, undoable, service, crashes>>

\* The file is closed also after an error, and even if Close returns one.
Close(e) ==
  /\ pc[e] = "close"
  /\ open' = open \ {e}
  /\ failed' \in {failed, failed \cup {e}}
  /\ Goto(e, IF e \in failed' THEN "remove" ELSE "rename")
  /\ UNCHANGED <<wanted, path, rendered, result, temporary, files, unremoved, undoable, service, crashes>>

\* The name of the temporary file goes, if it is there.
Unlink(e) ==
  /\ temporary' = [temporary EXCEPT ![e] = Nothing]
  /\ unlinked' = [unlinked EXCEPT ![e] = IF temporary[e] = Nothing THEN @ ELSE temporary[e]]

\* The directory is not synced afterwards.
Rename(e) ==
  /\ pc[e] = "rename"
  /\ \/ /\ files' = [files EXCEPT ![path[e]] = temporary[e]]
        /\ earlier' = [earlier EXCEPT ![path[e]] = @ \cup {files[path[e]]}]
        /\ Unlink(e)
        /\ UNCHANGED failed
     \/ failed' = failed \cup {e} /\ UNCHANGED <<files, earlier, temporary, unlinked>>
  /\ Goto(e, "remove")
  /\ UNCHANGED <<wanted, path, rendered, result, open, unremoved, revived, service, crashes>>

\* The deferred Remove, where a file that does not exist is no error.
Remove(e) ==
  /\ pc[e] = "remove"
  /\ \/ /\ Unlink(e)
        /\ Return(e, IF e \in failed THEN "error" ELSE "success")
        /\ UNCHANGED <<unremoved, failed>>
     \/ /\ unremoved' = unremoved \cup {e}
        /\ failed' = failed \cup {e}
        /\ Return(e, "error")
        /\ UNCHANGED <<temporary, unlinked>>
  /\ UNCHANGED <<wanted, path, rendered, open, files, earlier, revived, service, crashes>>

-----------------------------------------------------------------------------
(* Crashes *)

Called(e) == pc[e] \notin {"uncalled", "returned", "lost"}

\* What is left of a content when the memory of the machine is lost.
durable(content) ==
  IF content \in {Nothing, Other} \/ content.synced THEN content
  ELSE [content EXCEPT !.records = 0]

\* What may be found at a destination, and under the name of a temporary file: as no
\* directory is ever synced, every change of one may be undone, each by itself.
found(p) == {durable(content) : content \in earlier[p] \cup {files[p]}}
left(e) == {Nothing, durable(temporary[e]), durable(unlinked[e])}

\* The application is killed, or the machine stops, and both are started again.
\* Bound: MaxCrashes.
Crash ==
  /\ crashes < MaxCrashes
  /\ crashes' = crashes + 1
  /\ pc' = [e \in Export |-> IF Called(e) THEN "lost" ELSE pc[e]]
  /\ reports' = {}
  /\ open' = {}
  /\ \/ UNCHANGED <<files, temporary, undoable>>
     \/ /\ files' \in [Path -> UNION {found(p) : p \in Path}]
        /\ \A p \in Path : files'[p] \in found(p)
        /\ temporary' \in [Export -> UNION {left(e) : e \in Export}]
        /\ \A e \in Export : temporary'[e] \in left(e)
        /\ earlier' = [p \in Path |-> {}]
        /\ unlinked' = [e \in Export |-> Nothing]
        /\ revived' = revived \cup {e \in Export : temporary[e] = Nothing /\ temporary'[e] # Nothing}
  /\ UNCHANGED <<wanted, path, rendered, failed, result, unremoved, lastRun>>

Call(e) ==
  \/ ExportReport(e) \/ SelectSaveFile(e) \/ CreateTemp(e)
  \/ RenderJSON(e) \/ WriteRecord(e) \/ Flush(e)
  \/ Sync(e) \/ Close(e) \/ Rename(e) \/ Remove(e)

Over == (\A e \in Export : ~Called(e) /\ pc[e] # "uncalled") /\ UNCHANGED vars

Next == CompleteRun \/ Crash \/ Over \/ \E e \in Export : Call(e)

Spec == Init /\ [][Next]_vars

-----------------------------------------------------------------------------
(* Properties *)

\* An export that has returned has no file open, and has left no temporary file
\* unless its removal failed, which is then the error it returns.  Only the machine
\* may bring one back, by stopping before the directory is on the disk.
TemporariesAreRemoved ==
  \A e \in Export : pc[e] = "returned" =>
    /\ e \notin open
    /\ temporary[e] # Nothing => e \in unremoved \cup revived
    /\ e \in unremoved => result[e] = "error"

\* Exports replace files at once by whole reports, before they succeed.  When the
\* machine stops, a file may be again what it was before, and is nothing else.
saved(content) ==
  IF content \notin {Nothing, Other} /\ content.records = Records THEN content.report ELSE content

savedFiles == [p \in Path |-> saved(files[p])]
savedEarlier == [p \in Path |-> {saved(content) : content \in earlier[p]}]

outcomes ==
  [e \in Export |->
    CASE pc[e] = "returned" -> result[e]
      [] pc[e] = "lost" -> "lost"
      [] pc[e] = "remove" /\ e \notin failed -> "placed"
      [] OTHER -> "pending"]

ReportFiles == INSTANCE ReportFiles
  WITH files <- savedFiles, earlier <- savedEarlier, outcome <- outcomes
ImplementsReportFiles == ReportFiles!Spec
=============================================================================
