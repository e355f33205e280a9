--------------------------- MODULE ReportExportProofs ---------------------------
(***************************************************************************)
(* The export of reports for any number of overlapping exports, of runs    *)
(* and of crashes.  The inductive invariant says of every place of an      *)
(* export what it has made of its temporary file: a rename is reached only *)
(* with a whole and synced report.  A machine that stops may take it back, *)
(* but every content a destination ever had was whole or there before the  *)
(* exports, so that is all it can find instead.                            *)
(***************************************************************************)
EXTENDS ReportExport, TLAPS

Places == {"uncalled", "dialog", "create", "json", "csv", "sync", "close", "rename",
           "remove", "returned", "lost"}
Answers == {"none", "error", "cancelled", "success"}

TypeInv ==
  /\ lastRun \in 0..MaxRuns
  /\ reports \subseteq 1..lastRun
  /\ pc \in [Export -> Places]
  /\ wanted \in [Export -> Report \cup {Nothing}]
  /\ path \in [Export -> Path \cup {Nothing}]
  /\ rendered \in [Export -> 0..Records]
  /\ temporary \in [Export -> Contents \cup {Nothing}]
  /\ open \in SUBSET Export
  /\ files \in [Path -> Contents \cup {Nothing, Other}]
  /\ failed \in SUBSET Export
  /\ unremoved \in SUBSET Export
  /\ earlier \in [Path -> SUBSET (Contents \cup {Nothing, Other})]
  /\ unlinked \in [Export -> Contents \cup {Nothing}]
  /\ revived \in SUBSET Export
  /\ result \in [Export -> Answers]
  /\ crashes \in 0..MaxCrashes

Whole(content) == content \in Contents /\ content.records = Records /\ content.synced

\* An export that has not created its temporary file.
Before(e) ==
  /\ temporary[e] = Nothing /\ unlinked[e] = Nothing
  /\ e \notin open /\ e \notin failed /\ e \notin unremoved

\* An export whose temporary file is open.
During(e) ==
  /\ temporary[e] \in Contents /\ temporary[e].report = wanted[e]
  /\ e \in open /\ e \notin unremoved /\ path[e] \in Path

PlaceInv(e) ==
  /\ pc[e] = "uncalled" => Before(e) /\ wanted[e] = Nothing
  /\ pc[e] \in {"dialog", "create"} => Before(e) /\ wanted[e] \in Report
  /\ pc[e] = "create" => path[e] \in Path
  /\ pc[e] \in {"json", "csv", "sync", "close"} => During(e)
  /\ pc[e] \in {"json", "csv", "sync"} => e \notin failed
  /\ pc[e] = "csv" => temporary[e].records <= rendered[e]
  /\ pc[e] = "sync" => temporary[e].records = Records
  /\ pc[e] = "close" /\ e \notin failed => Whole(temporary[e])
  /\ pc[e] = "rename" =>
       /\ Whole(temporary[e]) /\ temporary[e].report = wanted[e] /\ path[e] \in Path
       /\ e \notin open /\ e \notin failed /\ e \notin unremoved
  /\ pc[e] = "remove" =>
       /\ e \notin open /\ e \notin unremoved
       /\ e \notin failed => temporary[e] = Nothing
  /\ pc[e] = "returned" =>
       /\ e \notin open
       /\ temporary[e] # Nothing => e \in unremoved \cup revived
       /\ e \in unremoved => result[e] = "error"
  /\ pc[e] = "returned" <=> result[e] # "none"

\* What is at a destination, now or earlier, is what was there before the exports,
\* or a whole report.
Sane(content) == content \in {Nothing, Other} \/ Whole(content)
FilesInv == \A p \in Path : \A content \in earlier[p] \cup {files[p]} : Sane(content)

Inductive == TypeInv /\ FilesInv /\ \A e \in Export : PlaceInv(e)

-----------------------------------------------------------------------------
(* The inductive step *)

\* A step of export e does not touch what belongs to the others.
Alone(e) ==
  \A d \in Export \ {e} :
    /\ pc'[d] = pc[d] /\ wanted'[d] = wanted[d] /\ path'[d] = path[d] /\ rendered'[d] = rendered[d]
    /\ temporary'[d] = temporary[d] /\ unlinked'[d] = unlinked[d] /\ result'[d] = result[d]
    /\ d \in open' <=> d \in open
    /\ d \in failed' <=> d \in failed
    /\ d \in unremoved' <=> d \in unremoved
    /\ d \in revived' <=> d \in revived

\* Nothing is no content of a file, and neither is the content of other files.
LEMMA NothingIsNoContent ==
  /\ Nothing \notin Report /\ Nothing \notin Contents
  /\ Other \notin Report /\ Other \notin Contents
BY ReportExportAssumption

\* The others stay where they are.
LEMMA OthersStay ==
  ASSUME NEW e \in Export, NEW d \in Export \ {e}, Alone(e), PlaceInv(d)
  PROVE  PlaceInv(d)'
BY DEF Alone, PlaceInv, Before, During, Whole

\* A step of an export that writes no destination keeps the invariant if it
\* keeps the types and the place of the export.
LEMMA StepOfExport ==
  ASSUME Inductive, NEW e \in Export, Alone(e), TypeInv', PlaceInv(e)', FilesInv'
  PROVE  Inductive' /\ Alone(e)
<1>1. ASSUME NEW d \in Export
      PROVE  PlaceInv(d)'
  BY <1>1, OthersStay DEF Inductive
<1> QED
  BY <1>1 DEF Inductive

\* A content with another number of records, or synced, is a content.
LEMMA ContentChanges ==
  ASSUME NEW content \in Contents, NEW records \in 0..Records
  PROVE  /\ [content EXCEPT !.records = records] \in Contents
         /\ [content EXCEPT !.records = records].records = records
         /\ [content EXCEPT !.records = records].report = content.report
         /\ [content EXCEPT !.synced = TRUE] \in Contents
         /\ [content EXCEPT !.synced = TRUE].synced
         /\ [content EXCEPT !.synced = TRUE].records = content.records
         /\ [content EXCEPT !.synced = TRUE].report = content.report
         /\ content.records \in 0..Records
BY DEF Contents

\* A write leaves the wanted number of records, or fewer and an error.
LEMMA Writing ==
  ASSUME TypeInv, NEW e \in Export, During(e), e \notin failed, NEW next \in Places,
         NEW upTo \in 0..Records, temporary[e].records <= upTo, Write(e, upTo, next)
  PROVE  /\ pc' \in [Export -> Places]
         /\ temporary' \in [Export -> Contents \cup {Nothing}]
         /\ failed' \in SUBSET Export
         /\ temporary'[e] \in Contents /\ temporary'[e].report = wanted[e]
         /\ \/ pc'[e] = next /\ temporary'[e].records = upTo /\ e \notin failed'
            \/ pc'[e] = "close" /\ e \in failed'
         /\ \A d \in Export \ {e} : /\ pc'[d] = pc[d] /\ temporary'[d] = temporary[d]
                                    /\ d \in failed' <=> d \in failed
<1>1. /\ pc \in [Export -> Places] /\ temporary \in [Export -> Contents \cup {Nothing}]
      /\ failed \in SUBSET Export /\ temporary[e] \in Contents /\ temporary[e].report = wanted[e]
  BY DEF TypeInv, During
<1>2. temporary[e].records \in 0..Records /\ Records \in Nat
  BY <1>1, ReportExportAssumption, ContentChanges
<1>3. CASE temporary' = [temporary EXCEPT ![e].records = upTo] /\ Goto(e, next) /\ UNCHANGED failed
  <2>1. temporary' = [temporary EXCEPT ![e] = [temporary[e] EXCEPT !.records = upTo]] /\ pc' = [pc EXCEPT ![e] = next]
    BY <1>3 DEF Goto
  <2>2. [temporary[e] EXCEPT !.records = upTo] \in Contents
    BY <1>1, ContentChanges
  <2>3. temporary'[e] = [temporary[e] EXCEPT !.records = upTo]
    BY <1>1, <2>1
  <2>4. temporary'[e].records = upTo /\ temporary'[e].report = wanted[e]
    BY <1>1, <2>3, ContentChanges
  <2> QED
    BY <1>1, <1>3, <2>1, <2>2, <2>3, <2>4
<1>4. ASSUME NEW records \in temporary[e].records..upTo,
             temporary' = [temporary EXCEPT ![e].records = records],
             failed' = failed \cup {e}, Goto(e, "close")
      PROVE  /\ pc' \in [Export -> Places]
             /\ temporary' \in [Export -> Contents \cup {Nothing}]
             /\ failed' \in SUBSET Export
             /\ temporary'[e] \in Contents /\ temporary'[e].report = wanted[e]
             /\ pc'[e] = "close" /\ e \in failed'
             /\ \A d \in Export \ {e} : /\ pc'[d] = pc[d] /\ temporary'[d] = temporary[d]
                                        /\ d \in failed' <=> d \in failed
  <2>1. /\ temporary' = [temporary EXCEPT ![e] = [temporary[e] EXCEPT !.records = records]]
        /\ pc' = [pc EXCEPT ![e] = "close"] /\ "close" \in Places
    BY <1>4 DEF Goto, Places
  <2>2. records \in 0..Records
    BY <1>2, <1>4
  <2>3. [temporary[e] EXCEPT !.records = records] \in Contents
    BY <1>1, <2>2, ContentChanges
  <2>4. temporary'[e] = [temporary[e] EXCEPT !.records = records]
    BY <1>1, <2>1
  <2>5. temporary'[e].report = wanted[e]
    BY <1>1, <2>2, <2>4, ContentChanges
  <2> QED
    BY <1>1, <1>4, <2>1, <2>3, <2>4, <2>5
<1> QED
  BY <1>3, <1>4 DEF Write

\* The first steps of an export, before it has a file.
LEMMA ExportReportStep ==
  ASSUME Inductive, NEW e \in Export, ExportReport(e)
  PROVE  Inductive' /\ Alone(e)
<1>1. TypeInv /\ FilesInv /\ Before(e) /\ wanted[e] = Nothing /\ pc[e] = "uncalled" /\ result[e] = "none"
  BY DEF Inductive, PlaceInv, ExportReport
<1>2. UNCHANGED <<path, rendered, failed, disk, service, crashes>>
  BY DEF ExportReport
<1>3. PICK format \in ExportFormats \cup {"text", "unknown"}, run \in 0..lastRun :
        IF format \in ExportFormats /\ run \in reports
        THEN /\ wanted' = [wanted EXCEPT ![e] = ReportOf(run, format)]
             /\ Goto(e, "dialog")
             /\ UNCHANGED result
        ELSE Return(e, "error") /\ UNCHANGED wanted
  BY DEF ExportReport
<1>4. CASE format \in ExportFormats /\ run \in reports
  <2>1. ReportOf(run, format) \in Report
    BY <1>1, <1>4, ReportExportAssumption DEF TypeInv, Report, ReportOf
  <2>2. /\ wanted' = [wanted EXCEPT ![e] = ReportOf(run, format)] /\ pc' = [pc EXCEPT ![e] = "dialog"]
        /\ result' = result
    BY <1>3, <1>4 DEF Goto
  <2>3. Alone(e)
    BY <1>1, <1>2, <2>2 DEF Alone, TypeInv, disk, undoable
  <2>4. TypeInv' /\ FilesInv'
    BY <1>1, <1>2, <2>1, <2>2 DEF TypeInv, FilesInv, Places, disk, service, Whole, undoable, Sane
  <2>5. pc'[e] = "dialog" /\ wanted'[e] \in Report
    BY <1>1, <2>1, <2>2 DEF TypeInv
  <2>6. PlaceInv(e)'
    BY <1>1, <1>2, <2>2, <2>5 DEF PlaceInv, Before, disk, undoable
  <2> QED
    BY <2>3, <2>4, <2>6, StepOfExport
<1>5. CASE ~(format \in ExportFormats /\ run \in reports)
  <2>1. pc' = [pc EXCEPT ![e] = "returned"] /\ result' = [result EXCEPT ![e] = "error"] /\ wanted' = wanted
    BY <1>3, <1>5 DEF Return, Goto
  <2>2. Alone(e)
    BY <1>1, <1>2, <2>1 DEF Alone, TypeInv, disk, undoable
  <2>3. TypeInv' /\ FilesInv'
    BY <1>1, <1>2, <2>1 DEF TypeInv, FilesInv, Places, Answers, disk, service, Whole, undoable, Sane
  <2>4. pc'[e] = "returned" /\ result'[e] = "error"
    BY <1>1, <2>1 DEF TypeInv
  <2>5. PlaceInv(e)'
    BY <1>1, <1>2, <2>4 DEF PlaceInv, Before, disk, undoable
  <2> QED
    BY <2>2, <2>3, <2>5, StepOfExport
<1> QED
  BY <1>4, <1>5

\* The dialog names a destination, or ends the export.
LEMMA SelectSaveFileStep ==
  ASSUME Inductive, NEW e \in Export, SelectSaveFile(e)
  PROVE  Inductive' /\ Alone(e)
<1>1. TypeInv /\ FilesInv /\ Before(e) /\ wanted[e] \in Report /\ pc[e] = "dialog" /\ result[e] = "none"
  BY DEF Inductive, PlaceInv, SelectSaveFile
<1>2. UNCHANGED <<wanted, rendered, failed, disk, service, crashes>>
  BY DEF SelectSaveFile
<1>3. ASSUME NEW answer \in {"error", "cancelled"}, Return(e, answer), UNCHANGED path
      PROVE  Inductive' /\ Alone(e)
  <2>1. pc' = [pc EXCEPT ![e] = "returned"] /\ result' = [result EXCEPT ![e] = answer] /\ path' = path
    BY <1>3 DEF Return, Goto
  <2>2. Alone(e)
    BY <1>1, <1>2, <2>1 DEF Alone, TypeInv, disk, undoable
  <2>3. TypeInv' /\ FilesInv'
    BY <1>1, <1>2, <2>1 DEF TypeInv, FilesInv, Places, Answers, disk, service, Whole, undoable, Sane
  <2>4. pc'[e] = "returned" /\ result'[e] \in {"error", "cancelled"}
    BY <1>1, <2>1 DEF TypeInv
  <2>5. PlaceInv(e)'
    BY <1>1, <1>2, <2>4 DEF PlaceInv, Before, disk, undoable
  <2> QED
    BY <2>2, <2>3, <2>5, StepOfExport
<1>4. ASSUME NEW extension \in Path \cup {""},
             path' = [path EXCEPT ![e] = IF extension = "" THEN wanted[e].format ELSE extension],
             Goto(e, "create"), UNCHANGED result
      PROVE  Inductive' /\ Alone(e)
  <2>1. (IF extension = "" THEN wanted[e].format ELSE extension) \in Path
    BY <1>1, <1>4 DEF Report, Path
  <2>2. pc' = [pc EXCEPT ![e] = "create"] /\ result' = result
    BY <1>4 DEF Goto
  <2>3. Alone(e)
    BY <1>1, <1>2, <1>4, <2>2 DEF Alone, TypeInv, disk, undoable
  <2>4. TypeInv' /\ FilesInv'
    BY <1>1, <1>2, <1>4, <2>1, <2>2 DEF TypeInv, FilesInv, Places, disk, service, Whole, undoable, Sane
  <2>5. pc'[e] = "create" /\ path'[e] \in Path
    BY <1>1, <1>4, <2>1, <2>2 DEF TypeInv
  <2>6. PlaceInv(e)'
    BY <1>1, <1>2, <2>2, <2>5 DEF PlaceInv, Before, disk, undoable
  <2> QED
    BY <2>3, <2>4, <2>6, StepOfExport
<1> QED
  BY <1>3, <1>4 DEF SelectSaveFile

\* The temporary file is created empty, and open.
LEMMA CreateTempStep ==
  ASSUME Inductive, NEW e \in Export, CreateTemp(e)
  PROVE  Inductive' /\ Alone(e)
<1>1. /\ TypeInv /\ FilesInv /\ Before(e) /\ wanted[e] \in Report /\ path[e] \in Path
      /\ pc[e] = "create" /\ result[e] = "none"
  BY DEF Inductive, PlaceInv, CreateTemp
<1>2. UNCHANGED <<wanted, path, rendered, failed, files, unremoved, undoable, service, crashes>>
  BY DEF CreateTemp
<1>3. CASE Return(e, "error") /\ UNCHANGED <<temporary, open>>
  <2>1. pc' = [pc EXCEPT ![e] = "returned"] /\ result' = [result EXCEPT ![e] = "error"] /\ UNCHANGED <<temporary, open>>
    BY <1>3 DEF Return, Goto
  <2>2. Alone(e)
    BY <1>1, <1>2, <2>1 DEF Alone, TypeInv, undoable
  <2>3. TypeInv' /\ FilesInv'
    BY <1>1, <1>2, <2>1 DEF TypeInv, FilesInv, Places, Answers, service, Whole, undoable, Sane
  <2>4. pc'[e] = "returned" /\ result'[e] = "error"
    BY <1>1, <2>1 DEF TypeInv
  <2>5. PlaceInv(e)'
    BY <1>1, <1>2, <2>1, <2>4 DEF PlaceInv, Before, undoable
  <2> QED
    BY <2>2, <2>3, <2>5, StepOfExport
<1>4. CASE /\ temporary' = [temporary EXCEPT ![e] = Content(wanted[e], 0, FALSE)]
           /\ open' = open \cup {e}
           /\ Goto(e, wanted[e].format)
           /\ UNCHANGED result
  <2>1. /\ Content(wanted[e], 0, FALSE) \in Contents
        /\ Content(wanted[e], 0, FALSE).report = wanted[e] /\ Content(wanted[e], 0, FALSE).records = 0
    BY <1>1, ReportExportAssumption DEF Content, Contents
  <2>2. wanted[e].format \in {"json", "csv"} /\ pc' = [pc EXCEPT ![e] = wanted[e].format]
    BY <1>1, <1>4 DEF Report, ExportFormats, Goto
  <2>3. Alone(e)
    BY <1>1, <1>2, <1>4, <2>2 DEF Alone, TypeInv, undoable
  <2>4. TypeInv' /\ FilesInv'
    BY <1>1, <1>2, <1>4, <2>1, <2>2 DEF TypeInv, FilesInv, Places, service, Whole, undoable, Sane
  <2>5. pc'[e] \in {"json", "csv"} /\ temporary'[e] = Content(wanted[e], 0, FALSE)
    BY <1>1, <1>4, <2>2 DEF TypeInv
  <2>6. rendered[e] \in 0..Records /\ e \in open'
    BY <1>1, <1>4 DEF TypeInv
  <2>7. During(e)' /\ temporary'[e].records = 0
    BY <1>1, <1>2, <2>1, <2>5, <2>6 DEF During, Before
  <2>8. e \notin failed' /\ result'[e] = "none" /\ 0 <= rendered'[e]
    BY <1>1, <1>2, <1>4, <2>6, ReportExportAssumption DEF Before
  <2>9. PlaceInv(e)'
    BY <2>5, <2>7, <2>8 DEF PlaceInv
  <2> QED
    BY <2>3, <2>4, <2>9, StepOfExport
<1> QED
  BY <1>3, <1>4 DEF CreateTemp

\* The JSON encoder, and the flush of the CSV writer, leave a whole report, or an
\* error.
LEMMA RenderStep ==
  ASSUME Inductive, NEW e \in Export, RenderJSON(e) \/ Flush(e)
  PROVE  Inductive' /\ Alone(e)
<1>1. TypeInv /\ FilesInv /\ During(e) /\ e \notin failed /\ pc[e] \in {"json", "csv"} /\ result[e] = "none"
  BY DEF Inductive, PlaceInv, RenderJSON, Flush
<1>2. Write(e, Records, "sync") /\ UNCHANGED <<wanted, path, rendered, result, open, files, unremoved, undoable, service, crashes>>
  BY DEF RenderJSON, Flush
<1>3. Records \in 0..Records /\ temporary[e].records <= Records /\ "sync" \in Places
  BY <1>1, ReportExportAssumption DEF During, Contents, Places
<1>4. /\ pc' \in [Export -> Places]
      /\ temporary' \in [Export -> Contents \cup {Nothing}]
      /\ failed' \in SUBSET Export
      /\ temporary'[e] \in Contents /\ temporary'[e].report = wanted[e]
      /\ \/ pc'[e] = "sync" /\ temporary'[e].records = Records /\ e \notin failed'
         \/ pc'[e] = "close" /\ e \in failed'
      /\ \A d \in Export \ {e} : /\ pc'[d] = pc[d] /\ temporary'[d] = temporary[d]
                                 /\ d \in failed' <=> d \in failed
  BY <1>1, <1>2, <1>3, Writing
<1>5. Alone(e)
  BY <1>2, <1>4 DEF Alone, undoable
<1>6. TypeInv' /\ FilesInv'
  BY <1>1, <1>2, <1>4 DEF TypeInv, FilesInv, service, Whole, undoable, Sane
<1>7. During(e)'
  BY <1>1, <1>2, <1>4 DEF During
<1>8. PlaceInv(e)'
  BY <1>1, <1>2, <1>4, <1>7 DEF PlaceInv
<1> QED
  BY <1>5, <1>6, <1>8, StepOfExport

\* The CSV writer has taken all the records that are in the file.
LEMMA WriteRecordStep ==
  ASSUME Inductive, NEW e \in Export, WriteRecord(e)
  PROVE  Inductive' /\ Alone(e)
<1>1. /\ TypeInv /\ FilesInv /\ During(e) /\ e \notin failed /\ pc[e] = "csv" /\ result[e] = "none"
      /\ temporary[e].records <= rendered[e]
  BY DEF Inductive, PlaceInv, WriteRecord
<1>2. /\ rendered' = [rendered EXCEPT ![e] = @ + 1] /\ rendered[e] < Records
      /\ UNCHANGED <<wanted, path, result, open, files, unremoved, undoable, service, crashes>>
  BY DEF WriteRecord
<1>3. /\ rendered[e] \in Nat /\ rendered'[e] = rendered[e] + 1 /\ rendered[e] + 1 \in 0..Records
      /\ rendered' \in [Export -> 0..Records]
      /\ \A d \in Export \ {e} : rendered'[d] = rendered[d]
  BY <1>1, <1>2, ReportExportAssumption DEF TypeInv
<1>4. temporary[e].records \in Nat /\ temporary[e] \in Contents
  BY <1>1, ReportExportAssumption DEF During, Contents
<1>5. CASE UNCHANGED <<temporary, pc, failed>>
  <2>1. Alone(e)
    BY <1>2, <1>3, <1>5 DEF Alone, undoable
  <2>2. TypeInv' /\ FilesInv'
    BY <1>1, <1>2, <1>3, <1>5 DEF TypeInv, FilesInv, service, Whole, undoable, Sane
  <2>3. During(e)' /\ temporary'[e].records <= rendered'[e]
    BY <1>1, <1>2, <1>3, <1>4, <1>5 DEF During
  <2>4. PlaceInv(e)'
    BY <1>1, <1>2, <1>5, <2>3 DEF PlaceInv
  <2> QED
    BY <2>1, <2>2, <2>4, StepOfExport
<1>6. ASSUME NEW upTo \in rendered[e]..rendered'[e], Write(e, upTo, "csv")
      PROVE  Inductive' /\ Alone(e)
  <2>1. /\ upTo \in 0..Records /\ temporary[e].records <= upTo /\ upTo <= rendered[e] + 1 /\ "csv" \in Places
    BY <1>1, <1>3, <1>4, <1>6, ReportExportAssumption DEF Places
  <2>2. /\ pc' \in [Export -> Places]
        /\ temporary' \in [Export -> Contents \cup {Nothing}]
        /\ failed' \in SUBSET Export
        /\ temporary'[e] \in Contents /\ temporary'[e].report = wanted[e]
        /\ \/ pc'[e] = "csv" /\ temporary'[e].records = upTo /\ e \notin failed'
           \/ pc'[e] = "close" /\ e \in failed'
        /\ \A d \in Export \ {e} : /\ pc'[d] = pc[d] /\ temporary'[d] = temporary[d]
                                   /\ d \in failed' <=> d \in failed
    BY <1>1, <1>6, <2>1, Writing
  <2>3. Alone(e)
    BY <1>2, <1>3, <2>2 DEF Alone, undoable
  <2>4. TypeInv' /\ FilesInv'
    BY <1>1, <1>2, <1>3, <2>2 DEF TypeInv, FilesInv, service, Whole, undoable, Sane
  <2>5. During(e)'
    BY <1>1, <1>2, <2>2 DEF During
  <2>6. pc'[e] = "csv" => temporary'[e].records <= rendered'[e]
    BY <1>3, <2>1, <2>2
  <2>7. PlaceInv(e)'
    BY <1>1, <1>2, <2>2, <2>5, <2>6 DEF PlaceInv
  <2> QED
    BY <2>3, <2>4, <2>7, StepOfExport
<1> QED
  BY <1>5, <1>6 DEF WriteRecord

\* What is not synced has met an error.
LEMMA SyncStep ==
  ASSUME Inductive, NEW e \in Export, Sync(e)
  PROVE  Inductive' /\ Alone(e)
<1>1. /\ TypeInv /\ FilesInv /\ During(e) /\ e \notin failed /\ pc[e] = "sync" /\ result[e] = "none"
      /\ temporary[e].records = Records
  BY DEF Inductive, PlaceInv, Sync
<1>2. /\ pc' = [pc EXCEPT ![e] = "close"]
      /\ UNCHANGED <<wanted, path, rendered, result, open, files, unremoved, undoable, service, crashes>>
  BY DEF Sync, Goto
<1>3. pc'[e] = "close"
  BY <1>1, <1>2 DEF TypeInv
<1>4. CASE temporary' = [temporary EXCEPT ![e].synced = TRUE] /\ UNCHANGED failed
  <2>1. temporary[e] \in Contents /\ temporary' = [temporary EXCEPT ![e] = [temporary[e] EXCEPT !.synced = TRUE]]
    BY <1>1, <1>4 DEF During
  <2>2. temporary'[e] = [temporary[e] EXCEPT !.synced = TRUE]
    BY <1>1, <2>1 DEF TypeInv
  <2>3. 0 \in 0..Records
    BY ReportExportAssumption
  <2>4. /\ temporary'[e] \in Contents /\ temporary'[e].report = wanted[e]
        /\ temporary'[e].records = Records /\ temporary'[e].synced
    BY <1>1, <2>1, <2>2, <2>3, ContentChanges DEF During
  <2>5. Alone(e)
    BY <1>1, <1>2, <1>4, <2>1 DEF Alone, TypeInv, undoable
  <2>6. TypeInv' /\ FilesInv'
    BY <1>1, <1>2, <1>4, <2>1, <2>2, <2>4 DEF TypeInv, FilesInv, service, Whole, Places, undoable, Sane
  <2>7. During(e)' /\ Whole(temporary[e])'
    BY <1>1, <1>2, <2>4 DEF During, Whole
  <2>8. PlaceInv(e)'
    BY <1>1, <1>2, <1>3, <2>7 DEF PlaceInv
  <2> QED
    BY <2>5, <2>6, <2>8, StepOfExport
<1>5. CASE failed' = failed \cup {e} /\ UNCHANGED temporary
  <2>1. Alone(e)
    BY <1>1, <1>2, <1>5 DEF Alone, TypeInv, undoable
  <2>2. TypeInv' /\ FilesInv'
    BY <1>1, <1>2, <1>5 DEF TypeInv, FilesInv, service, Whole, Places, undoable, Sane
  <2>3. During(e)' /\ e \in failed'
    BY <1>1, <1>2, <1>5 DEF During
  <2>4. PlaceInv(e)'
    BY <1>1, <1>2, <1>3, <2>3 DEF PlaceInv
  <2> QED
    BY <2>1, <2>2, <2>4, StepOfExport
<1> QED
  BY <1>4, <1>5 DEF Sync

\* Only a whole report that has been synced and closed is renamed.
LEMMA CloseStep ==
  ASSUME Inductive, NEW e \in Export, Close(e)
  PROVE  Inductive' /\ Alone(e)
<1>1. /\ TypeInv /\ FilesInv /\ During(e) /\ pc[e] = "close" /\ result[e] = "none"
      /\ e \notin failed => Whole(temporary[e])
  BY DEF Inductive, PlaceInv, Close
<1>2. /\ open' = open \ {e} /\ failed' \in {failed, failed \cup {e}}
      /\ pc' = [pc EXCEPT ![e] = IF e \in failed' THEN "remove" ELSE "rename"]
      /\ UNCHANGED <<wanted, path, rendered, result, temporary, files, unremoved, undoable, service, crashes>>
  BY DEF Close, Goto
<1>3. pc'[e] = IF e \in failed' THEN "remove" ELSE "rename"
  BY <1>1, <1>2 DEF TypeInv
<1>4. Alone(e)
  BY <1>1, <1>2 DEF Alone, TypeInv, undoable
<1>5. TypeInv' /\ FilesInv'
  BY <1>1, <1>2 DEF TypeInv, FilesInv, service, Whole, Places, undoable, Sane
<1>6. /\ e \notin open' /\ e \notin unremoved' /\ path'[e] \in Path /\ temporary'[e].report = wanted'[e]
      /\ e \notin failed' => Whole(temporary[e])'
  BY <1>1, <1>2 DEF During, Whole
<1>7. PlaceInv(e)'
  BY <1>1, <1>2, <1>3, <1>6 DEF PlaceInv
<1> QED
  BY <1>4, <1>5, <1>7, StepOfExport

\* The name of a temporary file goes.
LEMMA Unlinking ==
  ASSUME TypeInv, NEW e \in Export, Unlink(e)
  PROVE  /\ temporary' \in [Export -> Contents \cup {Nothing}] /\ temporary'[e] = Nothing
         /\ unlinked' \in [Export -> Contents \cup {Nothing}]
         /\ \A d \in Export \ {e} : temporary'[d] = temporary[d] /\ unlinked'[d] = unlinked[d]
<1>1. /\ temporary \in [Export -> Contents \cup {Nothing}]
      /\ unlinked \in [Export -> Contents \cup {Nothing}]
  BY DEF TypeInv
<1>2. PICK content : content = IF temporary[e] = Nothing THEN unlinked[e] ELSE temporary[e]
  OBVIOUS
<1>3. content \in Contents \cup {Nothing}
  BY <1>1, <1>2
<1>4. temporary' = [temporary EXCEPT ![e] = Nothing] /\ unlinked' = [unlinked EXCEPT ![e] = content]
  BY <1>1, <1>2 DEF Unlink
<1> QED
  BY <1>1, <1>3, <1>4

\* A destination is replaced by a whole report.
LEMMA RenameStep ==
  ASSUME Inductive, NEW e \in Export, Rename(e)
  PROVE  Inductive' /\ Alone(e)
<1>1. /\ TypeInv /\ FilesInv /\ pc[e] = "rename" /\ result[e] = "none"
      /\ Whole(temporary[e]) /\ path[e] \in Path
      /\ e \notin open /\ e \notin failed /\ e \notin unremoved
  BY DEF Inductive, PlaceInv, Rename
<1>2. /\ pc' = [pc EXCEPT ![e] = "remove"]
      /\ UNCHANGED <<wanted, path, rendered, result, open, unremoved, revived, service, crashes>>
  BY DEF Rename, Goto
<1>3. pc'[e] = "remove"
  BY <1>1, <1>2 DEF TypeInv
<1>4. CASE /\ files' = [files EXCEPT ![path[e]] = temporary[e]]
           /\ earlier' = [earlier EXCEPT ![path[e]] = @ \cup {files[path[e]]}]
           /\ Unlink(e)
           /\ UNCHANGED failed
  <2>1. /\ temporary' \in [Export -> Contents \cup {Nothing}] /\ temporary'[e] = Nothing
        /\ unlinked' \in [Export -> Contents \cup {Nothing}]
        /\ \A d \in Export \ {e} : temporary'[d] = temporary[d] /\ unlinked'[d] = unlinked[d]
    BY <1>1, <1>4, Unlinking
  <2>2. Alone(e)
    BY <1>1, <1>2, <1>4, <2>1 DEF Alone, TypeInv
  <2>3. PICK p, content, replaced : p = path[e] /\ content = temporary[e] /\ replaced = files[p]
    OBVIOUS
  <2>4. /\ p \in Path /\ Sane(content) /\ content \in Contents
        /\ Sane(replaced) /\ replaced \in Contents \cup {Nothing, Other}
    BY <1>1, <2>3 DEF FilesInv, Sane, Whole, TypeInv
  <2>5. /\ files \in [Path -> Contents \cup {Nothing, Other}]
        /\ earlier \in [Path -> SUBSET (Contents \cup {Nothing, Other})]
    BY <1>1 DEF TypeInv
  <2>6. /\ files' = [files EXCEPT ![p] = content]
        /\ earlier' = [earlier EXCEPT ![p] = earlier[p] \cup {replaced}]
    BY <1>4, <2>3
  <2>7. /\ files' \in [Path -> Contents \cup {Nothing, Other}]
        /\ earlier' \in [Path -> SUBSET (Contents \cup {Nothing, Other})]
    BY <2>4, <2>5, <2>6
  <2>8. ASSUME NEW q \in Path, NEW c \in earlier'[q] \cup {files'[q]}
        PROVE  Sane(c)
    <3>1. CASE q = p
      <4>1. c \in earlier[p] \cup {replaced, content}
        BY <2>5, <2>6, <2>8, <3>1
      <4> QED
        BY <1>1, <2>4, <4>1 DEF FilesInv
    <3>2. CASE q # p
      <4>1. c \in earlier[q] \cup {files[q]}
        BY <2>5, <2>6, <2>8, <3>2
      <4> QED
        BY <1>1, <4>1 DEF FilesInv
    <3> QED
      BY <3>1, <3>2
  <2>9. FilesInv'
    BY <2>8 DEF FilesInv, Sane, Whole
  <2>10. TypeInv'
    BY <1>1, <1>2, <1>4, <2>1, <2>7 DEF TypeInv, service, Places
  <2>11. PlaceInv(e)'
    BY <1>1, <1>2, <1>3, <2>1 DEF PlaceInv
  <2> QED
    BY <2>2, <2>9, <2>10, <2>11, StepOfExport
<1>5. CASE failed' = failed \cup {e} /\ UNCHANGED <<files, earlier, temporary, unlinked>>
  <2>1. Alone(e)
    BY <1>1, <1>2, <1>5 DEF Alone, TypeInv
  <2>2. TypeInv' /\ FilesInv'
    BY <1>1, <1>2, <1>5 DEF TypeInv, FilesInv, service, Whole, Places, Sane
  <2>3. PlaceInv(e)'
    BY <1>1, <1>2, <1>3, <1>5 DEF PlaceInv
  <2> QED
    BY <2>1, <2>2, <2>3, StepOfExport
<1> QED
  BY <1>4, <1>5 DEF Rename

\* The temporary file is removed, or the export returns an error.
LEMMA RemoveStep ==
  ASSUME Inductive, NEW e \in Export, Remove(e)
  PROVE  Inductive' /\ Alone(e)
<1>1. TypeInv /\ FilesInv /\ pc[e] = "remove" /\ e \notin open /\ e \notin unremoved
  BY DEF Inductive, PlaceInv, Remove
<1>2. UNCHANGED <<wanted, path, rendered, open, files, earlier, revived, service, crashes>>
  BY DEF Remove
<1>3. CASE /\ Unlink(e)
           /\ Return(e, IF e \in failed THEN "error" ELSE "success")
           /\ UNCHANGED <<unremoved, failed>>
  <2>1. /\ pc' = [pc EXCEPT ![e] = "returned"]
        /\ result' = [result EXCEPT ![e] = IF e \in failed THEN "error" ELSE "success"]
    BY <1>3 DEF Return, Goto
  <2>2. /\ temporary' \in [Export -> Contents \cup {Nothing}] /\ temporary'[e] = Nothing
        /\ unlinked' \in [Export -> Contents \cup {Nothing}]
        /\ \A d \in Export \ {e} : temporary'[d] = temporary[d] /\ unlinked'[d] = unlinked[d]
    BY <1>1, <1>3, Unlinking
  <2>3. Alone(e)
    BY <1>1, <1>2, <1>3, <2>1, <2>2 DEF Alone, TypeInv
  <2>4. TypeInv' /\ FilesInv'
    BY <1>1, <1>2, <1>3, <2>1, <2>2 DEF TypeInv, FilesInv, service, Whole, Places, Answers, Sane
  <2>5. pc'[e] = "returned" /\ result'[e] \in {"error", "success"}
    BY <1>1, <1>3, <2>1 DEF TypeInv
  <2>6. PlaceInv(e)'
    BY <1>1, <1>2, <1>3, <2>2, <2>5 DEF PlaceInv
  <2> QED
    BY <2>3, <2>4, <2>6, StepOfExport
<1>4. CASE /\ unremoved' = unremoved \cup {e}
           /\ failed' = failed \cup {e}
           /\ Return(e, "error")
           /\ UNCHANGED <<temporary, unlinked>>
  <2>1. pc' = [pc EXCEPT ![e] = "returned"] /\ result' = [result EXCEPT ![e] = "error"]
    BY <1>4 DEF Return, Goto
  <2>2. Alone(e)
    BY <1>1, <1>2, <1>4, <2>1 DEF Alone, TypeInv
  <2>3. TypeInv' /\ FilesInv'
    BY <1>1, <1>2, <1>4, <2>1 DEF TypeInv, FilesInv, service, Whole, Places, Answers, Sane
  <2>4. pc'[e] = "returned" /\ result'[e] = "error" /\ e \in unremoved'
    BY <1>1, <1>4, <2>1 DEF TypeInv
  <2>5. PlaceInv(e)'
    BY <1>1, <1>2, <2>4 DEF PlaceInv
  <2> QED
    BY <2>2, <2>3, <2>5, StepOfExport
<1> QED
  BY <1>3, <1>4 DEF Remove

\* A crash shortens only what has not been synced.
LEMMA Durable ==
  ASSUME NEW content \in Contents \cup {Nothing, Other}
  PROVE  /\ durable(content) \in Contents \cup {Nothing, Other}
         /\ content \in {Nothing, Other} => durable(content) = content
         /\ content \in Contents => durable(content) \in Contents
         /\ Whole(content) => durable(content) = content
<1>1. 0 \in 0..Records
  BY ReportExportAssumption
<1>2. CASE content \in {Nothing, Other}
  BY <1>2, NothingIsNoContent DEF durable, Whole
<1>3. CASE content \in Contents
  <2>1. [content EXCEPT !.records = 0] \in Contents
    BY <1>1, <1>3, ContentChanges
  <2> QED
    BY <1>3, <2>1, NothingIsNoContent DEF durable, Whole
<1> QED
  BY <1>2, <1>3

\* What a crash finds at a destination was there, and is sane.
LEMMA FoundIsSane ==
  ASSUME Inductive, NEW p \in Path
  PROVE  /\ found(p) = earlier[p] \cup {files[p]}
         /\ \A content \in found(p) : content \in Contents \cup {Nothing, Other} /\ Sane(content)
<1>1. ASSUME NEW content \in earlier[p] \cup {files[p]}
      PROVE  content \in Contents \cup {Nothing, Other} /\ Sane(content) /\ durable(content) = content
  <2>1. content \in Contents \cup {Nothing, Other} /\ Sane(content)
    BY <1>1 DEF Inductive, TypeInv, FilesInv
  <2> QED
    BY <2>1, Durable DEF Sane
<1>2. found(p) = earlier[p] \cup {files[p]}
  BY <1>1 DEF found
<1> QED
  BY <1>1, <1>2

\* A crash loses the exports under way and leaves every destination whole, or as it
\* was at some time before.
LEMMA CrashStep ==
  ASSUME Inductive, Crash
  PROVE  Inductive'
<1>1. TypeInv /\ FilesInv /\ \A e \in Export : PlaceInv(e)
  BY DEF Inductive
<1>2. /\ crashes' \in 0..MaxCrashes
      /\ pc' = [e \in Export |-> IF Called(e) THEN "lost" ELSE pc[e]]
      /\ reports' = {} /\ open' = {}
      /\ UNCHANGED <<wanted, path, rendered, failed, result, unremoved, lastRun>>
  BY <1>1, ReportExportAssumption DEF Crash, TypeInv
<1>3. /\ files' \in [Path -> Contents \cup {Nothing, Other}]
      /\ earlier' \in [Path -> SUBSET (Contents \cup {Nothing, Other})]
      /\ temporary' \in [Export -> Contents \cup {Nothing}]
      /\ unlinked' \in [Export -> Contents \cup {Nothing}]
      /\ revived' \in SUBSET Export
      /\ FilesInv'
      /\ \A e \in Export :
           /\ (unlinked[e] = Nothing) => (unlinked'[e] = Nothing)
           /\ (temporary[e] = Nothing /\ unlinked[e] = Nothing) => (temporary'[e] = Nothing)
           /\ (temporary'[e] # Nothing) => (temporary[e] # Nothing \/ e \in revived')
           /\ (e \in revived) => (e \in revived')
  <2>1. CASE UNCHANGED <<files, temporary, undoable>>
    BY <1>1, <2>1 DEF TypeInv, FilesInv, undoable, Sane, Whole
  <2>2. CASE /\ files' \in [Path -> UNION {found(p) : p \in Path}]
             /\ \A p \in Path : files'[p] \in found(p)
             /\ temporary' \in [Export -> UNION {left(e) : e \in Export}]
             /\ \A e \in Export : temporary'[e] \in left(e)
             /\ earlier' = [p \in Path |-> {}]
             /\ unlinked' = [e \in Export |-> Nothing]
             /\ revived' = revived \cup {e \in Export : temporary[e] = Nothing /\ temporary'[e] # Nothing}
    <3>1. \A p \in Path : files'[p] \in Contents \cup {Nothing, Other} /\ Sane(files'[p])
      BY <2>2, FoundIsSane
    <3>2. files' \in [Path -> Contents \cup {Nothing, Other}]
      BY <2>2, <3>1
    <3>3. FilesInv'
      BY <2>2, <3>1 DEF FilesInv, Sane, Whole
    <3>4. ASSUME NEW e \in Export
          PROVE  /\ temporary'[e] \in Contents \cup {Nothing}
                 /\ temporary[e] = Nothing /\ unlinked[e] = Nothing => temporary'[e] = Nothing
      <4>1. temporary[e] \in Contents \cup {Nothing} /\ unlinked[e] \in Contents \cup {Nothing}
        BY <1>1 DEF TypeInv
      <4>2. PICK kept, removed : kept = durable(temporary[e]) /\ removed = durable(unlinked[e])
        OBVIOUS
      <4>3. /\ kept \in Contents \cup {Nothing} /\ removed \in Contents \cup {Nothing}
            /\ temporary[e] = Nothing => kept = Nothing
            /\ unlinked[e] = Nothing => removed = Nothing
        BY <4>1, <4>2, Durable
      <4>4. temporary'[e] \in {Nothing, kept, removed}
        BY <2>2, <4>2 DEF left
      <4> QED
        BY <4>3, <4>4
    <3>5. temporary' \in [Export -> Contents \cup {Nothing}]
      BY <2>2, <3>4
    <3>6. /\ earlier' \in [Path -> SUBSET (Contents \cup {Nothing, Other})]
          /\ unlinked' \in [Export -> Contents \cup {Nothing}]
          /\ revived' \in SUBSET Export
      BY <1>1, <2>2 DEF TypeInv
    <3> QED
      BY <2>2, <3>2, <3>3, <3>4, <3>5, <3>6
  <2> QED
    BY <2>1, <2>2 DEF Crash
<1>4. TypeInv' /\ FilesInv'
  <2>1. pc' \in [Export -> Places]
    BY <1>1, <1>2 DEF TypeInv, Places
  <2> QED
    BY <1>1, <1>2, <1>3, <2>1 DEF TypeInv
<1>5. ASSUME NEW e \in Export
      PROVE  PlaceInv(e)'
  <2>1. CASE Called(e)
    <3>1. pc'[e] = "lost" /\ result'[e] = "none"
      BY <1>1, <1>2, <2>1 DEF Called, PlaceInv
    <3> QED
      BY <3>1 DEF PlaceInv
  <2>2. CASE ~Called(e)
    <3>1. pc'[e] = pc[e] /\ pc[e] \in {"uncalled", "returned", "lost"}
      BY <1>2, <2>2 DEF Called
    <3> QED
      BY <1>1, <1>2, <1>3, <3>1 DEF PlaceInv, Before
  <2> QED
    BY <2>1, <2>2
<1> QED
  BY <1>4, <1>5 DEF Inductive

\* The exports have not begun.
LEMMA InductiveInit == Init => Inductive
<1> SUFFICES ASSUME Init PROVE Inductive
  OBVIOUS
<1>1. TypeInv
  BY ReportExportAssumption DEF Init, TypeInv, Places, Answers
<1>2. FilesInv
  BY DEF Init, FilesInv, Sane
<1>3. ASSUME NEW e \in Export
      PROVE  PlaceInv(e)
  BY DEF Init, PlaceInv, Before
<1> QED
  BY <1>1, <1>2, <1>3 DEF Inductive

\* No step leaves the invariant.
LEMMA InductiveStep == Inductive /\ [Next]_vars => Inductive'
<1> SUFFICES ASSUME Inductive, [Next]_vars PROVE Inductive'
  OBVIOUS
<1>1. CASE CompleteRun
  <2>1. /\ lastRun' \in 0..MaxRuns /\ reports' \subseteq 1..lastRun'
        /\ UNCHANGED <<exports, disk, crashes>>
    BY <1>1, ReportExportAssumption DEF CompleteRun, Inductive, TypeInv
  <2>2. TypeInv' /\ FilesInv'
    BY <2>1 DEF Inductive, TypeInv, FilesInv, exports, disk, Whole, undoable, Sane
  <2>3. ASSUME NEW e \in Export
        PROVE  PlaceInv(e)'
    BY <2>1 DEF Inductive, PlaceInv, Before, During, Whole, exports, disk, undoable
  <2> QED
    BY <2>2, <2>3 DEF Inductive
<1>2. CASE UNCHANGED vars
  <2>1. TypeInv' /\ FilesInv'
    BY <1>2 DEF Inductive, TypeInv, FilesInv, vars, exports, disk, service, Whole, undoable, Sane
  <2>2. ASSUME NEW e \in Export
        PROVE  PlaceInv(e)'
    BY <1>2 DEF Inductive, PlaceInv, Before, During, Whole, vars, exports, disk, undoable
  <2> QED
    BY <2>1, <2>2 DEF Inductive
<1>3. ASSUME NEW e \in Export, Call(e)
      PROVE  Inductive'
  BY <1>3, ExportReportStep, SelectSaveFileStep, CreateTempStep, RenderStep, WriteRecordStep,
     SyncStep, CloseStep, RenameStep, RemoveStep DEF Call
<1> QED
  BY <1>1, <1>2, <1>3, CrashStep DEF Next, Over

\* The exports never leave the states of the inductive invariant.
THEOREM InductiveInvariant == Spec => []Inductive
BY InductiveInit, InductiveStep, PTL DEF Spec

\* An export that has returned leaves no temporary file behind, nor an open one,
\* unless it says so or the machine, when it stops, brings the file back.
THEOREM TemporariesRemoved == Spec => []TemporariesAreRemoved
<1>1. Inductive => TemporariesAreRemoved
  BY DEF Inductive, PlaceInv, TemporariesAreRemoved
<1> QED
  BY <1>1, InductiveInvariant, PTL

-----------------------------------------------------------------------------
(* Refinement: what the exports show of the files is ReportFiles *)

\* What a user sees of an export, by its place.
LEMMA OutcomeOf ==
  ASSUME NEW e \in Export
  PROVE  /\ pc[e] = "returned" => outcomes[e] = result[e]
         /\ pc[e] = "lost" => outcomes[e] = "lost"
         /\ pc[e] = "remove" /\ e \notin failed => outcomes[e] = "placed"
         /\ pc[e] = "remove" /\ e \in failed => outcomes[e] = "pending"
         /\ pc[e] \notin {"returned", "lost", "remove"} => outcomes[e] = "pending"
BY DEF outcomes

\* A step of one export changes what the user sees of that export alone.
LEMMA OutcomesChange ==
  ASSUME NEW e \in Export, Alone(e)
  PROVE  outcomes' = [outcomes EXCEPT ![e] = outcomes'[e]]
<1>1. \A d \in Export \ {e} : outcomes'[d] = outcomes[d]
  BY DEF Alone, outcomes
<1>2. outcomes = [d \in Export |-> outcomes[d]] /\ outcomes' = [d \in Export |-> outcomes'[d]]
  BY DEF outcomes
<1> QED
  BY <1>1, <1>2

\* A step that the user does not see.
LEMMA Unseen ==
  ASSUME NEW e \in Export, Alone(e), files' = files, earlier' = earlier, wanted' = wanted, outcomes'[e] = outcomes[e]
  PROVE  UNCHANGED ReportFiles!vars
<1>1. outcomes' = outcomes
  <2>1. outcomes = [d \in Export |-> outcomes[d]]
    BY DEF outcomes
  <2> QED
    BY <2>1, OutcomesChange
<1> QED
  BY <1>1 DEF ReportFiles!vars, savedFiles, savedEarlier

\* The end of an export, as the user sees it.
LEMMA Ended ==
  ASSUME NEW e \in Export, Alone(e), files' = files, earlier' = earlier, wanted' = wanted,
         \/ outcomes[e] = "placed" /\ outcomes'[e] = "success"
         \/ outcomes[e] \in {"pending", "placed"} /\ outcomes'[e] = "error"
         \/ outcomes[e] = "pending" /\ outcomes'[e] = "cancelled"
  PROVE  ReportFiles!Next
<1>1. savedFiles' = savedFiles /\ savedEarlier' = savedEarlier
  BY DEF savedFiles, savedEarlier
<1>2. ReportFiles!End(e)
  BY <1>1, OutcomesChange DEF ReportFiles!End
<1> QED
  BY <1>2 DEF ReportFiles!Next

\* The steps of a call that end it or cannot be seen.
LEMMA QuietSteps ==
  ASSUME Inductive, NEW e \in Export, Alone(e), wanted' = wanted, files' = files,
         earlier' = earlier, e \in failed => e \in failed',
         \/ pc[e] \notin {"returned", "lost", "remove"} /\ pc'[e] \notin {"returned", "lost", "remove"}
         \/ pc[e] \notin {"returned", "lost", "remove"} /\ pc'[e] = "remove" /\ e \in failed'
         \/ pc[e] \notin {"returned", "lost", "remove"} /\ pc'[e] = "returned" /\ result'[e] \in {"error", "cancelled"}
         \/ pc[e] = "remove" /\ pc'[e] = "returned" /\ result'[e] = "error"
         \/ pc[e] = "remove" /\ pc'[e] = "returned" /\ e \notin failed /\ result'[e] = "success"
  PROVE  [ReportFiles!Next]_ReportFiles!vars
<1>1. /\ pc'[e] = "returned" => outcomes'[e] = result'[e]
      /\ pc'[e] = "remove" /\ e \in failed' => outcomes'[e] = "pending"
      /\ pc'[e] \notin {"returned", "lost", "remove"} => outcomes'[e] = "pending"
  BY DEF outcomes
<1>2. \/ outcomes[e] = "placed" /\ outcomes'[e] = "success"
      \/ outcomes[e] \in {"pending", "placed"} /\ outcomes'[e] = "error"
      \/ outcomes[e] = "pending" /\ outcomes'[e] = "cancelled"
      \/ outcomes'[e] = outcomes[e]
  BY <1>1, OutcomeOf
<1> QED
  BY <1>2, Ended, Unseen

\* Every step of an export is a step of the files that the user sees, or is not
\* seen.
LEMMA CallImplements ==
  ASSUME Inductive, NEW e \in Export, Call(e)
  PROVE  [ReportFiles!Next]_ReportFiles!vars
<1>1. /\ pc \in [Export -> Places] /\ result \in [Export -> Answers] /\ wanted \in [Export -> Report \cup {Nothing}]
      /\ failed \in SUBSET Export /\ files \in [Path -> Contents \cup {Nothing, Other}]
      /\ temporary \in [Export -> Contents \cup {Nothing}] /\ TypeInv
  BY DEF Inductive, TypeInv
<1>2. Alone(e)
  BY ExportReportStep, SelectSaveFileStep, CreateTempStep, RenderStep, WriteRecordStep,
     SyncStep, CloseStep, RenameStep, RemoveStep DEF Call
<1>3. CASE ExportReport(e)
  <2>1. pc[e] = "uncalled" /\ wanted[e] = Nothing /\ files' = files /\ earlier' = earlier /\ failed' = failed
    BY <1>3 DEF Inductive, PlaceInv, ExportReport, disk, undoable
  <2>2. PICK format \in ExportFormats \cup {"text", "unknown"}, run \in 0..lastRun :
          IF format \in ExportFormats /\ run \in reports
          THEN /\ wanted' = [wanted EXCEPT ![e] = ReportOf(run, format)]
               /\ Goto(e, "dialog")
               /\ UNCHANGED result
          ELSE Return(e, "error") /\ UNCHANGED wanted
    BY <1>3 DEF ExportReport
  <2>3. CASE format \in ExportFormats /\ run \in reports
    <3>1. ReportOf(run, format) \in Report
      BY <1>1, <2>3, ReportExportAssumption DEF TypeInv, Report, ReportOf
    <3>2. pc'[e] = "dialog" /\ wanted' = [wanted EXCEPT ![e] = ReportOf(run, format)]
      BY <1>1, <2>2, <2>3 DEF Goto
    <3>3. outcomes[e] = "pending" /\ outcomes'[e] = "pending"
      BY <2>1, <3>2, OutcomeOf DEF outcomes
    <3>4. outcomes' = outcomes
      <4>1. outcomes = [d \in Export |-> outcomes[d]]
        BY DEF outcomes
      <4> QED
        BY <1>2, <3>3, <4>1, OutcomesChange
    <3>5. ReportFiles!Want(e)
      BY <2>1, <3>1, <3>2, <3>3, <3>4 DEF ReportFiles!Want, savedFiles, savedEarlier
    <3> QED
      BY <3>5 DEF ReportFiles!Next
  <2>4. CASE ~(format \in ExportFormats /\ run \in reports)
    <3>1. pc'[e] = "returned" /\ result'[e] = "error" /\ wanted' = wanted
      BY <1>1, <2>2, <2>4 DEF Return, Goto
    <3> QED
      BY <1>2, <2>1, <3>1, QuietSteps
  <2> QED
    BY <2>3, <2>4
<1>4. CASE SelectSaveFile(e) \/ CreateTemp(e)
  <2>1. /\ pc[e] \in {"dialog", "create"} /\ wanted' = wanted /\ files' = files /\ earlier' = earlier /\ failed' = failed
        /\ \/ pc'[e] \in {"create", "json", "csv"}
           \/ pc'[e] = "returned" /\ result'[e] \in {"error", "cancelled"}
    <3>1. pc[e] = "create" => wanted[e].format \in {"json", "csv"}
      BY DEF Inductive, PlaceInv, Report, ExportFormats
    <3>2. CASE SelectSaveFile(e)
      BY <1>1, <3>2 DEF SelectSaveFile, Return, Goto, disk, undoable
    <3>3. CASE CreateTemp(e)
      BY <1>1, <3>1, <3>3 DEF CreateTemp, Return, Goto, undoable
    <3> QED
      BY <1>4, <3>2, <3>3
  <2> QED
    BY <1>2, <2>1, QuietSteps
<1>5. CASE RenderJSON(e) \/ WriteRecord(e) \/ Flush(e) \/ Sync(e) \/ Close(e)
  <2>1. /\ pc[e] \in {"json", "csv", "sync", "close"} /\ wanted' = wanted /\ files' = files /\ earlier' = earlier
        /\ e \in failed => e \in failed'
        /\ pc'[e] \in {"csv", "sync", "close", "rename"} \/ (pc'[e] = "remove" /\ e \in failed')
    BY <1>1, <1>5 DEF RenderJSON, WriteRecord, Flush, Sync, Close, Write, Goto, undoable
  <2> QED
    BY <1>2, <2>1, QuietSteps
<1>6. CASE Rename(e)
  <2>1. /\ pc[e] = "rename" /\ pc'[e] = "remove" /\ wanted' = wanted
        /\ Whole(temporary[e]) /\ temporary[e].report = wanted[e] /\ path[e] \in Path /\ e \notin failed
    BY <1>1, <1>6 DEF Inductive, PlaceInv, Rename, Goto
  <2>2. CASE /\ files' = [files EXCEPT ![path[e]] = temporary[e]]
             /\ earlier' = [earlier EXCEPT ![path[e]] = @ \cup {files[path[e]]}]
             /\ UNCHANGED failed
    <3>1. outcomes[e] = "pending" /\ outcomes'[e] = "placed"
      BY <2>1, <2>2, OutcomeOf DEF outcomes
    <3>2. saved(temporary[e]) = wanted[e] /\ wanted[e] \in Report
      BY <2>1, NothingIsNoContent DEF saved, Whole, Contents
    <3>3. savedFiles' = [savedFiles EXCEPT ![path[e]] = wanted[e]]
      BY <1>1, <2>1, <2>2, <3>2 DEF savedFiles
    <3>4. savedEarlier' = [savedEarlier EXCEPT ![path[e]] = @ \cup {savedFiles[path[e]]}]
      <4>1. PICK p : p = path[e] /\ p \in Path
        BY <2>1
      <4>2. earlier' = [earlier EXCEPT ![p] = earlier[p] \cup {files[p]}]
        BY <2>2, <4>1
      <4>3. ASSUME NEW q \in Path
            PROVE  savedEarlier'[q] = IF q = p THEN savedEarlier[p] \cup {savedFiles[p]}
                                      ELSE savedEarlier[q]
        <5>1. earlier'[q] = IF q = p THEN earlier[p] \cup {files[p]} ELSE earlier[q]
          BY <1>1, <4>2 DEF TypeInv
        <5>2. savedEarlier'[q] = {saved(content) : content \in earlier'[q]}
          BY DEF savedEarlier, saved
        <5>3. /\ savedEarlier[q] = {saved(content) : content \in earlier[q]}
              /\ savedEarlier[p] = {saved(content) : content \in earlier[p]}
              /\ savedFiles[p] = saved(files[p])
          BY <4>1 DEF savedEarlier, savedFiles
        <5>4. CASE q = p
          BY <5>1, <5>2, <5>3, <5>4
        <5>5. CASE q # p
          BY <5>1, <5>2, <5>3, <5>5
        <5> QED
          BY <5>4, <5>5
      <4>4. /\ savedEarlier' = [q \in Path |-> savedEarlier'[q]]
            /\ savedEarlier = [q \in Path |-> savedEarlier[q]]
        BY DEF savedEarlier
      <4> QED
        BY <4>1, <4>3, <4>4
    <3>5. ReportFiles!Place(e)
      BY <1>2, <2>1, <3>1, <3>2, <3>3, <3>4, OutcomesChange, NothingIsNoContent DEF ReportFiles!Place
    <3> QED
      BY <3>5 DEF ReportFiles!Next
  <2>3. CASE failed' = failed \cup {e} /\ UNCHANGED <<files, earlier>>
    BY <1>2, <2>1, <2>3, QuietSteps
  <2> QED
    BY <1>6, <2>2, <2>3 DEF Rename
<1>7. CASE Remove(e)
  <2>1. /\ pc[e] = "remove" /\ wanted' = wanted /\ files' = files /\ earlier' = earlier /\ (e \in failed => e \in failed')
        /\ pc'[e] = "returned"
        /\ result'[e] = "error" \/ (e \notin failed /\ result'[e] = "success")
    BY <1>1, <1>7 DEF Remove, Return, Goto
  <2> QED
    BY <1>2, <2>1, QuietSteps
<1> QED
  BY <1>3, <1>4, <1>5, <1>6, <1>7 DEF Call

\* A crash loses exports, and finds destinations as they were.
LEMMA CrashImplements ==
  ASSUME Inductive, Crash
  PROVE  ReportFiles!Next
<1>1. TypeInv /\ FilesInv /\ Inductive'
  BY CrashStep DEF Inductive
<1>2. /\ pc' = [e \in Export |-> IF Called(e) THEN "lost" ELSE pc[e]]
      /\ UNCHANGED <<wanted, failed, result>>
  BY DEF Crash
<1>3. \/ UNCHANGED <<savedFiles, savedEarlier>>
      \/ /\ savedFiles' \in [Path -> Report \cup {Nothing, Other}]
         /\ \A p \in Path : savedFiles'[p] \in {savedFiles[p]} \cup savedEarlier[p]
         /\ savedEarlier' = [p \in Path |-> {}]
  <2>1. CASE UNCHANGED <<files, undoable>>
    BY <2>1 DEF savedFiles, savedEarlier, undoable
  <2>2. CASE (\A p \in Path : files'[p] \in found(p)) /\ earlier' = [p \in Path |-> {}]
    <3>1. ASSUME NEW p \in Path
          PROVE  /\ saved(files'[p]) \in Report \cup {Nothing, Other}
                 /\ saved(files'[p]) \in {savedFiles[p]} \cup savedEarlier[p]
      <4>1. PICK content : content = files'[p]
        OBVIOUS
      <4>2. content \in earlier[p] \cup {files[p]} /\ Sane(content)
        BY <2>2, <4>1, FoundIsSane
      <4>3. saved(content) \in Report \cup {Nothing, Other}
        BY <4>2 DEF Sane, Whole, saved, Contents
      <4>4. /\ savedEarlier[p] = {saved(c) : c \in earlier[p]}
            /\ savedFiles[p] = saved(files[p])
        BY DEF savedEarlier, savedFiles
      <4>5. saved(content) \in {savedFiles[p]} \cup savedEarlier[p]
        BY <4>2, <4>4
      <4> QED
        BY <4>1, <4>3, <4>5
    <3>2. savedFiles' = [p \in Path |-> saved(files'[p])]
      BY DEF savedFiles, saved
    <3>3. savedEarlier' = [p \in Path |-> {}]
      BY <2>2 DEF savedEarlier
    <3> QED
      BY <3>1, <3>2, <3>3
  <2> QED
    BY <2>1, <2>2 DEF Crash
<1> DEFINE lost == {e \in Export : Called(e)}
<1>4. ASSUME NEW e \in Export
      PROVE  /\ e \in lost => outcomes[e] \in {"pending", "placed"}
             /\ outcomes'[e] = IF e \in lost THEN "lost" ELSE outcomes[e]
  <2>1. CASE Called(e)
    BY <1>2, <2>1, OutcomeOf DEF Called, outcomes
  <2>2. CASE ~Called(e)
    BY <1>2, <2>2 DEF Called, outcomes
  <2> QED
    BY <2>1, <2>2
<1>5. outcomes' = [e \in Export |-> IF e \in lost THEN "lost" ELSE outcomes[e]]
  <2>1. outcomes' = [e \in Export |-> outcomes'[e]]
    BY DEF outcomes
  <2> QED
    BY <1>4, <2>1
<1>6. lost \in SUBSET {e \in Export : outcomes[e] \in {"pending", "placed"}}
  BY <1>4
<1> HIDE DEF lost
<1>7. ReportFiles!Crash
  BY <1>2, <1>3, <1>5, <1>6 DEF ReportFiles!Crash
<1> QED
  BY <1>7 DEF ReportFiles!Next

\* The exports replace files only by the whole report that was asked for, and
\* before they succeed, whatever fails, overlaps, or stops.  Only a machine that
\* stops can take a report back, as writeReport does not sync the directory after
\* os.Rename: a destination then has again a content it had before, never another.
THEOREM ExportImplementsReportFiles == Spec => ImplementsReportFiles
<1>1. Init => ReportFiles!Init
  <2> SUFFICES ASSUME Init PROVE ReportFiles!Init
    OBVIOUS
  <2>1. savedFiles \in [Path -> {Nothing, Other}] /\ savedEarlier = [p \in Path |-> {}]
    BY DEF Init, savedFiles, savedEarlier, saved
  <2>2. outcomes = [e \in Export |-> "pending"]
    BY DEF Init, outcomes
  <2> QED
    BY <2>1, <2>2 DEF Init, ReportFiles!Init
<1>2. Inductive /\ [Next]_vars => [ReportFiles!Next]_ReportFiles!vars
  <2> SUFFICES ASSUME Inductive, [Next]_vars PROVE [ReportFiles!Next]_ReportFiles!vars
    OBVIOUS
  <2>1. CASE CompleteRun \/ UNCHANGED vars
    <3>1. UNCHANGED <<files, earlier, wanted, pc, result, failed>>
      BY <2>1 DEF CompleteRun, vars, exports, disk, undoable
    <3> QED
      BY <3>1 DEF ReportFiles!vars, savedFiles, savedEarlier, outcomes
  <2>2. CASE \E e \in Export : Call(e)
    BY <2>2, CallImplements
  <2> QED
    BY <2>1, <2>2, CrashImplements DEF Next, Over
<1> QED
  BY <1>1, <1>2, InductiveInvariant, PTL DEF Spec, ImplementsReportFiles, ReportFiles!Spec
=============================================================================
