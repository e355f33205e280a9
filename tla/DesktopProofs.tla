---------------------------- MODULE DesktopProofs ----------------------------
(***************************************************************************)
(* What the page of the desktop application shows, for any number of calls *)
(* and runs, when the user waits for the event that retires an ended run   *)
(* (~Hasty).  The page learns of its run from two sides, which overtake    *)
(* each other; what keeps it right is that every run but the one it asked  *)
(* for last is over and retired, so that nothing it receives of them is    *)
(* accepted.                                                               *)
(***************************************************************************)
EXTENDS Desktop, ServiceProofs

-----------------------------------------------------------------------------
(* The inductive invariant *)

\* The event that comes before the one of this name.
Announced(name) ==
  CASE name = "Completed" -> "completed"
    [] name = "Failed" -> "failed"
    [] name = "Cancelled" -> "cancelled"
    [] name = "idle" -> "Cancelled"

Ends == {"Completed", "Failed", "Cancelled"}

\* The service emits the end of a run in this order.
EventOrder ==
  \A i \in DOMAIN events : events[i].name \in Ends \cup {"idle"} =>
    i > 1 /\ events[i - 1] = Event(events[i].run, Announced(events[i].name))

\* Every run belongs to a call, which returns it.
CallsInv ==
  /\ \A r \in RunIDs : \E s \in Starts : runID[s] = r
  /\ active # Inactive => \E s \in Starts : Owns(s)
  /\ \A s \in Starts : pc[s] = "returned" /\ HasBegun(s) => result[s].run = runID[s]
  /\ \A c \in Cancels : pc[c] = "returned" /\ ~result[c].error => result[c].state = "cancelling"

Current(c) == calls # << >> /\ c = Last(calls)
Retired(c) == pc[c] = "returned" /\ HasBegun(c) /\ runID[c] \in ui.retired

\* The form has made every call, and all but the current one are over and done
\* with.  The page accepts events exactly while it waits for the current one.
FormInv ==
  /\ calls \in Seq(Starts)
  /\ \A c \in Starts : pc[c] # "uncalled" => c \in Called /\ HasBegun(c)
  /\ \A c \in Called : Current(c) \/ Retired(c)
  /\ \A c \in Called : Current(c) /\ HasBegun(c) => runID[c] = nextRunID
  /\ ui.accepting => calls # << >> /\ RequestedRun \notin ui.retired
  /\ ~ui.accepting => \A c \in Called : Retired(c)
  /\ asked \in [Cancels -> RunIDs \cup {NoRun}]
  /\ \A c \in Cancels : pc[c] # "uncalled" => asked[c] # NoRun

\* The page knows no run but the one it asked for, and no report of another.
PageInv ==
  /\ ui.run \in {NoRun, RequestedRun}
  /\ ui.report \in {NoRun, ui.run}
  /\ ui.report # NoRun => ui.report \in reports
  /\ ui.run # NoRun /\ ui.status \in Outcomes => Shown(ui.run, ui.status)
  /\ ui.accepting =>
       /\ ui.report = NoRun /\ ~ui.confirmation /\ checking = 0
       /\ ui.status # "idle" /\ (ui.status \in Outcomes => ui.run # NoRun)
  /\ checking > 0 => checking = 1 /\ ~ui.accepting /\ ui.status = "validating" /\ ui.run = NoRun

\* A run whose end has been delivered is retired.
DeliveryInv ==
  \A i \in 1..delivered : events[i].name \in Ends => events[i].run \in ui.retired

ServiceInv == SafetyInv /\ LogInv /\ EventOrder /\ CallsInv
Inv == ServiceInv /\ DesktopTypeOK /\ FormInv /\ PageInv /\ DeliveryInv

-----------------------------------------------------------------------------
(* The service *)

\* An end that a call is about to emit follows the event it belongs to.
LEMMA EndFollows ==
  ASSUME LogInv, NEW c \in Call, pending[c] # << >>, pending[c][1].name \in Ends \cup {"idle"}
  PROVE  /\ pending[c][1].run = nextRunID /\ lastEvent.run = nextRunID
         /\ lastEvent.name = Announced(pending[c][1].name)
         /\ lastEvent.name \in {"cancelled", "Cancelled", "failed", "completed"}
<1> DEFINE First(name) == pending[c][1].run = nextRunID /\ pending[c][1].name = name
<1>1. Ending(c)
  <2>1. ASSUME NEW name \in {"validating", "running", "Progress", "cancelling"}, Pends(c, <<name>>)
        PROVE  FALSE
    <3>1. Len(pending[c]) = 1 /\ pending[c][1] = Event(nextRunID, name)
      BY <2>1 DEF Pends
    <3>2. pending[c][1].name = name
      BY <3>1 DEF Event
    <3> QED
      BY <2>1, <3>2 DEF Ends
  <2>2. ~Changing(c)
    BY <2>1 DEF Changing
  <2> QED
    BY <2>2 DEF LogInv
<1>2. ASSUME \/ Pends(c, <<"cancelled", "Cancelled", "idle">>) \/ Pends(c, <<"failed", "Failed">>)
             \/ Pends(c, <<"completed", "Completed">>) \/ Pends(c, <<"awaiting-confirmation">>)
      PROVE  FALSE
  <2>1. CASE Pends(c, <<"cancelled", "Cancelled", "idle">>)
    <3>1. First("cancelled")
      <4>1. Len(pending[c]) = 3 /\ pending[c][1] = Event(nextRunID, "cancelled") /\ pending[c][2] = Event(nextRunID, "Cancelled") /\ pending[c][3] = Event(nextRunID, "idle")
        BY <2>1 DEF Pends
      <4> QED
        BY <4>1 DEF Event
    <3> QED
      BY <3>1 DEF Ends
  <2>2. CASE Pends(c, <<"failed", "Failed">>)
    <3>1. First("failed")
      <4>1. Len(pending[c]) = 2 /\ pending[c][1] = Event(nextRunID, "failed") /\ pending[c][2] = Event(nextRunID, "Failed")
        BY <2>2 DEF Pends
      <4> QED
        BY <4>1 DEF Event
    <3> QED
      BY <3>1 DEF Ends
  <2>3. CASE Pends(c, <<"completed", "Completed">>)
    <3>1. First("completed")
      <4>1. Len(pending[c]) = 2 /\ pending[c][1] = Event(nextRunID, "completed") /\ pending[c][2] = Event(nextRunID, "Completed")
        BY <2>3 DEF Pends
      <4> QED
        BY <4>1 DEF Event
    <3> QED
      BY <3>1 DEF Ends
  <2>4. CASE Pends(c, <<"awaiting-confirmation">>)
    <3>1. First("awaiting-confirmation")
      <4>1. Len(pending[c]) = 1 /\ pending[c][1] = Event(nextRunID, "awaiting-confirmation")
        BY <2>4 DEF Pends
      <4> QED
        BY <4>1 DEF Event
    <3> QED
      BY <3>1 DEF Ends
  <2> QED
    BY <1>2, <2>1, <2>2, <2>3, <2>4
<1>3. CASE Pends(c, <<"Cancelled", "idle">>) /\ Shows({"cancelled"}, TRUE)
  <2>1. First("Cancelled")
    <3>1. Len(pending[c]) = 2 /\ pending[c][1] = Event(nextRunID, "Cancelled") /\ pending[c][2] = Event(nextRunID, "idle")
      BY <1>3 DEF Pends
    <3> QED
      BY <3>1 DEF Event
  <2>2. lastEvent.run = nextRunID /\ lastEvent.name = "cancelled"
    BY <1>3 DEF Shows
  <2> QED
    BY <2>1, <2>2 DEF Announced
<1>4. CASE Pends(c, <<"idle">>) /\ Shows({"Cancelled"}, TRUE)
  <2>1. First("idle")
    <3>1. Len(pending[c]) = 1 /\ pending[c][1] = Event(nextRunID, "idle")
      BY <1>4 DEF Pends
    <3> QED
      BY <3>1 DEF Event
  <2>2. lastEvent.run = nextRunID /\ lastEvent.name = "Cancelled"
    BY <1>4 DEF Shows
  <2> QED
    BY <2>1, <2>2 DEF Announced
<1>5. CASE Pends(c, <<"Failed">>) /\ Shows({"failed"}, FALSE)
  <2>1. First("Failed")
    <3>1. Len(pending[c]) = 1 /\ pending[c][1] = Event(nextRunID, "Failed")
      BY <1>5 DEF Pends
    <3> QED
      BY <3>1 DEF Event
  <2>2. lastEvent.run = nextRunID /\ lastEvent.name = "failed"
    BY <1>5 DEF Shows
  <2> QED
    BY <2>1, <2>2 DEF Announced
<1>6. CASE Pends(c, <<"Completed">>) /\ Shows({"completed"}, FALSE)
  <2>1. First("Completed")
    <3>1. Len(pending[c]) = 1 /\ pending[c][1] = Event(nextRunID, "Completed")
      BY <1>6 DEF Pends
    <3> QED
      BY <3>1 DEF Event
  <2>2. lastEvent.run = nextRunID /\ lastEvent.name = "completed"
    BY <1>6 DEF Shows
  <2> QED
    BY <2>1, <2>2 DEF Announced
<1> QED
  BY <1>1, <1>2, <1>3, <1>4, <1>5, <1>6 DEF Ending

\* Every step of the service emits its events in order.
LEMMA OrderStep == SafetyInv /\ LogInv /\ EventOrder /\ [Next]_vars => EventOrder'
<1> SUFFICES ASSUME SafetyInv, LogInv, EventOrder, [Next]_vars PROVE EventOrder'
  OBVIOUS
<1>1. CASE UNCHANGED events
  BY <1>1 DEF EventOrder
<1>2. ASSUME NEW c \in Call, Emit(c)
      PROVE  EventOrder'
  <2>1. /\ pending[c] # << >> /\ Len(pending[c]) \in Nat \ {0}
        /\ events' = Append(events, pending[c][1])
        /\ events \in Seq([run : RunIDs, name : Names])
        /\ nextRunID \in Nat
    BY <1>2, Emission DEF SafetyInv, TypeOK
  <2>2. /\ Len(events) \in Nat /\ Len(events') = Len(events) + 1
        /\ \A i \in 1..Len(events) : events'[i] = events[i]
        /\ events'[Len(events) + 1] = pending[c][1]
        /\ DOMAIN events' = 1..(Len(events) + 1) /\ DOMAIN events = 1..Len(events)
    <3>1. pending[c][1] \in [run : RunIDs, name : Names]
      BY <1>2, Emission DEF SafetyInv
    <3> QED
      BY <2>1, <3>1, AppendProperties
  <2>3. ASSUME NEW i \in DOMAIN events, events'[i].name \in Ends \cup {"idle"}
        PROVE  i > 1 /\ events'[i - 1] = Event(events'[i].run, Announced(events'[i].name))
    <3>1. events'[i] = events[i]
      BY <2>2
    <3>2. i > 1 /\ events[i - 1] = Event(events[i].run, Announced(events[i].name))
      BY <2>3, <3>1 DEF EventOrder
    <3>3. events'[i - 1] = events[i - 1]
      BY <2>2, <3>2
    <3> QED
      BY <3>1, <3>2, <3>3
  <2>4. ASSUME pending[c][1].name \in Ends \cup {"idle"}
        PROVE  /\ Len(events) > 0
               /\ events[Len(events)] = Event(pending[c][1].run, Announced(pending[c][1].name))
    <3>1. /\ pending[c][1].run = nextRunID /\ lastEvent.run = nextRunID
          /\ lastEvent.name = Announced(pending[c][1].name)
          /\ lastEvent.name \in {"cancelled", "Cancelled", "failed", "completed"}
      BY <2>1, <2>4, EndFollows
    <3>2. events # << >>
      BY <3>1 DEF lastEvent, Event
    <3>3. Len(events) > 0
      <4>1. Len(events) # 0
        BY <2>1, <3>2, EmptySeq
      <4> QED
        BY <2>2, <4>1
    <3>4. events[Len(events)] \in [run : RunIDs, name : Names]
      <4>1. Len(events) \in 1..Len(events)
        BY <2>2, <3>3
      <4> QED
        BY <2>1, <4>1, ElementOfSeq
    <3>5. lastEvent = events[Len(events)]
      BY <3>2 DEF lastEvent, Last
    <3>6. events[Len(events)] = Event(events[Len(events)].run, events[Len(events)].name)
      BY <3>4 DEF Event
    <3> QED
      BY <3>1, <3>3, <3>5, <3>6
  <2>5. ASSUME NEW i \in DOMAIN events', events'[i].name \in Ends \cup {"idle"}
        PROVE  i > 1 /\ events'[i - 1] = Event(events'[i].run, Announced(events'[i].name))
    <3>1. CASE i \in DOMAIN events
      BY <2>3, <2>5, <3>1
    <3>2. CASE i \notin DOMAIN events
      <4>1. i = Len(events) + 1
        BY <2>2, <3>2
      <4> QED
        BY <2>2, <2>4, <2>5, <4>1
    <3> QED
      BY <3>1, <3>2
  <2> QED
    BY <2>5 DEF EventOrder
<1>3. \/ UNCHANGED events
      \/ \E c \in Call : Emit(c)
  BY DEF Next, Start, BeginRun, Validate, SetRunning, Progress, RunReturns, FinishRun, Cancel,
         Announce, emission, vars
<1> QED
  BY <1>1, <1>2, <1>3

\* Every step of the service keeps runs and calls together.
LEMMA CallsStep == SafetyInv /\ CallsInv /\ [Next]_vars => CallsInv'
<1> SUFFICES ASSUME SafetyInv, CallsInv, [Next]_vars PROVE CallsInv'
  OBVIOUS
<1>1. TypeOK /\ RunInv
  BY DEF SafetyInv
<1>2. /\ Starts \subseteq Call /\ Cancels \subseteq Call /\ \A s \in Starts : s \notin Cancels
      /\ nextRunID \in Nat
  BY <1>1, ServiceAssumption DEF Call, TypeOK
<1>3. ASSUME NEW c \in Starts, BeginRun(c)
      PROVE  CallsInv'
  <2>1. pc[c] = "uncalled" /\ ~HasBegun(c)
    BY <1>1, <1>3 DEF BeginRun, At, RunInv
  <2>2. CASE active # Inactive
    <3>1. /\ pc' = [pc EXCEPT ![c] = "returned"] /\ UNCHANGED <<active, nextRunID, runID>>
          /\ \A d \in Call : d # c => result'[d] = result[d]
      BY <1>1, <1>3, <2>2 DEF BeginRun, Return, Goto, service, TypeOK
    <3>2. /\ pc'[c] = "returned" /\ ~HasBegun(c)'
          /\ \A d \in Call : d # c => pc'[d] = pc[d]
      BY <1>1, <1>2, <2>1, <3>1 DEF TypeOK, HasBegun
    <3>3. \A s \in Starts : Owns(s)' <=> Owns(s)
      BY <1>2, <2>1, <3>2 DEF Owns
    <3> QED
      BY <1>2, <3>1, <3>2, <3>3 DEF CallsInv, RunIDs, HasBegun
  <2>3. CASE active = Inactive
    <3>1. /\ nextRunID' = nextRunID + 1
          /\ runID' = [runID EXCEPT ![c] = nextRunID + 1]
          /\ pc' = [pc EXCEPT ![c] = "validate"]
          /\ result' = result
      BY <1>3, <2>3 DEF BeginRun, Goto
    <3>2. /\ pc'[c] = "validate" /\ runID'[c] = nextRunID + 1
          /\ \A d \in Call : d # c => pc'[d] = pc[d] /\ runID'[d] = runID[d]
      BY <1>1, <1>2, <3>1 DEF TypeOK
    <3>3. ASSUME NEW r \in RunIDs'
          PROVE  \E s \in Starts : runID'[s] = r
      <4>1. r \in RunIDs \/ r = nextRunID + 1
        BY <1>2, <3>1 DEF RunIDs
      <4>2. CASE r \in RunIDs
        <5>1. PICK s \in Starts : runID[s] = r
          BY <4>2 DEF CallsInv
        <5>2. s # c
          BY <1>2, <2>1, <4>2, <5>1 DEF HasBegun, NoRun, RunIDs
        <5> QED
          BY <1>2, <3>2, <5>1, <5>2
      <4>3. CASE r = nextRunID + 1
        BY <3>2, <4>3
      <4> QED
        BY <4>1, <4>2, <4>3
    <3>4. Owns(c)'
      BY <3>2 DEF Owns
    <3> QED
      BY <1>2, <3>1, <3>2, <3>3, <3>4 DEF CallsInv, HasBegun
  <2> QED
    BY <2>2, <2>3
<1>4. ASSUME NEW c \in Starts, Validate(c) \/ SetRunning(c) \/ RunReturns(c)
      PROVE  CallsInv'
  <2>1. /\ Owns(c) /\ pc'[c] \in {"finish", "setRunning", "run"}
        /\ \A d \in Call : d # c => pc'[d] = pc[d]
        /\ UNCHANGED <<nextRunID, runID, result>>
    BY <1>1, <1>2, <1>4 DEF Validate, RunReturns, SetRunning, At, Goto, TypeOK, Owns, service
  <2> QED
    BY <1>2, <2>1 DEF CallsInv, RunIDs, HasBegun, Owns
<1>5. ASSUME NEW c \in Starts, FinishRun(c)
      PROVE  CallsInv'
  <2>1. /\ active' = Inactive /\ UNCHANGED <<nextRunID, runID>>
        /\ pc'[c] = "returned" /\ result'[c].run = runID[c]
        /\ \A d \in Call : d # c => pc'[d] = pc[d] /\ result'[d] = result[d]
    <3>1. active' = Inactive /\ UNCHANGED <<nextRunID, runID>>
      BY <1>1, <1>5, Finished
    <3>2. PICK state, error : Return(c, runID[c], state, error)
      BY <1>5 DEF FinishRun
    <3>3. Result(runID[c], state, error).run = runID[c]
      BY DEF Result
    <3> QED
      BY <1>1, <1>2, <3>1, <3>2, <3>3 DEF Return, Goto, TypeOK
  <2> QED
    BY <1>2, <2>1 DEF CallsInv, RunIDs, HasBegun
<1>6. ASSUME NEW c \in Cancels, NEW run \in 0..nextRunID, Cancel(c, run)
      PROVE  CallsInv'
  <2>1. /\ pc[c] = "uncalled" /\ UNCHANGED nextRunID
        /\ \A d \in Call : d # c => pc'[d] = pc[d] /\ result'[d] = result[d] /\ runID'[d] = runID[d]
    BY <1>1, <1>2, <1>6 DEF Cancel, Return, Goto, At, TypeOK
  <2>2. ~result'[c].error => result'[c].state = "cancelling"
    <3>1. PICK r, state, error : /\ Return(c, r, state, error)
                                 /\ error = TRUE \/ (state = "cancelling" /\ error = FALSE)
      BY <1>6 DEF Cancel
    <3>2. result'[c] = Result(r, state, error)
      BY <1>1, <1>2, <3>1 DEF Return, TypeOK
    <3>3. result'[c].state = state /\ result'[c].error = error
      BY <3>2 DEF Result
    <3> QED
      BY <3>1, <3>3
  <2>4. \A s \in Starts : pc'[s] = pc[s] /\ result'[s] = result[s] /\ runID'[s] = runID[s]
    BY <1>2, <2>1
  <2>5. \A s \in Starts : Owns(s)' <=> Owns(s)
    BY <2>4 DEF Owns
  <2>6. ASSUME NEW d \in Cancels, pc'[d] = "returned", ~result'[d].error
        PROVE  result'[d].state = "cancelling"
    <3>1. CASE d = c
      BY <2>2, <2>6, <3>1
    <3>2. CASE d # c
      <4>1. pc'[d] = pc[d] /\ result'[d] = result[d]
        BY <1>2, <2>1, <3>2
      <4> QED
        BY <2>6, <4>1 DEF CallsInv
    <3> QED
      BY <3>1, <3>2
  <2>7. active' # Inactive => \E s \in Starts : Owns(s)'
    <3>1. active' # Inactive => active # Inactive
      <4>1. active # Inactive \/ active' = active
        BY <1>6 DEF Cancel
      <4> QED
        BY <4>1
    <3> QED
      BY <2>5, <3>1 DEF CallsInv
  <2>8. RunIDs' = RunIDs
    BY <2>1 DEF RunIDs
  <2> QED
    BY <2>4, <2>6, <2>7, <2>8 DEF CallsInv, HasBegun
<1>7. CASE UNCHANGED <<service, pc, runID, result>>
  BY <1>7 DEF CallsInv, Owns, RunIDs, HasBegun, service
<1> QED
  BY <1>3, <1>4, <1>5, <1>6, <1>7 DEF Next, Start, Progress, Emit, vars

-----------------------------------------------------------------------------
(* What the service does behind the page *)

ServiceStep ==
  \/ \E c \in Starts : StartStep(c)
  \/ \E c \in Cancels : CancelStep(c)
  \/ \E c \in Call : Emit(c) /\ UNCHANGED page

\* The page is not touched, what it knows stays true, and a run that begins is
\* that of the current call.
Behind ==
  /\ UNCHANGED page
  /\ nextRunID' \in Nat /\ nextRunID <= nextRunID'
  /\ \A s \in Starts : pc'[s] # "uncalled" => s \in Called /\ HasBegun(s)'
  /\ \A s \in Starts : pc[s] = "returned" => pc'[s] = "returned"
  /\ \A s \in Starts : HasBegun(s) => runID'[s] = runID[s]
  /\ \A s \in Starts : ~HasBegun(s) /\ HasBegun(s)' => runID'[s] \notin RunIDs
  /\ \A s \in Called : Current(s) /\ HasBegun(s)' => runID'[s] = nextRunID'
  /\ (\A s \in Called : Retired(s)) => reports' = reports
  /\ \A c \in Cancels : pc'[c] # "uncalled" => asked[c] # NoRun

\* Called is a set of calls of StartBenchmark.
LEMMA CalledType == DesktopTypeOK => Called \subseteq Starts
BY DEF DesktopTypeOK

\* The call of StartBenchmark that is not over is the current one.
LEMMA OthersAreOver ==
  ASSUME FormInv, NEW s \in Starts, pc[s] # "uncalled", pc[s] # "returned" \/ ~HasBegun(s)
  PROVE  s \in Called /\ Current(s)
BY DEF FormInv, Retired

\* A call of StartBenchmark is never refused.
LEMMA BeginsAlone ==
  ASSUME SafetyInv, CallsInv, DesktopTypeOK, FormInv, NEW c \in Called, BeginRun(c)
  PROVE  active = Inactive /\ Current(c)
<1>1. pc[c] = "uncalled" /\ c \in Starts
  BY CalledType DEF BeginRun, At
<1>2. Current(c)
  BY <1>1 DEF FormInv, Retired
<1>3. ASSUME active # Inactive
      PROVE  FALSE
  <2>1. PICK s \in Starts : Owns(s)
    BY <1>3 DEF CallsInv
  <2>2. Current(s) /\ pc[s] # "uncalled"
    BY <2>1, OthersAreOver DEF Owns
  <2> QED
    BY <1>1, <1>2, <2>2 DEF Current
<1> QED
  BY <1>2, <1>3

\* The steps of the service change things behind the page.
LEMMA ServiceBehind ==
  ASSUME SafetyInv, CallsInv, DesktopTypeOK, FormInv, ServiceStep
  PROVE  Behind /\ [Next]_vars
<1>1. TypeOK /\ RunInv
  BY DEF SafetyInv
<1>2. /\ Starts \subseteq Call /\ Cancels \subseteq Call /\ \A s \in Starts : s \notin Cancels
      /\ nextRunID \in Nat /\ RunIDs = 1..nextRunID
  BY <1>1, ServiceAssumption DEF Call, TypeOK, RunIDs
<1>3. ASSUME NEW c \in Called, c \in Starts, BeginRun(c), UNCHANGED page
      PROVE  Behind
  <2>1. active = Inactive /\ Current(c) /\ pc[c] = "uncalled"
    BY <1>3, BeginsAlone DEF BeginRun, At
  <2>2. /\ nextRunID' = nextRunID + 1
        /\ runID' = [runID EXCEPT ![c] = nextRunID + 1]
        /\ pc' = [pc EXCEPT ![c] = "validate"]
        /\ reports' = reports
    BY <1>3, <2>1 DEF BeginRun, Goto
  <2>3. /\ pc'[c] = "validate" /\ runID'[c] = nextRunID + 1
        /\ \A d \in Call : d # c => pc'[d] = pc[d] /\ runID'[d] = runID[d]
    BY <1>1, <1>2, <1>3, <2>2 DEF TypeOK
  <2>4. /\ ~HasBegun(c) /\ HasBegun(c)' /\ nextRunID + 1 \notin RunIDs
        /\ \A s \in Starts : s # c => (HasBegun(s)' <=> HasBegun(s))
    BY <1>1, <1>2, <1>3, <2>1, <2>3 DEF RunInv, HasBegun, NoRun
  <2>5. \A s : Current(s) => s = c
    BY <2>1 DEF Current
  <2> QED
    BY <1>2, <1>3, <2>1, <2>2, <2>3, <2>4, <2>5 DEF Behind, FormInv
<1>4. ASSUME NEW c \in Starts, c \in Called, UNCHANGED page,
             Validate(c) \/ SetRunning(c) \/ RunReturns(c) \/ Progress(c) \/ FinishRun(c)
      PROVE  Behind
  <2>1. /\ Owns(c) /\ pc'[c] # "uncalled"
        /\ \A d \in Call : d # c => pc'[d] = pc[d]
        /\ UNCHANGED <<nextRunID, runID>>
    BY <1>1, <1>2, <1>4 DEF Validate, RunReturns, SetRunning, Progress, FinishRun, At, Goto, Return,
                            TypeOK, Owns, service
  <2>2. pc[c] # "uncalled" /\ pc[c] # "returned"
    BY <2>1 DEF Owns
  <2>3. ~Retired(c)
    BY <2>2 DEF Retired
  <2> QED
    BY <1>2, <1>4, <2>1, <2>2, <2>3 DEF Behind, FormInv, HasBegun
<1>5. ASSUME NEW c \in Cancels, CancelStep(c)
      PROVE  Behind
  <2>1. /\ UNCHANGED page /\ asked[c] # NoRun
        /\ \A d \in Call : d # c => pc'[d] = pc[d] /\ runID'[d] = runID[d]
        /\ UNCHANGED <<nextRunID, reports>>
    BY <1>1, <1>2, <1>5 DEF CancelStep, Cancel, Return, Goto, TypeOK
  <2>2. \A s \in Starts : pc'[s] = pc[s] /\ runID'[s] = runID[s]
    BY <1>2, <2>1
  <2>3. ASSUME NEW d \in Cancels, pc'[d] # "uncalled"
        PROVE  asked[d] # NoRun
    <3>1. d = c \/ pc'[d] = pc[d]
      BY <1>2, <2>1
    <3> QED
      BY <2>1, <2>3, <3>1 DEF FormInv
  <2>4. \A s \in Starts : HasBegun(s)' <=> HasBegun(s)
    BY <2>2 DEF HasBegun
  <2>5. \A s \in Starts : pc'[s] # "uncalled" => s \in Called /\ HasBegun(s)'
    BY <2>2, <2>4 DEF FormInv
  <2>6. \A s \in Called : Current(s) /\ HasBegun(s)' => runID'[s] = nextRunID'
    BY <2>1, <2>2, <2>4, CalledType DEF FormInv
  <2> QED
    BY <1>2, <2>1, <2>2, <2>3, <2>4, <2>5, <2>6 DEF Behind
<1>6. ASSUME NEW c \in Call, Emit(c), UNCHANGED page
      PROVE  Behind
  BY <1>2, <1>6 DEF Emit, Behind, FormInv, HasBegun, service
<1>7. [Next]_vars
  <2>1. ASSUME NEW c \in Cancels, CancelStep(c)
        PROVE  Next
    <3>1. asked[c] \in 0..nextRunID
      BY <1>2 DEF FormInv, NoRun
    <3> QED
      BY <2>1, <3>1 DEF CancelStep, Next
  <2> QED
    BY <2>1 DEF ServiceStep, StartStep, Next
<1> QED
  BY <1>3, <1>4, <1>5, <1>6, <1>7 DEF ServiceStep, StartStep, Start

\* The current call is one of the calls.
LEMMA CurrentCall ==
  ASSUME FormInv, calls # << >>
  PROVE  /\ Last(calls) \in Called /\ Last(calls) \in Starts
         /\ Current(Last(calls)) /\ RequestedRun = runID[Last(calls)]
<1>1. calls \in Seq(Starts) /\ Len(calls) \in Nat /\ Len(calls) # 0
  BY EmptySeq DEF FormInv
<1>2. Len(calls) \in 1..Len(calls) /\ Last(calls) = calls[Len(calls)] /\ DOMAIN calls = 1..Len(calls)
  BY <1>1 DEF Last
<1>3. Last(calls) \in Called /\ Last(calls) \in Starts
  BY <1>1, <1>2, ElementOfSeq DEF Called, Range
<1> QED
  BY <1>3 DEF Current, RequestedRun

\* Events that were emitted stay emitted.
LEMMA EventsGrow ==
  ASSUME SafetyInv, [Next]_vars
  PROVE  /\ Len(events) \in Nat /\ Len(events') \in Nat /\ Len(events) <= Len(events')
         /\ DOMAIN events = 1..Len(events) /\ DOMAIN events' = 1..Len(events')
         /\ \A i \in 1..Len(events) : events'[i] = events[i]
<1>1. events \in Seq([run : RunIDs, name : Names])
  BY DEF SafetyInv, TypeOK
<1>2. CASE UNCHANGED events
  BY <1>1, <1>2
<1>3. ASSUME NEW c \in Call, Emit(c)
      PROVE  /\ Len(events') = Len(events) + 1
             /\ DOMAIN events' = 1..Len(events')
             /\ \A i \in 1..Len(events) : events'[i] = events[i]
  <2>1. pending[c][1] \in [run : RunIDs, name : Names] /\ events' = Append(events, pending[c][1])
    BY <1>3, Emission DEF SafetyInv
  <2> QED
    BY <1>1, <2>1, AppendProperties
<1>4. \/ UNCHANGED events
      \/ \E c \in Call : Emit(c)
  BY DEF Next, Start, BeginRun, Validate, SetRunning, Progress, RunReturns, FinishRun, Cancel,
         Announce, emission, vars
<1> QED
  BY <1>1, <1>2, <1>3, <1>4

\* What the service does keeps the invariant of the page.
LEMMA ServiceKeepsPage ==
  ASSUME Inv, ServiceStep
  PROVE  (DesktopTypeOK /\ FormInv /\ PageInv /\ DeliveryInv)'
<1>1. SafetyInv /\ CallsInv /\ DesktopTypeOK /\ FormInv /\ PageInv /\ DeliveryInv
  BY DEF Inv, ServiceInv
<1>2. Behind /\ [Next]_vars
  BY <1>1, ServiceBehind
<1>3. /\ UNCHANGED <<ui, checking, calls, confirmed, asked, settled, delivered>>
      /\ Called' = Called /\ \A s : Current(s)' <=> Current(s)
  BY <1>2 DEF Behind, page, Called, Current
<1>4. nextRunID \in Nat /\ RunIDs \subseteq RunIDs' /\ NoRun \notin RunIDs' /\ NoRun \notin RunIDs
  BY <1>1, <1>2 DEF SafetyInv, TypeOK, Behind, RunIDs, NoRun
<1>5. /\ Len(events) \in Nat /\ Len(events') \in Nat /\ Len(events) <= Len(events')
      /\ DOMAIN events = 1..Len(events) /\ DOMAIN events' = 1..Len(events')
      /\ \A i \in 1..Len(events) : events'[i] = events[i]
  BY <1>1, <1>2, EventsGrow
<1>6. DesktopTypeOK'
  BY <1>1, <1>3, <1>4, <1>5 DEF DesktopTypeOK
<1>7. \A s \in Called : Retired(s) => Retired(s)'
  BY <1>1, <1>2, <1>3, CalledType DEF Behind, Retired, HasBegun
<1>8. ui.run # NoRun \/ ui.accepting => calls # << >>
  BY <1>1 DEF PageInv, FormInv, RequestedRun
<1>9. calls # << >> => \/ RequestedRun' = RequestedRun
                       \/ RequestedRun = NoRun /\ RequestedRun' \notin RunIDs
  BY <1>1, <1>2, <1>3, CurrentCall DEF Behind, RequestedRun, HasBegun
<1>10. FormInv'
  <2>1. \A c \in Starts : pc'[c] # "uncalled" => c \in Called /\ HasBegun(c)'
    BY <1>2 DEF Behind
  <2>2. \A c \in Called : Current(c) \/ Retired(c)'
    BY <1>1, <1>7 DEF FormInv
  <2>3. \A c \in Called : Current(c) /\ HasBegun(c)' => runID'[c] = nextRunID'
    BY <1>2 DEF Behind
  <2>4. ui.accepting => calls # << >> /\ RequestedRun' \notin ui.retired
    BY <1>1, <1>8, <1>9 DEF FormInv, DesktopTypeOK
  <2>5. ~ui.accepting => \A c \in Called : Retired(c)'
    BY <1>1, <1>7 DEF FormInv
  <2>6. /\ asked \in [Cancels -> RunIDs' \cup {NoRun}]
        /\ \A c \in Cancels : pc'[c] # "uncalled" => asked[c] # NoRun
    BY <1>1, <1>2, <1>4 DEF FormInv, Behind
  <2>7. calls \in Seq(Starts)
    BY <1>1 DEF FormInv
  <2> QED
    BY <1>3, <2>1, <2>2, <2>3, <2>4, <2>5, <2>6, <2>7 DEF FormInv
<1>11. PageInv'
  <2>1. ui.run \in {NoRun, RequestedRun'}
    BY <1>1, <1>8, <1>9 DEF PageInv
  <2>2. ui.report # NoRun => ui.report \in reports'
    BY <1>1, <1>2 DEF PageInv, FormInv, Behind
  <2>3. ui.run # NoRun /\ ui.status \in Outcomes => Shown(ui.run, ui.status)'
    <3>1. ASSUME NEW r, NEW n, Shown(r, n)
          PROVE  \E i \in DOMAIN events' : events'[i] = Event(r, n)
      BY <1>5, <3>1 DEF Shown
    <3> QED
      BY <1>1, <1>3, <3>1 DEF PageInv, Shown
  <2> QED
    BY <1>1, <1>3, <2>1, <2>2, <2>3 DEF PageInv
<1>12. DeliveryInv'
  BY <1>1, <1>3, <1>5 DEF DeliveryInv, DesktopTypeOK
<1> QED
  BY <1>6, <1>10, <1>11, <1>12

-----------------------------------------------------------------------------
(* What the page does *)

ExecutionState ==
  [status : RunStates, run : RunIDs \cup {NoRun}, accepting : BOOLEAN, retired : SUBSET RunIDs,
   confirmed : BOOLEAN, confirmation : BOOLEAN, report : RunIDs \cup {NoRun}, error : BOOLEAN]

PageKept == (DesktopTypeOK /\ FormInv /\ PageInv /\ DeliveryInv)'

\* The parts of the invariant, and what does not change with the service.
LEMMA Parts ==
  ASSUME Inv, UNCHANGED vars
  PROVE  /\ DesktopTypeOK /\ FormInv /\ PageInv /\ DeliveryInv /\ SafetyInv /\ CallsInv /\ EventOrder
         /\ RunIDs' = RunIDs /\ ExecutionState' = ExecutionState /\ ui \in ExecutionState
         /\ NoRun \notin RunIDs /\ nextRunID \in Nat
         /\ \A s : HasBegun(s)' <=> HasBegun(s)
         /\ \A r, n : Shown(r, n)' <=> Shown(r, n)
         /\ UNCHANGED <<nextRunID, reports, events, pc, runID, result>>
<1>1. /\ DesktopTypeOK /\ FormInv /\ PageInv /\ DeliveryInv /\ SafetyInv /\ CallsInv /\ EventOrder
      /\ TypeOK
  BY DEF Inv, ServiceInv, SafetyInv
<1>2. UNCHANGED <<nextRunID, reports, events, pc, runID, result>>
  BY DEF vars, service, emission
<1>3. RunIDs' = RunIDs /\ ExecutionState' = ExecutionState
  BY <1>2 DEF RunIDs, ExecutionState
<1>4. NoRun \notin RunIDs /\ nextRunID \in Nat
  BY <1>1 DEF TypeOK, RunIDs, NoRun
<1>5. ui \in ExecutionState
  BY <1>1 DEF DesktopTypeOK, ExecutionState
<1>6. (\A s : HasBegun(s)' <=> HasBegun(s)) /\ (\A r, n : Shown(r, n)' <=> Shown(r, n))
  BY <1>2 DEF HasBegun, Shown
<1> QED
  BY <1>1, <1>2, <1>3, <1>4, <1>5, <1>6

\* The page goes on waiting for its run.
LEMMA Waits ==
  ASSUME Inv, UNCHANGED <<vars, checking, calls, confirmed, asked>>,
         ui.accepting, ui' \in ExecutionState,
         ui'.accepting, ui'.retired = ui.retired, ui'.report = ui.report,
         ui'.confirmation = ui.confirmation,
         ui'.run \in {ui.run, RequestedRun}, ui'.status # "idle",
         ui'.status \in Outcomes => ui'.run # NoRun /\ Shown(ui'.run, ui'.status),
         settled' \subseteq Call, delivered' \in 0..Len(events),
         \A i \in 1..delivered' : events[i].name \in Ends => events[i].run \in ui'.retired
  PROVE  PageKept
<1>1. /\ DesktopTypeOK /\ FormInv /\ PageInv
      /\ RunIDs' = RunIDs /\ ExecutionState' = ExecutionState
      /\ \A s : HasBegun(s)' <=> HasBegun(s)
      /\ \A r, n : Shown(r, n)' <=> Shown(r, n)
      /\ UNCHANGED <<nextRunID, reports, events, pc, runID>>
  BY Parts
<1>2. Called' = Called /\ RequestedRun' = RequestedRun /\ \A s : Current(s)' <=> Current(s)
  BY <1>1 DEF Called, RequestedRun, Current
<1>3. \A s : Retired(s)' <=> Retired(s)
  BY <1>1 DEF Retired
<1>4. DesktopTypeOK'
  BY <1>1, <1>2 DEF DesktopTypeOK, ExecutionState
<1>5. FormInv'
  BY <1>1, <1>2, <1>3 DEF FormInv
<1>6. PageInv'
  BY <1>1, <1>2 DEF PageInv
<1>7. DeliveryInv'
  BY <1>1 DEF DeliveryInv
<1> QED
  BY <1>4, <1>5, <1>6, <1>7 DEF PageKept

\* The page learns of the end of its run.
LEMMA Learns ==
  ASSUME Inv, UNCHANGED <<vars, checking, calls, confirmed, asked>>,
         NEW c \in Called, Current(c), pc[c] = "returned", ui.accepting, ui' \in ExecutionState,
         ~ui'.accepting, ui'.retired = ui.retired \cup {runID[c]}, ui'.run = runID[c],
         ui'.report \in {NoRun, runID[c]}, ui'.report # NoRun => ui'.report \in reports,
         Shown(runID[c], ui'.status),
         settled' \subseteq Call, delivered' \in 0..Len(events),
         \A i \in 1..delivered' : events[i].name \in Ends => events[i].run \in ui'.retired
  PROVE  PageKept
<1>1. /\ DesktopTypeOK /\ FormInv /\ PageInv
      /\ RunIDs' = RunIDs /\ ExecutionState' = ExecutionState
      /\ \A s : HasBegun(s)' <=> HasBegun(s)
      /\ \A r, n : Shown(r, n)' <=> Shown(r, n)
      /\ UNCHANGED <<nextRunID, reports, events, pc, runID>>
  BY Parts
<1>2. Called' = Called /\ RequestedRun' = RequestedRun /\ \A s : Current(s)' <=> Current(s)
  BY <1>1 DEF Called, RequestedRun, Current
<1>3. c \in Starts /\ HasBegun(c)
  BY <1>1, CalledType DEF FormInv
<1>4. \A s \in Called : Retired(s)'
  BY <1>1, <1>3 DEF Retired, FormInv, Current
<1>5. RequestedRun = runID[c]
  BY DEF Current, RequestedRun
<1>6. DesktopTypeOK'
  BY <1>1, <1>2 DEF DesktopTypeOK, ExecutionState
<1>7. FormInv'
  BY <1>1, <1>2, <1>4 DEF FormInv
<1>8. PageInv'
  <2>1. checking = 0
    BY <1>1 DEF PageInv
  <2> QED
    BY <1>1, <1>2, <1>5, <2>1 DEF PageInv
<1>9. DeliveryInv'
  BY <1>1 DEF DeliveryInv
<1> QED
  BY <1>6, <1>7, <1>8, <1>9 DEF PageKept

\* The page is at rest, and stays so.
LEMMA Rests ==
  ASSUME Inv, UNCHANGED <<vars, calls, confirmed, asked, settled, delivered>>,
         ~ui.accepting, ui' \in ExecutionState,
         ~ui'.accepting, ui'.retired = ui.retired,
         \/ ui'.run = NoRun /\ ui'.report = NoRun
         \/ ui'.run = ui.run /\ ui'.report = ui.report /\ ui'.status \notin Outcomes,
         checking' \in Nat,
         checking' > 0 => checking' = 1 /\ ui'.status = "validating" /\ ui'.run = NoRun
  PROVE  PageKept
<1>1. /\ DesktopTypeOK /\ FormInv /\ PageInv /\ DeliveryInv
      /\ RunIDs' = RunIDs /\ ExecutionState' = ExecutionState
      /\ \A s : HasBegun(s)' <=> HasBegun(s)
      /\ \A r, n : Shown(r, n)' <=> Shown(r, n)
      /\ UNCHANGED <<nextRunID, reports, events, pc, runID>>
  BY Parts
<1>2. Called' = Called /\ RequestedRun' = RequestedRun /\ \A s : Current(s)' <=> Current(s)
  BY <1>1 DEF Called, RequestedRun, Current
<1>3. \A s : Retired(s)' <=> Retired(s)
  BY <1>1 DEF Retired
<1>4. DesktopTypeOK'
  BY <1>1, <1>2 DEF DesktopTypeOK, ExecutionState
<1>5. FormInv'
  BY <1>1, <1>2, <1>3 DEF FormInv
<1>6. PageInv'
  BY <1>1, <1>2 DEF PageInv
<1>7. DeliveryInv'
  BY <1>1 DEF DeliveryInv
<1> QED
  BY <1>4, <1>5, <1>6, <1>7 DEF PageKept

\* A page at rest asks for its next run.
LEMMA Asks ==
  ASSUME Inv, UNCHANGED <<vars, asked, settled, delivered>>, NEW request \in BOOLEAN,
         ~ui.accepting, checking' = 0, execute(request)
  PROVE  PageKept
<1>1. /\ DesktopTypeOK /\ FormInv /\ PageInv /\ DeliveryInv /\ SafetyInv
      /\ RunIDs' = RunIDs /\ ExecutionState' = ExecutionState /\ ui \in ExecutionState
      /\ NoRun \notin RunIDs
      /\ \A s : HasBegun(s)' <=> HasBegun(s)
      /\ UNCHANGED <<nextRunID, reports, events, pc, runID>>
  BY Parts
<1>2. PICK c \in Starts \ Called :
        /\ calls' = Append(calls, c)
        /\ confirmed' \subseteq confirmed \cup {c}
        /\ ui' = [ui EXCEPT !.status = "validating", !.run = NoRun, !.accepting = TRUE,
                            !.confirmed = request, !.report = NoRun, !.error = FALSE,
                            !.confirmation = FALSE]
  BY DEF execute
<1>3. /\ ui' \in ExecutionState /\ ui'.accepting /\ ui'.retired = ui.retired /\ ui'.run = NoRun
      /\ ui'.report = NoRun /\ ~ui'.confirmation /\ ui'.status = "validating"
  BY <1>1, <1>2 DEF ExecutionState, RunStates
<1>4. /\ calls' \in Seq(Starts) /\ calls' # << >> /\ Last(calls') = c /\ Called' = Called \cup {c}
  <2>1. calls \in Seq(Starts)
    BY <1>1 DEF FormInv
  <2>2. /\ Len(calls) \in Nat /\ DOMAIN calls = 1..Len(calls)
        /\ calls' \in Seq(Starts) /\ Len(calls') = Len(calls) + 1 /\ DOMAIN calls' = 1..(Len(calls) + 1)
        /\ \A i \in 1..Len(calls) : calls'[i] = calls[i]
        /\ calls'[Len(calls) + 1] = c
    BY <1>2, <2>1, AppendProperties
  <2>3. calls' # << >>
    <3>1. Len(calls') # 0
      BY <2>2
    <3> QED
      BY <3>1, EmptySeq
  <2>4. Last(calls') = c
    BY <2>2 DEF Last
  <2>5. Called' = Called \cup {c}
    BY <2>2 DEF Called, Range
  <2> QED
    BY <2>2, <2>3, <2>4, <2>5
<1>5. ~HasBegun(c) /\ runID[c] = NoRun
  BY <1>1, <1>2 DEF FormInv, SafetyInv, RunInv, HasBegun
<1>6. RequestedRun' = NoRun /\ \A s : Current(s)' <=> s = c
  BY <1>1, <1>4, <1>5 DEF RequestedRun, Current
<1>7. \A s \in Called : Retired(s)'
  BY <1>1, <1>3 DEF FormInv, Retired
<1>8. DesktopTypeOK'
  BY <1>1, <1>2, <1>3, <1>4 DEF DesktopTypeOK, ExecutionState
<1>9. FormInv'
  <2>1. RequestedRun' \notin ui'.retired
    BY <1>1, <1>3, <1>6 DEF DesktopTypeOK
  <2> QED
    BY <1>1, <1>3, <1>4, <1>5, <1>6, <1>7, <2>1 DEF FormInv
<1>10. PageInv'
  BY <1>3, <1>6 DEF PageInv, Outcomes
<1>11. DeliveryInv'
  BY <1>1, <1>3 DEF DeliveryInv
<1> QED
  BY <1>8, <1>9, <1>10, <1>11 DEF PageKept

\* An outcome on a page that waits is that of its run, which is not retired.
LEMMA WaitingRunIsNotRetired ==
  ASSUME FormInv, PageInv, DesktopTypeOK, ui.accepting, NoRun \notin RunIDs
  PROVE  ui.run \notin ui.retired /\ (ui.status \in Outcomes => ui.run # NoRun)
BY DEF FormInv, PageInv, DesktopTypeOK

\* What the user does, and the answer of ValidateBenchmark.
LEMMA UserKeepsPage ==
  ASSUME Inv, ~Hasty,
         Submit \/ Validated \/ Confirm \/ Dismiss \/ Reset \/ \E c \in Cancels : RequestCancel(c)
  PROVE  PageKept
<1>1. UNCHANGED vars
  BY DEF Submit, Validated, Confirm, Dismiss, Reset, RequestCancel
<1>2. /\ DesktopTypeOK /\ FormInv /\ PageInv /\ DeliveryInv
      /\ RunIDs' = RunIDs /\ ui \in ExecutionState /\ ExecutionState' = ExecutionState
      /\ NoRun \notin RunIDs
      /\ \A s : HasBegun(s)' <=> HasBegun(s)
      /\ \A r, n : Shown(r, n)' <=> Shown(r, n)
      /\ UNCHANGED <<nextRunID, reports, events, pc, runID>>
  BY <1>1, Parts
<1>3. ASSUME NEW status \in RunStates
      PROVE  [initialExecutionState EXCEPT !.status = status, !.retired = ui.retired] \in ExecutionState
  BY <1>2 DEF initialExecutionState, ExecutionState, RunStates
<1>4. checking \in Nat
  BY <1>2 DEF DesktopTypeOK
<1>5. ASSUME Patient, ui.status \in Outcomes
      PROVE  ~ui.accepting
  BY <1>2, <1>5, WaitingRunIsNotRetired DEF Patient
<1>6. CASE Submit
  <2>1. ~ui.accepting
    <3>1. ui.accepting => ui.status \in Outcomes
      BY <1>2, <1>6 DEF Submit, locked, activeStates, Outcomes, PageInv, ExecutionState, RunStates
    <3> QED
      BY <1>5, <1>6, <3>1 DEF Submit
  <2>2. /\ ui' \in ExecutionState /\ ~ui'.accepting /\ ui'.retired = ui.retired /\ ui'.run = NoRun
        /\ ui'.report = NoRun /\ ui'.status = "validating"
    <3>1. ui' = [initialExecutionState EXCEPT !.status = "validating", !.retired = ui.retired]
      BY <1>6 DEF Submit
    <3>2. ui' \in ExecutionState
      BY <1>3, <3>1 DEF RunStates
    <3> QED
      BY <3>1, <3>2 DEF initialExecutionState
  <2>3. checking = 0
    BY <1>2, <1>4, <1>6 DEF Submit, PageInv, locked, activeStates
  <2>4. checking' = 1 /\ UNCHANGED <<vars, calls, confirmed, asked, settled, delivered>>
    BY <1>6, <2>3 DEF Submit
  <2> QED
    BY <2>1, <2>2, <2>4, Rests
<1>7. CASE Validated
  <2>1. checking = 1 /\ ~ui.accepting /\ ui.run = NoRun /\ ui.report = NoRun /\ checking' = 0
    BY <1>2, <1>7 DEF Validated, PageInv
  <2>2. CASE /\ ui' = [ui EXCEPT !.status = "failed", !.accepting = FALSE, !.error = TRUE]
             /\ UNCHANGED <<calls, confirmed>>
    <3>1. /\ ui' \in ExecutionState /\ ~ui'.accepting /\ ui'.retired = ui.retired /\ ui'.run = NoRun
          /\ ui'.report = NoRun
      BY <1>2, <2>1, <2>2 DEF ExecutionState, RunStates
    <3>2. UNCHANGED <<vars, calls, confirmed, asked, settled, delivered>>
      BY <1>7, <2>2 DEF Validated
    <3> QED
      BY <2>1, <3>1, <3>2, Rests
  <2>3. CASE /\ ui' = [ui EXCEPT !.status = "awaiting-confirmation", !.confirmed = TRUE,
                                 !.confirmation = TRUE, !.error = FALSE]
             /\ UNCHANGED <<calls, confirmed>>
    <3>1. /\ ui' \in ExecutionState /\ ~ui'.accepting /\ ui'.retired = ui.retired /\ ui'.run = NoRun
          /\ ui'.report = NoRun
      BY <1>2, <2>1, <2>3 DEF ExecutionState, RunStates
    <3>2. UNCHANGED <<vars, calls, confirmed, asked, settled, delivered>>
      BY <1>7, <2>3 DEF Validated
    <3> QED
      BY <2>1, <3>1, <3>2, Rests
  <2>4. CASE execute(FALSE)
    BY <1>7, <2>1, <2>4, Asks DEF Validated
  <2> QED
    BY <1>7, <2>2, <2>3, <2>4 DEF Validated
<1>8. ASSUME showsDialog
      PROVE  ~ui.accepting /\ checking = 0
  BY <1>2, <1>4, <1>8 DEF showsDialog, PageInv
<1>9. CASE Confirm
  BY <1>2, <1>8, <1>9, Asks DEF Confirm, ExecutionState
<1>10. CASE Dismiss
  <2>1. /\ ui' \in ExecutionState /\ ui'.accepting = ui.accepting /\ ui'.retired = ui.retired
        /\ ui'.run = ui.run /\ ui'.report = ui.report /\ ui'.status \notin Outcomes
    BY <1>2, <1>10 DEF Dismiss, ExecutionState, RunStates, Outcomes
  <2> QED
    BY <1>8, <1>10, <2>1, Rests DEF Dismiss
<1>11. CASE Reset
  <2>1. ~ui.accepting /\ checking = 0
    <3>1. ui.status \in Outcomes
      BY <1>11 DEF Reset, showsResults, Outcomes
    <3>2. checking = 0
      BY <1>2, <1>4, <3>1 DEF PageInv, Outcomes
    <3> QED
      BY <1>5, <1>11, <3>1, <3>2 DEF Reset
  <2>2. /\ ui' = [initialExecutionState EXCEPT !.retired = ui.retired]
        /\ UNCHANGED <<vars, checking, calls, confirmed, asked, settled, delivered>>
    BY <1>11 DEF Reset
  <2>3. ui' \in ExecutionState
    BY <1>2, <2>2 DEF initialExecutionState, ExecutionState, RunStates
  <2>4. ~ui'.accepting /\ ui'.retired = ui.retired /\ ui'.run = NoRun /\ ui'.report = NoRun
    BY <2>2 DEF initialExecutionState
  <2> QED
    BY <2>1, <2>2, <2>3, <2>4, Rests
<1>12. ASSUME NEW c \in Cancels, RequestCancel(c)
       PROVE  PageKept
  <2>1. /\ UNCHANGED <<ui, checking, calls, confirmed, settled, delivered>>
        /\ ui.run # NoRun /\ asked' = [asked EXCEPT ![c] = ui.run] /\ pc[c] = "uncalled"
    BY <1>12 DEF RequestCancel
  <2>2. ui.run \in RunIDs
    BY <1>2, <2>1 DEF ExecutionState
  <2>3. /\ Called' = Called /\ RequestedRun' = RequestedRun
        /\ (\A s : Current(s)' <=> Current(s)) /\ (\A s : Retired(s)' <=> Retired(s))
    BY <1>2, <2>1 DEF Called, RequestedRun, Current, Retired
  <2>4. \A d \in Cancels : asked'[d] = IF d = c THEN ui.run ELSE asked[d]
    BY <1>2, <2>1 DEF FormInv
  <2>5. FormInv'
    BY <1>2, <2>1, <2>2, <2>3, <2>4 DEF FormInv
  <2>6. PageInv' /\ DeliveryInv' /\ DesktopTypeOK'
    BY <1>2, <2>1, <2>3 DEF PageInv, DeliveryInv, DesktopTypeOK
  <2> QED
    BY <2>5, <2>6 DEF PageKept
<1> QED
  BY <1>6, <1>7, <1>9, <1>10, <1>11, <1>12

\* A call that is not the current one, or any while the page does not wait, is
\* retired with its run.
LEMMA WaitsForCurrent ==
  ASSUME FormInv, NEW c \in Called, runID[c] \notin ui.retired
  PROVE  ui.accepting /\ Current(c) /\ RequestedRun = runID[c]
<1>1. ~Retired(c)
  BY DEF Retired
<1>2. ui.accepting /\ Current(c)
  BY <1>1 DEF FormInv
<1> QED
  BY <1>2 DEF Current, RequestedRun

\* A run whose end has been decided has been returned, and if it is the current
\* one and has completed, its report is kept.
LEMMA EndOfRun ==
  ASSUME SafetyInv, FormInv, DesktopTypeOK, NEW c \in Called, HasBegun(c),
         NEW n \in Final, Decided(runID[c], n)
  PROVE  /\ pc[c] = "returned"
         /\ Current(c) /\ n = "Completed" => runID[c] \in reports
<1>1. c \in Starts /\ TypeOK /\ RunInv
  BY CalledType DEF SafetyInv
<1>2. pc[c] = "returned"
  <2>1. ~Owns(c)
    BY <1>1, OwnsRun DEF SafetyInv, OpenInv
  <2>2. pc[c] # "uncalled" /\ pc[c] \in {"uncalled", "validate", "setRunning", "run", "finish", "returned"}
    BY <1>1 DEF RunInv, TypeOK, Call
  <2> QED
    BY <2>1, <2>2 DEF Owns
<1>3. ASSUME Current(c), n = "Completed"
      PROVE  runID[c] \in reports
  <2>1. runID[c] = nextRunID /\ nextRunID \in Nat
    BY <1>1, <1>3 DEF FormInv, TypeOK
  <2>2. runID[c] \in RunIDs /\ (runID[c] + 1)..nextRunID = {}
    BY <1>1, <2>1 DEF HasBegun, NoRun, RunIDs
  <2> QED
    BY <1>3, <2>2 DEF SafetyInv, ReportInv
<1> QED
  BY <1>2, <1>3

\* The next event reaches the page.
LEMMA EventKeepsPage ==
  ASSUME Inv, DeliverEvent
  PROVE  PageKept
<1>1. UNCHANGED <<vars, checking, calls, confirmed, asked, settled>>
  BY DEF DeliverEvent
<1>2. /\ DesktopTypeOK /\ FormInv /\ PageInv /\ DeliveryInv /\ SafetyInv /\ CallsInv /\ EventOrder
      /\ RunIDs' = RunIDs /\ ExecutionState' = ExecutionState /\ ui \in ExecutionState
      /\ NoRun \notin RunIDs
      /\ UNCHANGED <<nextRunID, reports, events, pc, runID>>
  BY <1>1, Parts
<1>3. TypeOK /\ events \in Seq([run : RunIDs, name : Names])
  BY <1>2 DEF SafetyInv, TypeOK
<1>4. PICK k : k = delivered + 1
  OBVIOUS
<1>5. /\ k \in 1..Len(events) /\ k - 1 = delivered /\ delivered' = k /\ delivered' \in 0..Len(events)
      /\ Len(events) \in Nat /\ DOMAIN events = 1..Len(events) /\ 1..delivered' = 1..(k - 1) \cup {k}
  BY <1>2, <1>3, <1>4 DEF DeliverEvent, DesktopTypeOK
<1>6. PICK run, name : run = events[k].run /\ name = events[k].name
  OBVIOUS
<1>7. run \in RunIDs /\ name \in Names /\ events[k] = Event(run, name)
  <2>1. events[k] \in [run : RunIDs, name : Names]
    BY <1>3, <1>5, ElementOfSeq
  <2> QED
    BY <1>6, <2>1 DEF Event
<1>8. ui' = applyEvent(run, name)
  BY <1>2, <1>5, <1>6 DEF DeliverEvent
<1>9. Shown(run, name) /\ Decided(run, name)
  BY <1>5, <1>7 DEF Shown, Decided
<1>10. PICK c \in Called : runID[c] = run /\ HasBegun(c)
  <2>1. PICK s \in Starts : runID[s] = run
    BY <1>2, <1>7 DEF CallsInv
  <2>2. HasBegun(s)
    BY <1>2, <1>7, <2>1 DEF HasBegun
  <2>3. s \in Called
    BY <1>2, <2>2 DEF FormInv, SafetyInv, RunInv
  <2> QED
    BY <2>1, <2>2, <2>3
<1>11. acceptsRunEvent(run) <=> run \notin ui.retired
  BY <1>2, <1>10, WaitsForCurrent DEF acceptsRunEvent, PageInv
<1>12. \A i \in 1..(k - 1) : events[i].name \in Ends => events[i].run \in ui.retired
  BY <1>2, <1>5 DEF DeliveryInv
<1>13. CASE run \in ui.retired
  <2>1. ui' = ui
    BY <1>8, <1>11, <1>13 DEF applyEvent
  <2>2. Called' = Called /\ RequestedRun' = RequestedRun
    BY <1>1, <1>2 DEF Called, RequestedRun
  <2>3. DeliveryInv'
    BY <1>2, <1>5, <1>6, <1>12, <1>13, <2>1 DEF DeliveryInv
  <2>4. FormInv'
    BY <1>1, <1>2, <2>1, <2>2 DEF FormInv, Current, Retired, HasBegun
  <2>5. PageInv' /\ DesktopTypeOK'
    BY <1>1, <1>2, <1>5, <2>1, <2>2 DEF PageInv, Shown, DesktopTypeOK
  <2> QED
    BY <2>3, <2>4, <2>5 DEF PageKept
<1>14. CASE run \notin ui.retired
  <2>1. ui.accepting /\ Current(c) /\ RequestedRun = run /\ ui.run \in {NoRun, run} /\ acceptsRunEvent(run)
    BY <1>2, <1>10, <1>11, <1>14, WaitsForCurrent DEF PageInv
  <2>2. settled' \subseteq Call
    BY <1>1, <1>2 DEF DesktopTypeOK
  <2>3. ui.report = NoRun
    BY <1>2, <2>1 DEF PageInv
  <2>4. CASE name \in Ends
    <3>1. /\ ui' \in ExecutionState /\ ~ui'.accepting /\ ui'.retired = ui.retired \cup {run}
          /\ ui'.run = run
          /\ ui'.status = Announced(name)
          /\ ui'.report = IF name = "Completed" THEN run ELSE ui.report
      <4>1. CASE name = "Completed"
        BY <1>2, <1>7, <1>8, <2>1, <4>1 DEF applyEvent, finishRun, ExecutionState, RunStates, Announced
      <4>2. CASE name = "Failed"
        BY <1>2, <1>7, <1>8, <2>1, <4>2 DEF applyEvent, finishRun, ExecutionState, RunStates, Announced
      <4>3. CASE name = "Cancelled"
        BY <1>2, <1>7, <1>8, <2>1, <4>3 DEF applyEvent, finishRun, ExecutionState, RunStates, Announced
      <4> QED
        BY <2>4, <4>1, <4>2, <4>3 DEF Ends
    <3>2. pc[c] = "returned" /\ (name = "Completed" => run \in reports)
      BY <1>2, <1>9, <1>10, <2>1, <2>4, EndOfRun DEF Ends, Final
    <3>3. Shown(run, ui'.status)
      <4>1. k > 1 /\ events[k - 1] = Event(run, Announced(name))
        BY <1>2, <1>5, <1>6, <2>4 DEF EventOrder
      <4>2. k - 1 \in DOMAIN events
        BY <1>5, <4>1
      <4> QED
        BY <3>1, <4>1, <4>2 DEF Shown
    <3>4. \A i \in 1..delivered' : events[i].name \in Ends => events[i].run \in ui'.retired
      BY <1>5, <1>6, <1>12, <3>1
    <3>5. ui'.report \in {NoRun, run} /\ (ui'.report # NoRun => ui'.report \in reports)
      BY <2>3, <3>1, <3>2
    <3> QED
      BY <1>1, <1>5, <1>10, <2>1, <2>2, <3>1, <3>2, <3>3, <3>4, <3>5, Learns
  <2>5. CASE name \notin Ends
    <3>1. name # "idle"
      <4> SUFFICES ASSUME name = "idle" PROVE FALSE
        OBVIOUS
      <4>1. k > 1 /\ events[k - 1] = Event(run, "Cancelled")
        BY <1>2, <1>5, <1>6 DEF EventOrder, Announced
      <4>2. k - 1 \in 1..(k - 1) /\ events[k - 1].name \in Ends /\ events[k - 1].run = run
        BY <1>5, <4>1 DEF Event, Ends
      <4> QED
        BY <1>12, <1>14, <4>2
    <3>2. /\ ui' \in ExecutionState /\ ui'.accepting /\ ui'.retired = ui.retired /\ ui'.report = ui.report
          /\ ui'.confirmation = ui.confirmation /\ ui'.run = run
          /\ ui'.status = IF name = "Progress" THEN ui.status ELSE name
      <4>1. CASE name = "Progress"
        BY <1>2, <1>7, <1>8, <2>1, <4>1 DEF applyEvent, ExecutionState
      <4>2. CASE name # "Progress"
        <5>1. name \in RunStates
          BY <1>7, <2>5, <4>2 DEF Names, Ends
        <5>2. ui' = [ui EXCEPT !.status = name, !.run = run]
          BY <1>8, <2>1, <2>5, <3>1, <4>2 DEF applyEvent, applyStateEvent, Ends
        <5> QED
          BY <1>2, <1>7, <2>1, <4>2, <5>1, <5>2 DEF ExecutionState
      <4> QED
        BY <4>1, <4>2
    <3>3. /\ ui'.status # "idle"
          /\ ui'.status \in Outcomes => ui'.run # NoRun /\ Shown(ui'.run, ui'.status)
      <4>1. ui.status # "idle" /\ (ui.status \in Outcomes => ui.run # NoRun /\ Shown(ui.run, ui.status))
        BY <1>2, <2>1 DEF PageInv
      <4> QED
        BY <1>2, <1>7, <1>9, <2>1, <3>1, <3>2, <4>1
    <3>4. \A i \in 1..delivered' : events[i].name \in Ends => events[i].run \in ui'.retired
      BY <1>5, <1>6, <1>12, <2>5, <3>2
    <3>5. ui'.run \in {ui.run, RequestedRun}
      BY <2>1, <3>2
    <3> QED
      BY <1>1, <1>5, <2>1, <2>2, <3>2, <3>3, <3>4, <3>5, Waits
  <2> QED
    BY <2>4, <2>5
<1> QED
  BY <1>13, <1>14

\* The answer of StartBenchmark reaches the page.
LEMMA ResultKeepsPage ==
  ASSUME Inv, NEW c \in Starts, DeliverResult(c)
  PROVE  PageKept
<1>1. UNCHANGED <<vars, checking, calls, confirmed, asked, delivered>>
  BY DEF DeliverResult
<1>2. /\ DesktopTypeOK /\ FormInv /\ PageInv /\ DeliveryInv /\ SafetyInv /\ CallsInv
      /\ RunIDs' = RunIDs /\ ExecutionState' = ExecutionState /\ ui \in ExecutionState
      /\ NoRun \notin RunIDs
      /\ \A s : HasBegun(s)' <=> HasBegun(s)
      /\ \A r, n : Shown(r, n)' <=> Shown(r, n)
      /\ UNCHANGED <<nextRunID, reports, events, pc, runID>>
  BY <1>1, Parts
<1>3. TypeOK /\ c \in Call
  BY <1>2 DEF SafetyInv, Call
<1>4. pc[c] = "returned" /\ pending[c] = << >> /\ At(c, "returned")
  BY DEF DeliverResult, Answered, At
<1>5. c \in Called /\ HasBegun(c)
  BY <1>2, <1>4 DEF FormInv
<1>6. PICK run, state : run = result[c].run /\ state = result[c].state
  OBVIOUS
<1>7. run = runID[c] /\ run \in RunIDs
  <2>1. result[c].run = runID[c]
    BY <1>2, <1>4, <1>5 DEF CallsInv
  <2>2. runID[c] \in RunIDs
    BY <1>3, <1>5 DEF TypeOK, HasBegun
  <2> QED
    BY <1>6, <2>1, <2>2
<1>8. result[c].error \in BOOLEAN /\ state \in RunStates
  BY <1>3, <1>6 DEF TypeOK
<1>9. state \in {"completed", "failed", "cancelled", "awaiting-confirmation"}
  BY <1>2, <1>4, <1>5, <1>6, <1>8 DEF SafetyInv, ResultInv, Final, RunStates
<1>10. /\ Shown(run, state)
       /\ state = "completed" => Decided(run, "Completed")
  <2>1. \A n \in Final : Decided(runID[c], n) <=> Shown(runID[c], n)
    BY <1>2, <1>4, <1>5, EndsAreShown
  <2>2. Decided(runID[c], state) /\ (state = "completed" => Decided(runID[c], "Completed"))
    BY <1>2, <1>4, <1>5, <1>6 DEF SafetyInv, ResultInv
  <2> QED
    BY <1>7, <1>9, <2>1, <2>2 DEF Final
<1>11. settled' \subseteq Call /\ delivered' \in 0..Len(events)
  BY <1>1, <1>2, <1>3 DEF DeliverResult, DesktopTypeOK
<1>12. \A i \in 1..delivered' : events[i].name \in Ends => events[i].run \in ui.retired
  BY <1>1, <1>2 DEF DeliveryInv
<1>13. CASE run \in ui.retired
  <2>1. ui' = ui
    BY <1>6, <1>13 DEF DeliverResult, applyRPCResult
  <2>2. Called' = Called /\ RequestedRun' = RequestedRun
    BY <1>1, <1>2 DEF Called, RequestedRun
  <2>3. DeliveryInv'
    BY <1>2, <1>12, <2>1 DEF DeliveryInv
  <2>4. FormInv'
    BY <1>1, <1>2, <2>1, <2>2 DEF FormInv, Current, Retired, HasBegun
  <2>5. PageInv' /\ DesktopTypeOK'
    BY <1>1, <1>2, <1>11, <2>1, <2>2 DEF PageInv, Shown, DesktopTypeOK
  <2> QED
    BY <2>3, <2>4, <2>5 DEF PageKept
<1>14. CASE run \notin ui.retired
  <2>1. ui.accepting /\ Current(c) /\ RequestedRun = run /\ ui.run \in {NoRun, run}
    BY <1>2, <1>5, <1>7, <1>14, WaitsForCurrent DEF PageInv
  <2>2. ui' = applyStartResult(result[c])
    BY <1>6, <1>14, <2>1 DEF DeliverResult, applyRPCResult
  <2>3. ui.report = NoRun
    BY <1>2, <2>1 DEF PageInv
  <2>4. CASE state = "awaiting-confirmation"
    <3>1. ui' = [ui EXCEPT !.status = state, !.run = run, !.error = result[c].error]
      BY <1>6, <2>2, <2>4 DEF applyStartResult
    <3>2. /\ ui' \in ExecutionState /\ ui'.accepting /\ ui'.retired = ui.retired /\ ui'.report = ui.report
          /\ ui'.confirmation = ui.confirmation /\ ui'.run = run /\ ui'.status = state
      BY <1>2, <1>7, <1>8, <2>1, <3>1 DEF ExecutionState
    <3>3. \A i \in 1..delivered' : events[i].name \in Ends => events[i].run \in ui'.retired
      BY <1>12, <3>2
    <3>4. ui'.run \in {ui.run, RequestedRun} /\ ui'.status # "idle" /\ ui'.status \notin Outcomes
      BY <2>1, <2>4, <3>2 DEF Outcomes
    <3> QED
      BY <1>1, <1>11, <2>1, <3>2, <3>3, <3>4, Waits
  <2>5. CASE state # "awaiting-confirmation"
    <3>1. /\ ui' \in ExecutionState /\ ~ui'.accepting /\ ui'.retired = ui.retired \cup {run}
          /\ ui'.run = run /\ ui'.status = state
          /\ ui'.report = IF state = "completed" THEN run ELSE ui.report
      <4>1. CASE state = "completed"
        BY <1>2, <1>6, <1>7, <2>2, <4>1 DEF applyStartResult, finishRun, ExecutionState, RunStates
      <4>2. CASE state = "failed"
        BY <1>2, <1>6, <1>7, <2>2, <4>2 DEF applyStartResult, finishRun, ExecutionState, RunStates
      <4>3. CASE state = "cancelled"
        BY <1>2, <1>6, <1>7, <2>2, <4>3 DEF applyStartResult, finishRun, ExecutionState, RunStates
      <4> QED
        BY <1>9, <2>5, <4>1, <4>2, <4>3
    <3>2. state = "completed" => run \in reports
      BY <1>2, <1>5, <1>7, <1>10, <2>1, EndOfRun DEF Final
    <3>3. \A i \in 1..delivered' : events[i].name \in Ends => events[i].run \in ui'.retired
      BY <1>12, <3>1
    <3>4. ui'.report \in {NoRun, run} /\ (ui'.report # NoRun => ui'.report \in reports)
      BY <2>3, <3>1, <3>2
    <3>5. Shown(runID[c], ui'.status)
      BY <1>7, <1>10, <3>1
    <3>6. /\ ui'.retired = ui.retired \cup {runID[c]} /\ ui'.run = runID[c]
          /\ ui'.report \in {NoRun, runID[c]} /\ ~ui'.accepting /\ ui' \in ExecutionState
      BY <1>7, <3>1, <3>4
    <3>7. UNCHANGED <<vars, checking, calls, confirmed, asked>>
      BY <1>1
    <3> QED
      BY <1>4, <1>5, <1>11, <2>1, <3>3, <3>4, <3>5, <3>6, <3>7, Learns
  <2> QED
    BY <2>4, <2>5
<1> QED
  BY <1>13, <1>14

\* The answer of CancelBenchmark reaches the page.
LEMMA CancelResultKeepsPage ==
  ASSUME Inv, NEW c \in Cancels, DeliverCancelResult(c)
  PROVE  PageKept
<1>1. UNCHANGED <<vars, checking, calls, confirmed, asked, delivered>>
  BY DEF DeliverCancelResult
<1>2. /\ DesktopTypeOK /\ FormInv /\ PageInv /\ DeliveryInv /\ SafetyInv /\ CallsInv
      /\ RunIDs' = RunIDs /\ ExecutionState' = ExecutionState /\ ui \in ExecutionState
      /\ NoRun \notin RunIDs
      /\ \A s : HasBegun(s)' <=> HasBegun(s)
      /\ \A r, n : Shown(r, n)' <=> Shown(r, n)
      /\ UNCHANGED <<nextRunID, reports, events, pc, runID>>
  BY <1>1, Parts
<1>3. TypeOK /\ c \in Call
  BY <1>2 DEF SafetyInv, Call
<1>4. pc[c] = "returned" /\ asked[c] # NoRun
  BY <1>2 DEF DeliverCancelResult, Answered, At, FormInv
<1>5. settled' \subseteq Call /\ delivered' \in 0..Len(events)
  BY <1>1, <1>2, <1>3 DEF DeliverCancelResult, DesktopTypeOK
<1>6. \A i \in 1..delivered' : events[i].name \in Ends => events[i].run \in ui.retired
  BY <1>1, <1>2 DEF DeliveryInv
<1>7. CASE ui' = ui
  <2>1. Called' = Called /\ RequestedRun' = RequestedRun
    BY <1>1, <1>2 DEF Called, RequestedRun
  <2>2. DeliveryInv'
    BY <1>2, <1>6, <1>7 DEF DeliveryInv
  <2>3. FormInv'
    BY <1>1, <1>2, <1>7, <2>1 DEF FormInv, Current, Retired, HasBegun
  <2>4. PageInv' /\ DesktopTypeOK'
    BY <1>1, <1>2, <1>5, <1>7, <2>1 DEF PageInv, Shown, DesktopTypeOK
  <2> QED
    BY <2>2, <2>3, <2>4 DEF PageKept
<1>8. CASE ui' # ui
  <2>1. ui.run = asked[c] /\ ui.run \notin ui.retired /\ ui' = applyCancelResult(asked[c], result[c])
    BY <1>8 DEF DeliverCancelResult, cancelResolved
  <2>2. ui.run # NoRun /\ RequestedRun = ui.run
    BY <1>2, <1>4, <2>1 DEF PageInv
  <2>3. ui.accepting
    <3>1. calls # << >>
      BY <2>2 DEF RequestedRun
    <3>2. Last(calls) \in Called /\ runID[Last(calls)] = ui.run
      BY <1>2, <2>2, <3>1, CurrentCall
    <3> QED
      BY <1>2, <2>1, <3>2, WaitsForCurrent
  <2>4. /\ ui' \in ExecutionState /\ ui'.accepting /\ ui'.retired = ui.retired /\ ui'.report = ui.report
        /\ ui'.confirmation = ui.confirmation /\ ui'.run = ui.run
        /\ ui'.status \in {ui.status, "cancelling"}
    <3>1. CASE result[c].error
      <4>1. ui' = [ui EXCEPT !.error = TRUE]
        BY <2>1, <3>1 DEF applyCancelResult
      <4> QED
        BY <1>2, <2>3, <4>1 DEF ExecutionState
    <3>2. CASE ~result[c].error
      <4>1. result[c].state = "cancelling"
        BY <1>2, <1>4, <3>2 DEF CallsInv
      <4>2. ui' = [ui EXCEPT !.status = "cancelling", !.error = FALSE]
        BY <1>8, <2>1, <3>2, <4>1 DEF applyCancelResult
      <4> QED
        BY <1>2, <2>3, <4>2 DEF ExecutionState, RunStates
    <3> QED
      BY <3>1, <3>2
  <2>5. /\ ui'.status # "idle"
        /\ ui'.status \in Outcomes => ui'.run # NoRun /\ Shown(ui'.run, ui'.status)
    BY <1>2, <2>3, <2>4 DEF PageInv, Outcomes
  <2>6. \A i \in 1..delivered' : events[i].name \in Ends => events[i].run \in ui'.retired
    BY <1>6, <2>4
  <2> QED
    BY <1>1, <1>5, <2>3, <2>4, <2>5, <2>6, Waits
<1> QED
  BY <1>7, <1>8

-----------------------------------------------------------------------------
(* The invariant *)

\* The desktop application starts in the states of the invariant.
LEMMA DesktopStarts == DesktopInit => Inv
<1> SUFFICES ASSUME DesktopInit PROVE Inv
  OBVIOUS
<1>1. /\ Init
      /\ ui = initialExecutionState /\ checking = 0 /\ calls = << >> /\ confirmed = {}
      /\ asked = [c \in Cancels |-> NoRun] /\ settled = {} /\ delivered = 0
  BY DEF DesktopInit
<1>2. /\ nextRunID = 0 /\ events = << >> /\ active = Inactive
      /\ runID = [c \in Call |-> NoRun] /\ pc = [c \in Call |-> "uncalled"]
  BY <1>1 DEF Init
<1>3. Called = {} /\ RequestedRun = NoRun /\ RunIDs = {} /\ calls \in Seq(Starts)
  BY <1>1, <1>2 DEF Called, Range, RequestedRun, RunIDs
<1>4. \A c \in Call : pc[c] = "uncalled"
  BY <1>2
<1>5. SafetyInv /\ LogInv
  BY <1>1, InvariantInit
<1>6. EventOrder
  BY <1>2 DEF EventOrder
<1>7. CallsInv
  BY <1>2, <1>3, <1>4 DEF CallsInv, Call
<1>8. DesktopTypeOK
  BY <1>1, <1>2, <1>3 DEF DesktopTypeOK, initialExecutionState, RunStates
<1>9. FormInv
  BY <1>1, <1>3, <1>4 DEF FormInv, Call, initialExecutionState
<1>10. PageInv
  BY <1>1 DEF PageInv, initialExecutionState
<1>11. DeliveryInv
  BY <1>1 DEF DeliveryInv
<1> QED
  BY <1>5, <1>6, <1>7, <1>8, <1>9, <1>10, <1>11 DEF Inv, ServiceInv

\* Every step of the desktop application is a step of the service, or none of
\* it, and keeps the invariant.
LEMMA DesktopStep == ~Hasty /\ Inv /\ [DesktopNext]_desktop => Inv' /\ [Next]_vars
<1> SUFFICES ASSUME ~Hasty, Inv, [DesktopNext]_desktop PROVE Inv' /\ [Next]_vars
  OBVIOUS
<1>1. /\ SafetyInv /\ LogInv /\ EventOrder /\ CallsInv
      /\ DesktopTypeOK /\ FormInv /\ PageInv /\ DeliveryInv
  BY DEF Inv, ServiceInv
<1>2. ASSUME [Next]_vars, PageKept
      PROVE  Inv'
  BY <1>1, <1>2, InvariantStep, OrderStep, CallsStep DEF Inv, ServiceInv, PageKept
<1>3. CASE UNCHANGED desktop
  <2>1. UNCHANGED vars /\ UNCHANGED page
    BY <1>3 DEF desktop
  <2>2. UNCHANGED <<ui, checking, calls, confirmed, asked, settled, delivered, reports, events, pc, runID, nextRunID>>
    BY <2>1 DEF page, vars, service, emission
  <2>3. RunIDs' = RunIDs /\ Called' = Called /\ RequestedRun' = RequestedRun
    BY <2>2 DEF RunIDs, Called, RequestedRun
  <2>4. DesktopTypeOK' /\ DeliveryInv'
    BY <1>1, <2>2, <2>3 DEF DesktopTypeOK, DeliveryInv
  <2>5. FormInv'
    BY <1>1, <2>2, <2>3 DEF FormInv, Current, Retired, HasBegun
  <2>6. PageInv'
    BY <1>1, <2>2, <2>3 DEF PageInv, Shown
  <2> QED
    BY <1>2, <2>1, <2>4, <2>5, <2>6 DEF PageKept
<1>4. CASE Submit \/ Validated \/ Confirm \/ Dismiss \/ Reset \/ \E c \in Cancels : RequestCancel(c)
  <2>1. UNCHANGED vars
    BY <1>4 DEF Submit, Validated, Confirm, Dismiss, Reset, RequestCancel
  <2> QED
    BY <1>2, <1>4, <2>1, UserKeepsPage
<1>5. CASE DeliverEvent
  BY <1>2, <1>5, EventKeepsPage DEF DeliverEvent
<1>6. ASSUME NEW c \in Starts, DeliverResult(c)
      PROVE  Inv' /\ [Next]_vars
  BY <1>2, <1>6, ResultKeepsPage DEF DeliverResult
<1>7. ASSUME NEW c \in Cancels, DeliverCancelResult(c)
      PROVE  Inv' /\ [Next]_vars
  BY <1>2, <1>7, CancelResultKeepsPage DEF DeliverCancelResult
<1>8. CASE ServiceStep
  BY <1>1, <1>2, <1>8, ServiceBehind, ServiceKeepsPage DEF PageKept
<1> QED
  BY <1>3, <1>4, <1>5, <1>6, <1>7, <1>8 DEF DesktopNext, ServiceStep, Quiet

\* A user who waits for the event that retires an ended run never leaves the
\* states of the inductive invariant, and sees a service that runs as if it were
\* on its own.
THEOREM DesktopInvariant == ~Hasty => (DesktopSpec => []Inv /\ Spec)
<1> SUFFICES ASSUME ~Hasty PROVE DesktopSpec => []Inv /\ Spec
  OBVIOUS
<1>1. DesktopInit => Init
  BY DEF DesktopInit
<1>2. Inv /\ [DesktopNext]_desktop => Inv' /\ [Next]_vars
  BY DesktopStep
<1> QED
  BY <1>1, <1>2, DesktopStarts, PTL DEF DesktopSpec, Spec

-----------------------------------------------------------------------------
(* What needs no patience *)

\* Whoever uses the page, the answers of StartBenchmark name a run.
AnswersInv == \A s \in Starts : pc[s] = "returned" => result[s].run \in RunIDs

TypeInv ==
  /\ TypeOK /\ RunInv /\ AnswersInv /\ DesktopTypeOK
  /\ calls \in Seq(Starts)
  /\ asked \in [Cancels -> RunIDs \cup {NoRun}]

\* An event leaves the execution state well formed.
LEMMA EventType ==
  ASSUME ui \in ExecutionState, NEW run \in RunIDs, NEW name \in Names
  PROVE  applyEvent(run, name) \in ExecutionState
<1>1. CASE ~acceptsRunEvent(run)
  BY <1>1 DEF applyEvent
<1>2. CASE acceptsRunEvent(run) /\ name \in {"Progress", "Completed", "Failed", "Cancelled"}
  <2>1. \A status \in RunStates : finishRun(run, status) \in ExecutionState
    BY DEF finishRun, ExecutionState
  <2>2. CASE name = "Progress"
    BY <1>2, <2>2 DEF applyEvent, ExecutionState
  <2>3. CASE name = "Completed"
    <3>1. finishRun(run, "completed") \in ExecutionState
      BY <2>1 DEF RunStates
    <3>2. applyEvent(run, name) = [finishRun(run, "completed") EXCEPT !.report = run]
      BY <1>2, <2>3 DEF applyEvent
    <3> QED
      BY <3>1, <3>2 DEF ExecutionState
  <2>4. CASE name = "Failed"
    <3>1. finishRun(run, "failed") \in ExecutionState
      BY <2>1 DEF RunStates
    <3>2. applyEvent(run, name) = [finishRun(run, "failed") EXCEPT !.error = TRUE]
      BY <1>2, <2>4 DEF applyEvent
    <3> QED
      BY <3>1, <3>2 DEF ExecutionState
  <2>5. CASE name = "Cancelled"
    BY <1>2, <2>1, <2>5 DEF applyEvent, RunStates
  <2> QED
    BY <1>2, <2>2, <2>3, <2>4, <2>5
<1>3. CASE acceptsRunEvent(run) /\ name \notin {"Progress", "Completed", "Failed", "Cancelled"}
  <2>1. applyEvent(run, name) = applyStateEvent(run, name) /\ name \in RunStates
    BY <1>3 DEF applyEvent, Names
  <2>2. CASE name = "idle" /\ ui.status = "cancelled"
    <3>1. applyEvent(run, name) = [ui EXCEPT !.accepting = FALSE, !.retired = ui.retired \cup {run}]
      BY <2>1, <2>2 DEF applyStateEvent
    <3> QED
      BY <3>1 DEF ExecutionState
  <2>3. CASE ~(name = "idle" /\ ui.status = "cancelled")
    BY <2>1, <2>3 DEF applyStateEvent, ExecutionState
  <2> QED
    BY <2>1, <2>2, <2>3
<1> QED
  BY <1>1, <1>2, <1>3

\* So does an answer of StartBenchmark.
LEMMA ResultType ==
  ASSUME ui \in ExecutionState, NEW answer \in [run : RunIDs, state : RunStates, error : BOOLEAN]
  PROVE  applyRPCResult(answer) \in ExecutionState
<1>1. \A status \in RunStates : finishRun(answer.run, status) \in ExecutionState
  BY DEF finishRun, ExecutionState
<1>2. applyStartResult(answer) \in ExecutionState
  <2>1. CASE answer.state = "completed"
    <3>1. finishRun(answer.run, "completed") \in ExecutionState
      BY <1>1 DEF RunStates
    <3>2. applyStartResult(answer) = [finishRun(answer.run, "completed") EXCEPT !.report = answer.run]
      BY <2>1 DEF applyStartResult
    <3> QED
      BY <3>1, <3>2 DEF ExecutionState
  <2>2. CASE answer.state = "failed"
    <3>1. finishRun(answer.run, "failed") \in ExecutionState
      BY <1>1 DEF RunStates
    <3>2. applyStartResult(answer) = [finishRun(answer.run, "failed") EXCEPT !.error = TRUE]
      BY <2>2 DEF applyStartResult
    <3> QED
      BY <3>1, <3>2 DEF ExecutionState
  <2>3. CASE answer.state = "cancelled"
    BY <1>1, <2>3 DEF applyStartResult, RunStates
  <2>4. CASE answer.state \notin {"completed", "failed", "cancelled"}
    <3>1. applyStartResult(answer) = [ui EXCEPT !.status = answer.state, !.run = answer.run, !.error = answer.error]
      BY <2>4 DEF applyStartResult
    <3> QED
      BY <3>1 DEF ExecutionState
  <2> QED
    BY <2>1, <2>2, <2>3, <2>4
<1> QED
  BY <1>2 DEF applyRPCResult

\* Every answer of StartBenchmark names its run, or the one in its way.
LEMMA AnswersStep == TypeOK /\ RunInv /\ AnswersInv /\ [Next]_vars => AnswersInv'
<1> SUFFICES ASSUME TypeOK, RunInv, AnswersInv, [Next]_vars, NEW s \in Starts, pc'[s] = "returned"
             PROVE  result'[s].run \in RunIDs'
  BY DEF AnswersInv
<1>1. TypeOK'
  BY TypeStep
<1>2. /\ Starts \subseteq Call /\ Cancels \subseteq Call /\ s \in Call /\ s \notin Cancels
      /\ nextRunID' \in Nat /\ nextRunID \in Nat /\ nextRunID <= nextRunID'
  <2>1. nextRunID' = nextRunID \/ nextRunID' = nextRunID + 1
    BY DEF Next, Start, BeginRun, Validate, SetRunning, Progress, RunReturns, FinishRun, Cancel, Emit,
           vars, service
  <2> QED
    BY <1>1, <2>1, ServiceAssumption DEF Call, TypeOK
<1>3. RunIDs \subseteq RunIDs'
  BY <1>2 DEF RunIDs
<1>4. CASE pc[s] = "returned" /\ result'[s] = result[s]
  BY <1>3, <1>4 DEF AnswersInv
<1>5. CASE active # Inactive /\ result'[s].run = active.id
  BY <1>3, <1>5 DEF TypeOK
<1>6. CASE Owns(s) /\ result'[s].run = runID[s]
  BY <1>2, <1>3, <1>6 DEF TypeOK, RunInv, HasBegun
<1> DEFINE Answers ==
      \/ pc[s] = "returned" /\ result'[s] = result[s]
      \/ active # Inactive /\ result'[s].run = active.id
      \/ Owns(s) /\ result'[s].run = runID[s]
<1>7. ASSUME NEW c \in Starts, BeginRun(c)
      PROVE  Answers
  <2>1. CASE active # Inactive
    <3>1. /\ pc' = [pc EXCEPT ![c] = "returned"]
          /\ result' = [result EXCEPT ![c] = Result(active.id, active.state, TRUE)]
      BY <1>7, <2>1 DEF BeginRun, Return, Goto
    <3> QED
      BY <1>2, <2>1, <3>1 DEF TypeOK, Result
  <2>2. CASE active = Inactive
    <3>1. pc' = [pc EXCEPT ![c] = "validate"] /\ result' = result
      BY <1>7, <2>2 DEF BeginRun, Goto
    <3> QED
      BY <1>2, <3>1 DEF TypeOK
  <2> QED
    BY <2>1, <2>2
<1>8. ASSUME NEW c \in Starts, Validate(c) \/ SetRunning(c) \/ Progress(c) \/ RunReturns(c)
      PROVE  Answers
  <2>1. /\ result' = result
        /\ \E label \in {"setRunning", "run", "finish"} : pc' = [pc EXCEPT ![c] = label] \/ pc' = pc
    BY <1>8 DEF Validate, SetRunning, Progress, RunReturns, Goto
  <2> QED
    BY <1>2, <2>1 DEF TypeOK
<1>9. ASSUME NEW c \in Starts, FinishRun(c)
      PROVE  Answers
  <2>1. /\ Owns(c) /\ pc'[c] = "returned"
        /\ \A d \in Starts \ {c} : pc'[d] = pc[d] /\ result'[d] = result[d]
    BY <1>9, Finished
  <2>2. result'[c].run = runID[c]
    <3>1. PICK state, error : result' = [result EXCEPT ![c] = Result(runID[c], state, error)]
      BY <1>9 DEF FinishRun, Return
    <3> QED
      BY <1>2, <3>1 DEF TypeOK, Result
  <2> QED
    BY <2>1, <2>2
<1>10. ASSUME NEW c \in Cancels, NEW run \in 0..nextRunID, Cancel(c, run)
       PROVE  Answers
  BY <1>2, <1>10 DEF Cancel, Return, Goto, TypeOK
<1>11. ASSUME UNCHANGED <<pc, result>>
       PROVE  Answers
  BY <1>11
<1>12. Answers
  BY <1>7, <1>8, <1>9, <1>10, <1>11 DEF Next, Start, Emit, vars
<1> QED
  BY <1>4, <1>5, <1>6, <1>12

\* Runs and events only become more.
LEMMA Grows ==
  ASSUME TypeOK, [Next]_vars
  PROVE  /\ RunIDs \subseteq RunIDs'
         /\ Len(events) \in Nat /\ Len(events') \in Nat /\ Len(events) <= Len(events')
<1>1. nextRunID \in Nat /\ (nextRunID' = nextRunID \/ nextRunID' = nextRunID + 1)
  BY DEF Next, Start, BeginRun, Validate, SetRunning, Progress, RunReturns, FinishRun, Cancel, Emit,
         vars, service, TypeOK
<1>2. events \in Seq([run : RunIDs, name : Names])
  BY DEF TypeOK
<1>3. \/ UNCHANGED events
      \/ \E c \in Call : events' = Append(events, Head(pending[c]))
  BY DEF Next, Start, BeginRun, Validate, SetRunning, Progress, RunReturns, FinishRun, Cancel, Emit,
         Announce, emission, vars
<1>4. ASSUME NEW event, events' = Append(events, event)
      PROVE  Len(events') = Len(events) + 1
  BY <1>2, <1>4 
<1> QED
  BY <1>1, <1>2, <1>3, <1>4 DEF RunIDs

\* The execution state, and what belongs to it, are well formed after a step of
\* the page.
LEMMA PageTypes ==
  ASSUME TypeInv, UNCHANGED vars, ui' \in ExecutionState, checking' \in Nat,
         calls' \in Seq(Starts), Called' \subseteq Starts, confirmed' \subseteq Called',
         asked' \in [Cancels -> RunIDs \cup {NoRun}], settled' \subseteq Call,
         delivered' \in 0..Len(events)
  PROVE  TypeInv'
<1>1. /\ TypeOK /\ RunInv /\ AnswersInv
      /\ UNCHANGED <<active, nextRunID, contexts, reports, eventMu, pending, events, pc, runID, causes, result>>
  BY DEF TypeInv, vars, service, emission
<1>2. RunIDs' = RunIDs /\ ExecutionState' = ExecutionState
  BY <1>1 DEF RunIDs, ExecutionState
<1>3. TypeOK'
  BY <1>1, TypeStep DEF vars
<1>4. RunInv'
  BY <1>1, RunStep DEF vars
<1>5. AnswersInv'
  BY <1>1, <1>2 DEF AnswersInv
<1>6. DesktopTypeOK'
  BY <1>1, <1>2 DEF DesktopTypeOK, ExecutionState
<1> QED
  BY <1>2, <1>3, <1>4, <1>5, <1>6 DEF TypeInv

\* A call that is made is one of the calls afterwards.
LEMMA CallType ==
  ASSUME TypeInv, NEW request \in BOOLEAN, execute(request), UNCHANGED vars
  PROVE  /\ ui' \in ExecutionState /\ calls' \in Seq(Starts)
         /\ Called' \subseteq Starts /\ confirmed' \subseteq Called'
<1>1. PICK c \in Starts \ Called :
        /\ calls' = Append(calls, c)
        /\ confirmed' = IF request THEN confirmed \cup {c} ELSE confirmed
        /\ ui' = [ui EXCEPT !.status = "validating", !.run = NoRun, !.accepting = TRUE,
                            !.confirmed = request, !.report = NoRun, !.error = FALSE,
                            !.confirmation = FALSE]
  BY DEF execute
<1>2. /\ ui \in ExecutionState /\ calls \in Seq(Starts) /\ Called \subseteq Starts
      /\ confirmed \subseteq Called
  BY DEF TypeInv, DesktopTypeOK, ExecutionState
<1>3. ui' \in ExecutionState
  BY <1>1, <1>2 DEF ExecutionState, RunStates
<1>4. /\ Len(calls) \in Nat /\ DOMAIN calls = 1..Len(calls)
      /\ calls' \in Seq(Starts) /\ DOMAIN calls' = 1..(Len(calls) + 1)
      /\ \A i \in 1..Len(calls) : calls'[i] = calls[i]
      /\ calls'[Len(calls) + 1] = c
  BY <1>1, <1>2, AppendProperties
<1>5. Called' = Called \cup {c}
  BY <1>4 DEF Called, Range
<1> QED
  BY <1>1, <1>2, <1>3, <1>4, <1>5

\* Whatever the user does, the variables keep their types, and the service runs
\* as if it were on its own.
LEMMA TypesKept == TypeInv /\ [DesktopNext]_desktop => TypeInv' /\ [Next]_vars
<1> SUFFICES ASSUME TypeInv, [DesktopNext]_desktop PROVE TypeInv' /\ [Next]_vars
  OBVIOUS
<1>1. /\ TypeOK /\ RunInv /\ AnswersInv /\ DesktopTypeOK
      /\ calls \in Seq(Starts) /\ Called \subseteq Starts /\ confirmed \subseteq Called
      /\ asked \in [Cancels -> RunIDs \cup {NoRun}] /\ settled \subseteq Call
      /\ ui \in ExecutionState /\ checking \in Nat /\ delivered \in 0..Len(events)
  BY DEF TypeInv, DesktopTypeOK, ExecutionState
<1>2. /\ events \in Seq([run : RunIDs, name : Names]) /\ Len(events) \in Nat
      /\ Starts \subseteq Call /\ Cancels \subseteq Call /\ nextRunID \in Nat
  BY <1>1 DEF TypeOK, Call
<1>3. ASSUME UNCHANGED <<checking, calls, confirmed, asked, delivered>>
      PROVE  /\ checking' \in Nat /\ calls' \in Seq(Starts) /\ Called' \subseteq Starts
             /\ confirmed' \subseteq Called' /\ asked' \in [Cancels -> RunIDs \cup {NoRun}]
             /\ delivered' \in 0..Len(events)
  BY <1>1, <1>3 DEF Called
<1>4. ASSUME NEW status \in RunStates
      PROVE  [initialExecutionState EXCEPT !.status = status, !.retired = ui.retired] \in ExecutionState
  BY <1>1 DEF initialExecutionState, ExecutionState, RunStates
<1>5. CASE Submit
  <2>1. ui' \in ExecutionState
    BY <1>4, <1>5 DEF Submit, RunStates
  <2>2. /\ UNCHANGED <<vars, calls, confirmed, asked, settled, delivered>>
        /\ checking' = checking + 1 /\ Called' = Called
    BY <1>5 DEF Submit, Called
  <2> QED
    BY <1>1, <2>1, <2>2, PageTypes
<1>6. CASE Validated
  <2>1. UNCHANGED <<vars, asked, settled, delivered>> /\ checking' \in Nat
    BY <1>1, <1>6 DEF Validated
  <2>2. CASE execute(FALSE)
    BY <1>1, <2>1, <2>2, CallType, PageTypes
  <2>3. CASE UNCHANGED <<calls, confirmed>> /\ ui' \in ExecutionState
    <3>1. Called' = Called
      BY <2>3 DEF Called
    <3> QED
      BY <1>1, <2>1, <2>3, <3>1, PageTypes
  <2>4. \/ execute(FALSE)
        \/ UNCHANGED <<calls, confirmed>> /\ ui' \in ExecutionState
    <3>1. [ui EXCEPT !.status = "failed", !.accepting = FALSE, !.error = TRUE] \in ExecutionState
      BY <1>1 DEF ExecutionState, RunStates
    <3>2. [ui EXCEPT !.status = "awaiting-confirmation", !.confirmed = TRUE,
                     !.confirmation = TRUE, !.error = FALSE] \in ExecutionState
      BY <1>1 DEF ExecutionState, RunStates
    <3> QED
      BY <1>6, <3>1, <3>2 DEF Validated
  <2> QED
    BY <2>2, <2>3, <2>4
<1>7. CASE Confirm
  <2>1. /\ UNCHANGED <<vars, checking, asked, settled, delivered>>
        /\ execute(ui.confirmed) /\ ui.confirmed \in BOOLEAN
    BY <1>1, <1>7 DEF Confirm, ExecutionState
  <2> QED
    BY <1>1, <2>1, CallType, PageTypes
<1>8. CASE Dismiss
  <2>1. ui' \in ExecutionState
    BY <1>1, <1>8 DEF Dismiss, ExecutionState, RunStates
  <2> QED
    BY <1>1, <1>3, <1>8, <2>1, PageTypes DEF Dismiss
<1>9. CASE Reset
  <2>1. ui' = [initialExecutionState EXCEPT !.retired = ui.retired]
    BY <1>9 DEF Reset
  <2>2. ui' \in ExecutionState
    BY <1>1, <2>1 DEF initialExecutionState, ExecutionState, RunStates
  <2> QED
    BY <1>1, <1>3, <1>9, <2>2, PageTypes DEF Reset
<1>10. ASSUME NEW c \in Cancels, RequestCancel(c)
       PROVE  TypeInv' /\ [Next]_vars
  <2>1. /\ UNCHANGED <<vars, ui, checking, calls, confirmed, settled, delivered>>
        /\ asked' = [asked EXCEPT ![c] = ui.run]
    BY <1>10 DEF RequestCancel
  <2>2. asked' \in [Cancels -> RunIDs \cup {NoRun}] /\ Called' = Called
    BY <1>1, <2>1 DEF ExecutionState, Called
  <2> QED
    BY <1>1, <2>1, <2>2, PageTypes
<1>11. CASE DeliverEvent
  <2>1. /\ delivered' = delivered + 1 /\ delivered' \in 1..Len(events)
        /\ ui' = applyEvent(events[delivered'].run, events[delivered'].name)
        /\ UNCHANGED <<vars, checking, calls, confirmed, asked, settled>>
    BY <1>1, <1>2, <1>11 DEF DeliverEvent
  <2>2. events[delivered'] \in [run : RunIDs, name : Names]
    BY <1>2, <2>1, ElementOfSeq
  <2>3. ui' \in ExecutionState
    BY <1>1, <2>1, <2>2, EventType
  <2>4. Called' = Called /\ delivered' \in 0..Len(events)
    BY <1>2, <2>1 DEF Called
  <2> QED
    BY <1>1, <2>1, <2>3, <2>4, PageTypes
<1>12. ASSUME NEW c \in Starts, DeliverResult(c)
       PROVE  TypeInv' /\ [Next]_vars
  <2>1. /\ UNCHANGED <<vars, checking, calls, confirmed, asked, delivered>>
        /\ pc[c] = "returned" /\ settled' = settled \cup {c} /\ ui' = applyRPCResult(result[c])
    BY <1>12 DEF DeliverResult, Answered, At
  <2>2. result[c] \in [run : RunIDs, state : RunStates, error : BOOLEAN]
    <3>1. result[c].run \in RunIDs
      BY <1>1, <2>1 DEF AnswersInv
    <3>2. result[c] \in [run : RunIDs \cup {NoRun}, state : RunStates, error : BOOLEAN]
      BY <1>1, <1>2 DEF TypeOK
    <3> QED
      BY <3>1, <3>2
  <2>3. ui' \in ExecutionState
    BY <1>1, <2>1, <2>2, ResultType
  <2>4. settled' \subseteq Call
    BY <1>1, <1>2, <2>1
  <2> QED
    BY <1>1, <1>3, <2>1, <2>3, <2>4, PageTypes
<1>13. ASSUME NEW c \in Cancels, DeliverCancelResult(c)
       PROVE  TypeInv' /\ [Next]_vars
  <2>1. /\ UNCHANGED <<vars, checking, calls, confirmed, asked, delivered>>
        /\ settled' = settled \cup {c} /\ ui' = cancelResolved(asked[c], result[c])
    BY <1>13 DEF DeliverCancelResult
  <2>2. result[c].state \in RunStates
    BY <1>1, <1>2 DEF TypeOK
  <2>3. ui' \in {ui, [ui EXCEPT !.error = TRUE], [ui EXCEPT !.status = result[c].state, !.error = FALSE]}
    BY <2>1 DEF cancelResolved, applyCancelResult
  <2>4. ui' \in ExecutionState
    BY <1>1, <2>2, <2>3 DEF ExecutionState
  <2>5. settled' \subseteq Call
    BY <1>1, <1>2, <2>1
  <2> QED
    BY <1>1, <1>3, <2>1, <2>4, <2>5, PageTypes
<1>14. CASE ServiceStep
  <2>1. UNCHANGED page
    BY <1>14 DEF ServiceStep, StartStep, CancelStep
  <2>2. UNCHANGED <<ui, checking, calls, confirmed, asked, settled, delivered>> /\ Called' = Called
    BY <2>1 DEF page, Called
  <2>3. [Next]_vars
    <3>1. ASSUME NEW c \in Cancels, CancelStep(c)
          PROVE  Next
      <4>1. asked[c] \in 0..nextRunID
        BY <1>1, <1>2 DEF NoRun, RunIDs
      <4> QED
        BY <3>1, <4>1 DEF CancelStep, Next
    <3> QED
      BY <1>14, <3>1 DEF ServiceStep, StartStep, Next
  <2>4. TypeOK' /\ RunInv' /\ AnswersInv'
    BY <1>1, <2>3, TypeStep, RunStep, AnswersStep
  <2>5. RunIDs \subseteq RunIDs' /\ Len(events') \in Nat /\ Len(events) <= Len(events')
    BY <1>1, <2>3, Grows
  <2>6. DesktopTypeOK' /\ asked' \in [Cancels -> RunIDs' \cup {NoRun}] /\ calls' \in Seq(Starts)
    BY <1>1, <1>2, <2>2, <2>5 DEF DesktopTypeOK
  <2> QED
    BY <2>3, <2>4, <2>6 DEF TypeInv
<1>15. CASE UNCHANGED desktop
  <2>1. UNCHANGED vars /\ UNCHANGED page
    BY <1>15 DEF desktop
  <2>2. UNCHANGED <<ui, settled, checking, calls, confirmed, asked, delivered>>
    BY <2>1 DEF page
  <2> QED
    BY <1>1, <1>3, <2>1, <2>2, PageTypes
<1> QED
  BY <1>5, <1>6, <1>7, <1>8, <1>9, <1>10, <1>11, <1>12, <1>13, <1>14, <1>15 DEF DesktopNext, ServiceStep, Quiet

\* The types hold to begin with.
LEMMA TypesStart == DesktopInit => TypeInv
<1> SUFFICES ASSUME DesktopInit PROVE TypeInv
  OBVIOUS
<1>1. /\ TypeOK /\ RunInv /\ DesktopTypeOK /\ calls \in Seq(Starts)
      /\ asked \in [Cancels -> RunIDs \cup {NoRun}]
  BY DesktopStarts DEF Inv, ServiceInv, SafetyInv, FormInv
<1>2. \A s \in Starts : pc[s] = "uncalled"
  BY DEF DesktopInit, Init, Call
<1> QED
  BY <1>1, <1>2 DEF TypeInv, AnswersInv

\* Whatever the user does, what the page holds has the type state.ts gives it.
THEOREM DesktopTypeCorrect == DesktopSpec => []DesktopTypeOK
<1>1. TypeInv => DesktopTypeOK
  BY DEF TypeInv
<1> QED
  BY <1>1, TypesStart, TypesKept, PTL DEF DesktopSpec

\* The desktop application uses the service as any other front end would: what is
\* proved of the service holds behind the page, too.
THEOREM DesktopRunsService == DesktopSpec => Spec
<1>1. DesktopInit => Init
  BY DEF DesktopInit
<1> QED
  BY <1>1, TypesStart, TypesKept, PTL DEF DesktopSpec, Spec

\* Nothing the page receives, be it a late event or the late answer of a call,
\* changes an outcome whose run it has retired, whatever the user does.
THEOREM OutcomesAreFinal == DesktopSpec => FinishedStaysFinished
<1> DEFINE Receives == delivered' # delivered \/ settled' # settled
           Kept == ui'.status = ui.status /\ ui'.run = ui.run /\ ui'.report = ui.report
<1>1. ASSUME TypeInv, [DesktopNext]_desktop, Receives, ui.run \in ui.retired
      PROVE  Kept
  <2>1. NoRun \notin ui.retired
    BY <1>1 DEF TypeInv, TypeOK, DesktopTypeOK, NoRun, RunIDs
  <2>2. CASE DeliverEvent
    <3>1. \A run : ~acceptsRunEvent(run)
      BY <1>1, <2>1 DEF acceptsRunEvent
    <3> QED
      BY <2>2, <3>1 DEF DeliverEvent, applyEvent
  <2>3. ASSUME NEW c \in Starts, DeliverResult(c)
        PROVE  Kept
    <3>1. result[c].run \in ui.retired \/ ui.run \notin {NoRun, result[c].run}
      BY <1>1, <2>1
    <3> QED
      BY <2>3, <3>1 DEF DeliverResult, applyRPCResult
  <2>4. ASSUME NEW c \in Cancels, DeliverCancelResult(c)
        PROVE  Kept
    <3>1. ui.run # asked[c] \/ asked[c] \in ui.retired
      BY <1>1
    <3> QED
      BY <2>4, <3>1 DEF DeliverCancelResult, cancelResolved
  <2> QED
    BY <1>1, <2>2, <2>3, <2>4
       DEF DesktopNext, Submit, Validated, Confirm, Dismiss, Reset, RequestCancel, StartStep, CancelStep,
           Quiet, page, desktop
<1>2. TypeInv /\ [DesktopNext]_desktop =>
        [Receives /\ ui.run \in ui.retired /\ ui.status \in Outcomes => Kept]_desktop
  BY <1>1
<1> QED
  BY <1>2, TypesStart, TypesKept, PTL DEF DesktopSpec, FinishedStaysFinished

-----------------------------------------------------------------------------
(* What a user sees who waits for the event that retires an ended run *)

\* The page shows the run it asked for last, and an outcome only if that run's
\* events have announced it.
THEOREM PageFollowsItsRun == ~Hasty => (DesktopSpec => []PageShowsItsRun)
<1> SUFFICES ASSUME ~Hasty PROVE DesktopSpec => []PageShowsItsRun
  OBVIOUS
<1>1. Inv => PageShowsItsRun
  BY DEF Inv, PageInv, PageShowsItsRun
<1>2. DesktopSpec => []Inv
  BY DesktopInvariant, PTL
<1> QED
  BY <1>1, <1>2, PTL

\* A report is shown as long as the service keeps it for export.
THEOREM ShownReportIsKept == ~Hasty => (DesktopSpec => []ShownReportCanBeExported)
<1> SUFFICES ASSUME ~Hasty PROVE DesktopSpec => []ShownReportCanBeExported
  OBVIOUS
<1>1. Inv => ShownReportCanBeExported
  BY DEF Inv, PageInv, ShownReportCanBeExported, showsResults
<1>2. DesktopSpec => []Inv
  BY DesktopInvariant, PTL
<1> QED
  BY <1>1, <1>2, PTL

\* The form asks for a run only when the service is ready to begin one.
THEOREM FormIsNeverRefused == ~Hasty => (DesktopSpec => []StartIsNeverRefused)
<1> SUFFICES ASSUME ~Hasty PROVE DesktopSpec => []StartIsNeverRefused
  OBVIOUS
<1>1. Inv => StartIsNeverRefused
  BY CalledType DEF Inv, FormInv, StartIsNeverRefused, At
<1>2. DesktopSpec => []Inv
  BY DesktopInvariant, PTL
<1> QED
  BY <1>1, <1>2, PTL
=============================================================================
