----------------------------- MODULE ServiceProofs -----------------------------
(***************************************************************************)
(* The run control of the application service for any number of calls.     *)
(* The properties of Service speak of the events that listeners have been  *)
(* shown, and are broken while a call still holds eventMu.  The inductive  *)
(* invariant therefore speaks of the events that have been decided: shown, *)
(* or pending in a call.  To decide on them is one step with the change of *)
(* the state they announce, and to emit them changes nothing about them.   *)
(***************************************************************************)
EXTENDS Service, SequenceTheorems, TLAPS

Owns(c) == pc[c] \in {"validate", "setRunning", "run", "finish"}

\* The active run is the last one and belongs to one call, which has not
\* returned; it has no report yet, and nobody but CancelBenchmark cancels it.
RunInv ==
  /\ active # Inactive => active.id = nextRunID
  /\ active.id \notin reports
  /\ active.id \in contexts => active.state = "cancelling"
  /\ \A c \in Starts :
       /\ Owns(c) => HasBegun(c) /\ active.id = runID[c]
       /\ pc[c] = "uncalled" => ~HasBegun(c)
       /\ pc[c] = "returned" /\ HasBegun(c) => active.id # runID[c]
  /\ \A c, d \in Starts : HasBegun(c) /\ runID[c] = runID[d] => c = d
  /\ \A c \in Cancels : ~Owns(c)

\* What the place of a call says about the state of its run.
PlaceInv ==
  \A c \in Starts :
    /\ pc[c] \in {"validate", "setRunning"} => active.state \in {"validating", "cancelling"}
    /\ pc[c] = "run" => active.state \in {"running", "cancelling"}
    /\ pc[c] = "finish" =>
         \/ active.state = "cancelling"
         \/ active.state = "validating" /\ causes[c] \in {{"validation"}, {"confirmation"}}
         \/ active.state = "running" /\ causes[c] \in {{}, {"io"}}

Pending(run, name) ==
  \E c \in Call : \E i \in DOMAIN pending[c] : pending[c][i] = Event(run, name)
Decided(run, name) == Shown(run, name) \/ Pending(run, name)

Final == {"completed", "failed", "cancelled", "awaiting-confirmation", "idle",
          "Completed", "Failed", "Cancelled"}

\* A call has yet to emit events of its own run, which is the last one; those
\* of CancelBenchmark announce no end.
PendingInv ==
  \A c \in Call : \A i \in DOMAIN pending[c] :
    /\ pending[c][i].run = runID[c] /\ runID[c] = nextRunID
    /\ c \in Cancels => pending[c][i].name = "cancelling"

\* No end of the active run has been decided.
OpenInv == active # Inactive => \A name \in Final : ~Decided(active.id, name)

\* A call returns what has been decided about its run.
ResultInv ==
  \A s \in Starts : HasBegun(s) /\ pc[s] = "returned" =>
    /\ result[s].state \in Final \ {"idle"}
    /\ Decided(runID[s], result[s].state)
    /\ Decided(runID[s], "Completed") <=> result[s].state = "completed"
    /\ Decided(runID[s], "Failed") <=> result[s].state = "failed"
    /\ Decided(runID[s], "Cancelled") <=> result[s].state = "cancelled"
    /\ result[s].error <=> Decided(runID[s], "Failed") \/ "confirmation" \in causes[s]

\* A call has returned for its run, as cancelled.
ReturnedCancelled(s) ==
  /\ result[s].run = runID[s] /\ result[s].state = "cancelled"
  /\ result[s].error <=> "confirmation" \in causes[s]

\* A run whose cancellation has been accepted is cancelling until it is returned
\* as cancelled.
CancelInv ==
  \A c \in Cancels, s \in Starts : HasBegun(s) /\ runID[s] = runID[c] =>
    /\ Owns(s) => active.state = "cancelling"
    /\ pc[s] = "returned" => ReturnedCancelled(s)
    /\ runID[s] \notin reports

\* The report that is kept is that of the last run that has completed.
ReportInv ==
  reports = {r \in RunIDs :
    Decided(r, "Completed") /\ \A later \in (r + 1)..nextRunID : ~Decided(later, "Completed")}

\* What the last event has told listeners, and whether they know of a
\* cancellation of the last run.
Shows(names, asked) ==
  /\ lastEvent.run = nextRunID
  /\ lastEvent.name \in names
  /\ Shown(nextRunID, "cancelling") <=> asked

Pends(c, names) ==
  /\ Len(pending[c]) = Len(names)
  /\ \A i \in 1..Len(names) : pending[c][i] = Event(nextRunID, names[i])

\* Listeners know the state of the service when eventMu is free.
Settled ==
  /\ active = Inactive => lastEvent.run = nextRunID /\ lastEvent.name \in Lifecycle!Over
  /\ active.state = "validating" => Shows({"validating"}, FALSE)
  /\ active.state = "running" => Shows({"running", "Progress"}, FALSE)
  /\ active.state = "cancelling" => Shows({"cancelling", "Progress"}, TRUE)

\* What a call emits that has finished its run, and after which events.
Ending(c) ==
  \/ Pends(c, <<"cancelled", "Cancelled", "idle">>) /\ Shows({"cancelling", "Progress"}, TRUE)
  \/ Pends(c, <<"Cancelled", "idle">>) /\ Shows({"cancelled"}, TRUE)
  \/ Pends(c, <<"idle">>) /\ Shows({"Cancelled"}, TRUE)
  \/ Pends(c, <<"failed", "Failed">>) /\ Shows({"validating", "running", "Progress"}, FALSE)
  \/ Pends(c, <<"Failed">>) /\ Shows({"failed"}, FALSE)
  \/ Pends(c, <<"completed", "Completed">>) /\ Shows({"running", "Progress"}, FALSE)
  \/ Pends(c, <<"Completed">>) /\ Shows({"completed"}, FALSE)
  \/ Pends(c, <<"awaiting-confirmation">>) /\ Shows({"validating"}, FALSE)

\* The same for a call that has changed the state of the active run.
Changing(c) ==
  \/ /\ active.state = "validating" /\ Pends(c, <<"validating">>)
     /\ lastEvent.run = nextRunID - 1 /\ lastEvent.name \in Lifecycle!Over
     /\ ~Shown(nextRunID, "cancelling")
  \/ active.state = "running" /\ Pends(c, <<"running">>) /\ Shows({"validating"}, FALSE)
  \/ active.state = "running" /\ Pends(c, <<"Progress">>) /\ Shows({"running", "Progress"}, FALSE)
  \/ active.state = "cancelling" /\ Pends(c, <<"Progress">>) /\ Shows({"cancelling", "Progress"}, TRUE)
  \/ /\ active.state = "cancelling" /\ Pends(c, <<"cancelling">>)
     /\ Shows({"validating", "running", "Progress"}, FALSE) \/ Shows({"cancelling", "Progress"}, TRUE)

LogInv ==
  /\ eventMu = Free => Settled
  /\ \A c \in Call : pending[c] # << >> =>
       (active = Inactive /\ Ending(c)) \/ (active # Inactive /\ Changing(c))

SafetyInv == TypeOK /\ RunInv /\ PlaceInv /\ PendingInv /\ OpenInv /\ ResultInv /\ CancelInv /\ ReportInv

-----------------------------------------------------------------------------
(* Events *)

\* The empty sequence is the one of length 0.
LEMMA EmptyIfNoElement ==
  ASSUME NEW S, NEW seq \in Seq(S)
  PROVE  seq = << >> <=> Len(seq) = 0
BY EmptySeq

\* Events that were well-formed stay so when another run has begun.
LEMMA EventsOfMoreRuns ==
  ASSUME NEW Few, NEW Many, Few \subseteq Many,
         NEW list \in Seq([run : Few, name : Names])
  PROVE  list \in Seq([run : Many, name : Names])
<1>1. [run : Few, name : Names] \subseteq [run : Many, name : Names]
  OBVIOUS
<1> QED
  BY <1>1, SeqMonotonic

\* What Announce leaves to be emitted.
LEMMA Announcement ==
  ASSUME TypeOK, NEW c \in Call, NEW run \in Nat, NEW names \in Seq(Names), Announce(c, run, names)
  PROVE  /\ pending'[c] \in Seq([run : {run}, name : Names])
         /\ Len(pending'[c]) = Len(names)
         /\ DOMAIN pending'[c] = 1..Len(names)
         /\ \A i \in 1..Len(names) : pending'[c][i] = Event(run, names[i])
         /\ \A d \in Call \ {c} : pending'[d] = pending[d]
         /\ DOMAIN pending' = Call
         /\ pending' = [d \in Call |-> pending'[d]]
         /\ eventMu' = c
         /\ events' = events
<1>1. /\ DOMAIN names = 1..Len(names)
      /\ Len(names) \in Nat
      /\ \A i \in 1..Len(names) : names[i] \in Names
  OBVIOUS
<1> DEFINE list == [i \in DOMAIN names |-> Event(run, names[i])]
<1>2. list = [i \in 1..Len(names) |-> Event(run, names[i])]
  BY <1>1
<1>3. \A i \in 1..Len(names) : Event(run, names[i]) \in [run : {run}, name : Names]
  BY <1>1 DEF Event
<1>4. list \in Seq([run : {run}, name : Names]) /\ Len(list) = Len(names)
  BY <1>1, <1>2, <1>3
<1>5. DOMAIN pending = Call /\ pending' = [pending EXCEPT ![c] = list]
  BY DEF TypeOK, Announce
<1> QED
  BY <1>1, <1>2, <1>4, <1>5 DEF Announce

\* An event is a run and a name.
LEMMA EventsDiffer == \A r, n, s, m : Event(r, n) = Event(s, m) <=> r = s /\ n = m
BY DEF Event

\* To announce events is to decide on them.
LEMMA AnnounceDecides ==
  ASSUME TypeOK, NEW c \in Call, NEW run \in Nat, NEW names \in Seq(Names),
         Announce(c, run, names), pending[c] = << >>
  PROVE  \A r, n : Decided(r, n)' <=> Decided(r, n) \/ (r = run /\ \E i \in 1..Len(names) : n = names[i])
<1> SUFFICES ASSUME NEW r, NEW n
             PROVE  Decided(r, n)' <=> Decided(r, n) \/ (r = run /\ \E i \in 1..Len(names) : n = names[i])
  OBVIOUS
<1>1. Shown(r, n)' <=> Shown(r, n)
  BY Announcement DEF Shown
<1>2. ASSUME Pending(r, n)
      PROVE  Pending(r, n)'
  <2>1. PICK d \in Call : \E i \in DOMAIN pending[d] : pending[d][i] = Event(r, n)
    BY <1>2 DEF Pending
  <2>2. d # c
    BY <2>1
  <2> QED
    BY <2>1, <2>2, Announcement DEF Pending
<1>3. ASSUME NEW d \in Call, NEW i \in DOMAIN pending'[d], pending'[d][i] = Event(r, n)
      PROVE  Pending(r, n) \/ (r = run /\ \E j \in 1..Len(names) : n = names[j])
  <2>1. CASE d = c
    <3>1. i \in 1..Len(names) /\ Event(run, names[i]) = Event(r, n)
      BY <1>3, <2>1, Announcement
    <3> QED
      BY <3>1, EventsDiffer
  <2>2. CASE d # c
    BY <1>3, <2>2, Announcement DEF Pending
  <2> QED
    BY <2>1, <2>2
<1>4. ASSUME r = run, NEW j \in 1..Len(names), n = names[j]
      PROVE  Pending(r, n)'
  BY <1>4, Announcement DEF Pending
<1> QED
  BY <1>1, <1>2, <1>3, <1>4 DEF Decided, Pending

\* To emit an event moves it from the end of what is pending to what is shown.
LEMMA Emission ==
  ASSUME TypeOK, NEW c \in Call, Emit(c)
  PROVE  /\ pending[c] # << >> /\ Len(pending[c]) \in Nat \ {0}
         /\ DOMAIN pending[c] = 1..Len(pending[c])
         /\ pending[c][1] \in [run : RunIDs, name : Names]
         /\ events' = Append(events, pending[c][1])
         /\ events' \in Seq([run : RunIDs, name : Names])
         /\ \A r, n : Shown(r, n)' <=> Shown(r, n) \/ pending[c][1] = Event(r, n)
         /\ lastEvent' = pending[c][1]
         /\ pending'[c] \in Seq([run : RunIDs, name : Names])
         /\ Len(pending'[c]) = Len(pending[c]) - 1
         /\ DOMAIN pending'[c] = 1..(Len(pending[c]) - 1)
         /\ \A i \in 1..(Len(pending[c]) - 1) : pending'[c][i] = pending[c][i + 1]
         /\ \A d \in Call \ {c} : pending'[d] = pending[d]
         /\ pending' = [d \in Call |-> pending'[d]]
<1> DEFINE S == [run : RunIDs, name : Names]
           p == pending[c]
<1>1. p # << >> /\ p \in Seq(S) /\ events \in Seq(S)
  BY DEF TypeOK, Emit
<1>2. Len(p) \in Nat \ {0} /\ DOMAIN p = 1..Len(p) /\ Head(p) = p[1] /\ p[1] \in S
  <2>1. Len(p) \in Nat \ {0} /\ DOMAIN p = 1..Len(p)
    BY <1>1, EmptySeq
  <2>2. 1 \in 1..Len(p)
    BY <2>1
  <2>3. p[1] \in S
    BY <1>1, <2>2, ElementOfSeq
  <2> QED
    BY <1>1, <2>1, <2>3
<1>3. events' = Append(events, p[1]) /\ events' \in Seq(S)
  BY <1>1, <1>2 DEF Emit
<1>4. /\ Len(events') = Len(events) + 1
      /\ DOMAIN events' = 1..(Len(events) + 1)
      /\ DOMAIN events = 1..Len(events)
      /\ Len(events) \in Nat
      /\ events'[Len(events) + 1] = p[1]
      /\ \A i \in 1..Len(events) : events'[i] = events[i]
  BY <1>1, <1>2, <1>3
<1>5. ASSUME NEW r, NEW n
      PROVE  Shown(r, n)' <=> Shown(r, n) \/ p[1] = Event(r, n)
  <2>1. ASSUME NEW i \in DOMAIN events', events'[i] = Event(r, n)
        PROVE  Shown(r, n) \/ p[1] = Event(r, n)
    BY <1>4, <2>1 DEF Shown
  <2>2. ASSUME Shown(r, n)
        PROVE  Shown(r, n)'
    BY <1>4, <2>2 DEF Shown
  <2>3. ASSUME p[1] = Event(r, n)
        PROVE  Shown(r, n)'
    <3>1. Len(events) + 1 \in DOMAIN events' /\ events'[Len(events) + 1] = Event(r, n)
      BY <1>4, <2>3
    <3> QED
      BY <3>1 DEF Shown
  <2> QED
    BY <2>1, <2>2, <2>3 DEF Shown
<1>6. lastEvent' = p[1]
  <2>1. events' # << >>
    BY <1>4
  <2> QED
    BY <1>4, <2>1 DEF lastEvent, Last
<1>7. /\ Tail(p) \in Seq(S)
      /\ Len(Tail(p)) = Len(p) - 1
      /\ DOMAIN Tail(p) = 1..(Len(p) - 1)
      /\ \A i \in 1..(Len(p) - 1) : Tail(p)[i] = p[i + 1]
  BY <1>1, <1>2, HeadTailProperties
<1>8. DOMAIN pending = Call /\ pending' = [pending EXCEPT ![c] = Tail(p)]
  BY DEF TypeOK, Emit
<1>9. /\ pending'[c] = Tail(p)
      /\ \A d \in Call \ {c} : pending'[d] = pending[d]
      /\ pending' = [d \in Call |-> pending'[d]]
  BY <1>8
<1> QED
  BY <1>1, <1>2, <1>3, <1>5, <1>6, <1>7, <1>9

\* To emit an event does not change what has been decided.
LEMMA EmitKeepsDecided ==
  ASSUME TypeOK, NEW c \in Call, Emit(c)
  PROVE  \A r, n : Decided(r, n)' <=> Decided(r, n)
<1> SUFFICES ASSUME NEW r, NEW n
             PROVE  Decided(r, n)' <=> Decided(r, n)
  OBVIOUS
<1>1. Shown(r, n)' <=> Shown(r, n) \/ pending[c][1] = Event(r, n)
  BY Emission
<1>2. ASSUME pending[c][1] = Event(r, n)
      PROVE  Pending(r, n)
  BY <1>2, Emission DEF Pending
<1>3. ASSUME NEW d \in Call, NEW i \in DOMAIN pending'[d], pending'[d][i] = Event(r, n)
      PROVE  Pending(r, n)
  <2>1. CASE d = c
    <3>1. i + 1 \in DOMAIN pending[c] /\ pending[c][i + 1] = Event(r, n)
      BY <1>3, <2>1, Emission
    <3> QED
      BY <3>1 DEF Pending
  <2>2. CASE d # c
    BY <1>3, <2>2, Emission DEF Pending
  <2> QED
    BY <2>1, <2>2
<1>4. ASSUME NEW d \in Call, NEW i \in DOMAIN pending[d], pending[d][i] = Event(r, n)
      PROVE  Pending(r, n)' \/ pending[c][1] = Event(r, n)
  <2>1. CASE d = c /\ i # 1
    <3>1. i \in 1..Len(pending[c]) /\ Len(pending[c]) \in Nat
      BY <1>4, <2>1, Emission
    <3>2. i - 1 \in 1..(Len(pending[c]) - 1) /\ (i - 1) + 1 = i
      BY <2>1, <3>1
    <3>3. i - 1 \in DOMAIN pending'[c] /\ pending'[c][i - 1] = pending[c][i]
      BY <3>2, Emission
    <3> QED
      BY <1>4, <2>1, <3>3 DEF Pending
  <2>2. CASE d # c
    BY <1>4, <2>2, Emission DEF Pending
  <2> QED
    BY <1>4, <2>1, <2>2
<1> QED
  BY <1>1, <1>2, <1>3, <1>4 DEF Decided, Pending

\* A run ends in one of four states, and its last events say which.
LEMMA LastEvents ==
  ASSUME NEW c \in Starts
  PROVE  /\ finalState(c) \in {"completed", "failed", "cancelled", "awaiting-confirmation"}
         /\ lastEvents(finalState(c)) \in Seq(Names)
         /\ lastEvents(finalState(c)) # << >>
<1>1. finalState(c) \in {"completed", "failed", "cancelled", "awaiting-confirmation"}
  BY DEF finalState, target
<1>2. /\ lastEvents("completed") = <<"completed", "Completed">>
      /\ lastEvents("failed") = <<"failed", "Failed">>
      /\ lastEvents("cancelled") = <<"cancelled", "Cancelled", "idle">>
      /\ lastEvents("awaiting-confirmation") = <<"awaiting-confirmation">>
  BY DEF lastEvents
<1>3. /\ <<"completed", "Completed">> \in Seq(Names) \ {<< >>}
      /\ <<"failed", "Failed">> \in Seq(Names) \ {<< >>}
      /\ <<"cancelled", "Cancelled", "idle">> \in Seq(Names) \ {<< >>}
      /\ <<"awaiting-confirmation">> \in Seq(Names) \ {<< >>}
  BY DEF Names, RunStates
<1> QED
  BY <1>1, <1>2, <1>3

-----------------------------------------------------------------------------
(* The inductive step, one lemma for each conjunct of the invariant and in *)
(* it one step for each action.                                            *)

\* What announcing events does to the variables that hold them.
LEMMA AnnounceTypes ==
  ASSUME TypeOK, NEW c \in Call, NEW run \in RunIDs', NEW names \in Seq(Names), names # << >>,
         Lock, Announce(c, run, names), nextRunID' \in Nat, nextRunID <= nextRunID'
  PROVE  /\ events' \in Seq([run : RunIDs', name : Names])
         /\ pending' \in [Call -> Seq([run : RunIDs', name : Names])]
         /\ eventMu' \in Call \cup {Free}
         /\ \A d \in Call : eventMu' = d <=> pending'[d] # << >>
<1> DEFINE S == Seq([run : RunIDs', name : Names])
<1>1. run \in Nat
  BY DEF RunIDs
<1>2. events' \in S /\ eventMu' \in Call \cup {Free}
  <2>1. RunIDs \subseteq RunIDs'
    BY DEF TypeOK, RunIDs
  <2>2. events \in Seq([run : RunIDs, name : Names])
    BY DEF TypeOK
  <2>3. events \in S
    BY <2>1, <2>2, EventsOfMoreRuns
  <2> QED
    BY <1>1, <2>3, Announcement
<1>3. ASSUME NEW d \in Call
      PROVE  pending'[d] \in S /\ (eventMu' = d <=> pending'[d] # << >>)
  <2>1. CASE d = c
    <3>1. {run} \subseteq RunIDs'
      OBVIOUS
    <3>2. pending'[c] \in S
      <4>1. pending'[c] \in Seq([run : {run}, name : Names])
        BY <1>1, Announcement
      <4> QED
        BY <3>1, <4>1, EventsOfMoreRuns
    <3>3. pending'[c] # << >>
      <4>1. Len(names) # 0
        BY EmptySeq
      <4> QED
        BY <1>1, <4>1, Announcement, EmptySeq
    <3> QED
      BY <1>1, <2>1, <3>2, <3>3, Announcement
  <2>2. CASE d # c
    <3>1. pending'[d] = pending[d] /\ eventMu' = c
      BY <1>1, <2>2, Announcement
    <3>2. pending[d] = << >>
      BY <1>1, ServiceAssumption DEF TypeOK, Lock, Call
    <3> QED
      BY <2>2, <3>1, <3>2, EmptySeq
  <2> QED
    BY <2>1, <2>2
<1> QED
  BY <1>1, <1>2, <1>3, Announcement

\* What returning does to the variables of the call.
LEMMA ReturnTypes ==
  ASSUME TypeOK, NEW c \in Call, NEW run \in RunIDs \cup {NoRun}, NEW state \in RunStates,
         NEW error \in BOOLEAN, Return(c, run, state, error)
  PROVE  /\ result' \in [Call -> [run : RunIDs \cup {NoRun}, state : RunStates, error : BOOLEAN]]
         /\ pc' \in [Call -> {"uncalled", "validate", "setRunning", "run", "finish", "returned"}]
<1>1. Result(run, state, error) \in [run : RunIDs \cup {NoRun}, state : RunStates, error : BOOLEAN]
  BY DEF Result
<1> QED
  BY <1>1 DEF TypeOK, Return, Goto

\* Every step keeps the types.
LEMMA TypeStep == TypeOK /\ RunInv /\ [Next]_vars => TypeOK'
<1> SUFFICES ASSUME TypeOK, RunInv, [Next]_vars PROVE TypeOK'
  OBVIOUS
<1> USE DEF Call, NoRun
<1>1. ASSUME NEW c \in Starts, BeginRun(c)
      PROVE  TypeOK'
  <2>1. CASE active # Inactive
    <3>1. active.id \in RunIDs /\ active.state \in RunStates
      BY <2>1 DEF TypeOK, RunStates
    <3>2. Return(c, active.id, active.state, TRUE) /\ UNCHANGED <<service, emission, runID, causes>>
      BY <1>1, <2>1 DEF BeginRun
    <3> QED
      BY <3>1, <3>2, ReturnTypes DEF TypeOK, RunIDs, service, emission
  <2>2. CASE active = Inactive
    <3>1. /\ nextRunID' = nextRunID + 1 /\ nextRunID \in Nat
          /\ runID' = [runID EXCEPT ![c] = nextRunID']
          /\ active' = [id |-> nextRunID', state |-> "validating"]
          /\ Announce(c, nextRunID', <<"validating">>)
          /\ pc' = [pc EXCEPT ![c] = "validate"]
          /\ UNCHANGED <<contexts, reports, result, causes>>
      BY <1>1, <2>2 DEF TypeOK, BeginRun, Goto
    <3>2. nextRunID' \in Nat /\ nextRunID <= nextRunID' /\ nextRunID' \in RunIDs' /\ RunIDs \subseteq RunIDs'
      BY <3>1 DEF RunIDs
    <3>3. <<"validating">> \in Seq(Names) /\ <<"validating">> # << >>
      BY DEF Names, RunStates
    <3>4. /\ events' \in Seq([run : RunIDs', name : Names])
          /\ pending' \in [Call -> Seq([run : RunIDs', name : Names])]
          /\ eventMu' \in Call \cup {Free}
          /\ \A d \in Call : eventMu' = d <=> pending'[d] # << >>
      BY <1>1, <3>1, <3>2, <3>3, AnnounceTypes DEF BeginRun
    <3>5. /\ runID' \in [Call -> RunIDs' \cup {NoRun}]
          /\ result' \in [Call -> [run : RunIDs' \cup {NoRun}, state : RunStates, error : BOOLEAN]]
      BY <3>1, <3>2 DEF TypeOK
    <3> QED
      BY <3>1, <3>2, <3>4, <3>5 DEF TypeOK
  <2> QED
    BY <2>1, <2>2
<1>2. ASSUME NEW c \in Starts, Validate(c)
      PROVE  TypeOK'
  <2>1. causes' \in [Starts -> SUBSET {"validation", "confirmation", "canceled", "io", "remove"}]
    BY <1>2 DEF TypeOK, Validate
  <2>2. pc' \in [Call -> {"uncalled", "validate", "setRunning", "run", "finish", "returned"}]
    BY <1>2 DEF TypeOK, Validate, Goto
  <2> QED
    BY <1>2, <2>1, <2>2 DEF TypeOK, Validate, service, emission, RunIDs
<1>3. ASSUME NEW c \in Starts, SetRunning(c)
      PROVE  TypeOK'
  <2>1. CASE active.id # runID[c] \/ active.state = "cancelling"
    <3>1. /\ causes' = [causes EXCEPT ![c] = {"canceled"}]
          /\ pc' = [pc EXCEPT ![c] = "finish"]
          /\ UNCHANGED <<active, nextRunID, contexts, reports, emission, runID, result>>
      BY <1>3, <2>1 DEF SetRunning, Goto
    <3>2. causes' \in [Starts -> SUBSET {"validation", "confirmation", "canceled", "io", "remove"}]
      BY <3>1 DEF TypeOK
    <3>3. pc' \in [Call -> {"uncalled", "validate", "setRunning", "run", "finish", "returned"}]
      BY <3>1 DEF TypeOK
    <3> QED
      BY <3>1, <3>2, <3>3 DEF TypeOK, RunIDs, emission
  <2>2. CASE ~(active.id # runID[c] \/ active.state = "cancelling")
    <3>1. runID[c] \in RunIDs /\ active # Inactive
      BY <1>3, <2>2 DEF TypeOK, RunInv, Owns, HasBegun, SetRunning, At, Inactive
    <3>2. <<"running">> \in Seq(Names) /\ <<"running">> # << >>
      BY DEF Names, RunStates
    <3>3. Lock /\ Announce(c, runID[c], <<"running">>) /\ UNCHANGED <<nextRunID, contexts, reports, runID, result, causes>>
      BY <1>3, <2>2 DEF SetRunning
    <3>4. RunIDs' = RunIDs /\ nextRunID' \in Nat /\ nextRunID <= nextRunID'
      BY <3>3 DEF TypeOK, RunIDs
    <3>5. /\ events' \in Seq([run : RunIDs', name : Names])
          /\ pending' \in [Call -> Seq([run : RunIDs', name : Names])]
          /\ eventMu' \in Call \cup {Free}
          /\ \A d \in Call : eventMu' = d <=> pending'[d] # << >>
      BY <3>1, <3>2, <3>3, <3>4, AnnounceTypes
    <3>6. active' \in [id : RunIDs, state : {"validating", "running", "cancelling"}]
      BY <1>3, <2>2, <3>1 DEF TypeOK, SetRunning
    <3>7. pc' \in [Call -> {"uncalled", "validate", "setRunning", "run", "finish", "returned"}]
      BY <1>3, <2>2 DEF TypeOK, SetRunning, Goto
    <3> QED
      BY <3>3, <3>4, <3>5, <3>6, <3>7 DEF TypeOK
  <2> QED
    BY <2>1, <2>2
<1>4. ASSUME NEW c \in Starts, Progress(c)
      PROVE  TypeOK'
  <2>1. runID[c] \in RunIDs
    BY <1>4 DEF TypeOK, RunInv, Owns, HasBegun, Progress, At
  <2>2. <<"Progress">> \in Seq(Names) /\ <<"Progress">> # << >>
    BY DEF Names
  <2>3. Lock /\ Announce(c, runID[c], <<"Progress">>) /\ UNCHANGED <<service, pc, runID, result, causes>>
    BY <1>4 DEF Progress
  <2>4. RunIDs' = RunIDs /\ nextRunID' \in Nat /\ nextRunID <= nextRunID'
    BY <2>3 DEF TypeOK, RunIDs, service
  <2>5. /\ events' \in Seq([run : RunIDs', name : Names])
        /\ pending' \in [Call -> Seq([run : RunIDs', name : Names])]
        /\ eventMu' \in Call \cup {Free}
        /\ \A d \in Call : eventMu' = d <=> pending'[d] # << >>
    BY <2>1, <2>2, <2>3, <2>4, AnnounceTypes
  <2> QED
    BY <2>3, <2>4, <2>5 DEF TypeOK, service
<1>5. ASSUME NEW c \in Starts, RunReturns(c)
      PROVE  TypeOK'
  <2>1. causes' \in [Starts -> SUBSET {"validation", "confirmation", "canceled", "io", "remove"}]
    BY <1>5 DEF TypeOK, RunReturns
  <2>2. pc' \in [Call -> {"uncalled", "validate", "setRunning", "run", "finish", "returned"}]
    BY <1>5 DEF TypeOK, RunReturns, Goto
  <2> QED
    BY <1>5, <2>1, <2>2 DEF TypeOK, RunReturns, service, emission, RunIDs
<1>6. ASSUME NEW c \in Starts, FinishRun(c)
      PROVE  TypeOK'
  <2>1. runID[c] \in RunIDs
    BY <1>6 DEF TypeOK, RunInv, Owns, HasBegun, FinishRun, At
  <2>2. /\ Lock /\ Announce(c, runID[c], lastEvents(finalState(c)))
        /\ Return(c, runID[c], finalState(c), returnedError(c))
        /\ UNCHANGED <<nextRunID, runID, causes>>
    BY <1>6 DEF FinishRun, returnedState
  <2>3. RunIDs' = RunIDs /\ nextRunID' \in Nat /\ nextRunID <= nextRunID'
    BY <2>2 DEF TypeOK, RunIDs
  <2>4. /\ events' \in Seq([run : RunIDs', name : Names])
        /\ pending' \in [Call -> Seq([run : RunIDs', name : Names])]
        /\ eventMu' \in Call \cup {Free}
        /\ \A d \in Call : eventMu' = d <=> pending'[d] # << >>
    BY <2>1, <2>2, <2>3, LastEvents, AnnounceTypes
  <2>5. /\ result' \in [Call -> [run : RunIDs \cup {NoRun}, state : RunStates, error : BOOLEAN]]
        /\ pc' \in [Call -> {"uncalled", "validate", "setRunning", "run", "finish", "returned"}]
    <3>1. finalState(c) \in RunStates /\ returnedError(c) \in BOOLEAN
      BY LastEvents DEF RunStates, returnedError
    <3> QED
      BY <2>1, <2>2, <3>1, ReturnTypes
  <2>7. /\ contexts' \subseteq RunIDs /\ reports' \subseteq RunIDs
        /\ active' \in [id : RunIDs, state : {"validating", "running", "cancelling"}] \cup {Inactive}
    BY <1>6, <2>1 DEF TypeOK, FinishRun, keptReports
  <2> QED
    BY <2>2, <2>3, <2>4, <2>5, <2>7 DEF TypeOK
<1>7. ASSUME NEW c \in Cancels, NEW run \in 0..nextRunID, Cancel(c, run)
      PROVE  TypeOK'
  <2>1. CASE active = Inactive \/ run \notin {NoRun, active.id}
    <3>1. active.id \in RunIDs \cup {NoRun} /\ active.state \in RunStates
      BY DEF TypeOK, RunStates, Inactive
    <3>2. Return(c, active.id, active.state, TRUE) /\ UNCHANGED <<service, emission, runID, causes>>
      BY <1>7, <2>1 DEF Cancel, service
    <3> QED
      BY <3>1, <3>2, ReturnTypes DEF TypeOK, RunIDs, service, emission
  <2>2. CASE ~(active = Inactive \/ run \notin {NoRun, active.id})
    <3>1. /\ active' = [active EXCEPT !.state = "cancelling"]
          /\ contexts' = contexts \cup {active.id}
          /\ runID' = [runID EXCEPT ![c] = active.id]
          /\ Lock /\ Announce(c, active.id, <<"cancelling">>)
          /\ Return(c, active.id, "cancelling", FALSE)
          /\ UNCHANGED <<nextRunID, reports, causes>>
      BY <1>7, <2>2 DEF Cancel
    <3>2. active \in [id : RunIDs, state : {"validating", "running", "cancelling"}]
      BY <2>2 DEF TypeOK
    <3>3. <<"cancelling">> \in Seq(Names) /\ <<"cancelling">> # << >>
      BY DEF Names, RunStates
    <3>4. RunIDs' = RunIDs /\ nextRunID' \in Nat /\ nextRunID <= nextRunID'
      BY <3>1 DEF TypeOK, RunIDs
    <3>5. /\ events' \in Seq([run : RunIDs', name : Names])
          /\ pending' \in [Call -> Seq([run : RunIDs', name : Names])]
          /\ eventMu' \in Call \cup {Free}
          /\ \A d \in Call : eventMu' = d <=> pending'[d] # << >>
      BY <3>1, <3>2, <3>3, <3>4, AnnounceTypes
    <3>6. /\ active' \in [id : RunIDs, state : {"validating", "running", "cancelling"}]
          /\ contexts' \subseteq RunIDs
          /\ runID' \in [Call -> RunIDs \cup {NoRun}]
      BY <3>1, <3>2 DEF TypeOK
    <3>7. /\ result' \in [Call -> [run : RunIDs \cup {NoRun}, state : RunStates, error : BOOLEAN]]
          /\ pc' \in [Call -> {"uncalled", "validate", "setRunning", "run", "finish", "returned"}]
      BY <3>1, <3>2, ReturnTypes DEF RunStates
    <3> QED
      BY <3>1, <3>4, <3>5, <3>6, <3>7 DEF TypeOK
  <2> QED
    BY <2>1, <2>2
<1>8. ASSUME NEW c \in Call, Emit(c)
      PROVE  TypeOK'
  <2>1. /\ eventMu' = IF Len(pending[c]) = 1 THEN Free ELSE eventMu
        /\ UNCHANGED <<service, pc, runID, causes, result>>
        /\ eventMu = c
    BY <1>8 DEF TypeOK, Emit
  <2>2. ASSUME NEW d \in Call
        PROVE  /\ pending'[d] \in Seq([run : RunIDs, name : Names])
               /\ eventMu' = d <=> pending'[d] # << >>
    <3>1. CASE d = c
      <4>1. /\ pending'[c] \in Seq([run : RunIDs, name : Names])
            /\ Len(pending'[c]) = Len(pending[c]) - 1
            /\ Len(pending[c]) \in Nat
        BY <1>8, Emission
      <4>2. pending'[c] = << >> <=> Len(pending'[c]) = 0
        BY <4>1, EmptyIfNoElement
      <4> QED
        BY <2>1, <3>1, <4>1, <4>2, ServiceAssumption
    <3>2. CASE d # c
      <4>1. pending'[d] = pending[d] /\ pending[d] = << >>
        BY <1>8, <2>1, <3>2, Emission DEF TypeOK
      <4> QED
        BY <2>1, <3>2, <4>1, ServiceAssumption, EmptySeq
    <3> QED
      BY <3>1, <3>2
  <2>3. pending' \in [Call -> Seq([run : RunIDs, name : Names])]
    BY <1>8, <2>2, Emission
  <2>4. events' \in Seq([run : RunIDs, name : Names]) /\ RunIDs' = RunIDs
    BY <1>8, <2>1, Emission DEF service, RunIDs
  <2> QED
    BY <2>1, <2>2, <2>3, <2>4 DEF TypeOK, service
<1>9. CASE UNCHANGED vars
  BY <1>9 DEF TypeOK, vars, service, emission, RunIDs
<1> QED
  BY <1>1, <1>2, <1>3, <1>4, <1>5, <1>6, <1>7, <1>8, <1>9 DEF Next, Start

\* An active run has a number that is not NoRun.
LEMMA ActiveRun ==
  ASSUME TypeOK
  PROVE  /\ active # Inactive => active.id \in RunIDs /\ active.id # NoRun
         /\ active = Inactive => active.id = NoRun /\ active.state = "idle"
         /\ active # Inactive => active.state \in {"validating", "running", "cancelling"}
         /\ NoRun \notin RunIDs /\ NoRun \notin contexts /\ NoRun \notin reports
         /\ nextRunID + 1 \notin RunIDs /\ nextRunID + 1 # NoRun
BY DEF TypeOK, Inactive, NoRun, RunIDs

\* The call that takes a step with its run owns the active run.
LEMMA OwnsRun ==
  ASSUME TypeOK, RunInv, NEW c \in Starts, Owns(c)
  PROVE  /\ active.id = runID[c] /\ active # Inactive /\ runID[c] = nextRunID
         /\ runID[c] \in RunIDs /\ HasBegun(c)
         /\ \A d \in Starts \ {c} : ~Owns(d) /\ runID[d] # runID[c]
<1>1. active.id = runID[c] /\ HasBegun(c)
  BY DEF RunInv
<1>2. active # Inactive
  BY <1>1, ActiveRun DEF HasBegun
<1>3. runID[c] = nextRunID /\ runID[c] \in RunIDs
  BY <1>1, <1>2, ActiveRun DEF RunInv
<1>4. ASSUME NEW d \in Starts \ {c}
      PROVE  ~Owns(d) /\ runID[d] # runID[c]
  BY <1>1 DEF RunInv
<1> QED
  BY <1>1, <1>2, <1>3, <1>4

\* Every step leaves at most one run active.
LEMMA RunStep == TypeOK /\ RunInv /\ [Next]_vars => RunInv'
<1> SUFFICES ASSUME TypeOK, RunInv, [Next]_vars PROVE RunInv'
  OBVIOUS
<1>1. ASSUME NEW c \in Starts, BeginRun(c)
      PROVE  RunInv'
  <2>1. CASE active # Inactive
    <3>1. pc' = [pc EXCEPT ![c] = "returned"] /\ pc[c] = "uncalled" /\ UNCHANGED <<service, runID>>
      BY <1>1, <2>1 DEF BeginRun, Return, Goto, At
    <3>2. \A d \in Call : d # c => pc'[d] = pc[d]
      BY <3>1 DEF TypeOK
    <3>3. ~HasBegun(c) /\ pc'[c] = "returned"
      BY <3>1 DEF RunInv, TypeOK, Call
    <3> QED
      BY <3>1, <3>2, <3>3, ServiceAssumption DEF RunInv, Owns, HasBegun, service, Call
  <2>2. CASE active = Inactive
    <3>1. /\ nextRunID' = nextRunID + 1
          /\ runID' = [runID EXCEPT ![c] = nextRunID + 1]
          /\ active' = [id |-> nextRunID + 1, state |-> "validating"]
          /\ pc' = [pc EXCEPT ![c] = "validate"]
          /\ UNCHANGED <<contexts, reports>>
      BY <1>1, <2>2 DEF BeginRun, Goto
    <3>2. /\ \A d \in Call : d # c => pc'[d] = pc[d] /\ runID'[d] = runID[d]
          /\ pc'[c] = "validate" /\ runID'[c] = nextRunID + 1
      BY <3>1 DEF TypeOK, Call
    <3>3. \A d \in Call : runID[d] # nextRunID + 1
      BY ActiveRun DEF TypeOK
    <3>4. active'.id \notin reports /\ active'.id \notin contexts /\ active'.id = nextRunID' /\ active'.id # NoRun
      BY <3>1, ActiveRun DEF TypeOK
    <3>5. ASSUME NEW d \in Starts \ {c}
          PROVE  ~Owns(d)
      BY <2>2, <3>1, ActiveRun DEF RunInv, HasBegun
    <3> QED
      BY <3>1, <3>2, <3>3, <3>4, <3>5, ServiceAssumption DEF RunInv, Owns, HasBegun, Call
  <2> QED
    BY <2>1, <2>2
<1>2. ASSUME NEW c \in Starts, Validate(c) \/ RunReturns(c) \/ (SetRunning(c) /\ pc'[c] = "finish")
      PROVE  RunInv'
  <2>1. Owns(c)
    BY <1>2 DEF Validate, RunReturns, SetRunning, At, Owns
  <2>2. UNCHANGED <<service, runID>> /\ pc'[c] \in {"finish", "setRunning"} /\ \A d \in Call : d # c => pc'[d] = pc[d]
    BY <1>2 DEF Validate, RunReturns, SetRunning, Goto, TypeOK, Call, service
  <2> QED
    BY <2>1, <2>2, ServiceAssumption DEF RunInv, Owns, HasBegun, service, Call
<1>3. ASSUME NEW c \in Starts, SetRunning(c), pc'[c] # "finish"
      PROVE  RunInv'
  <2>1. Owns(c) /\ active.state # "cancelling"
    BY <1>3 DEF SetRunning, At, Owns, Goto, TypeOK, Call
  <2>2. /\ active' = [active EXCEPT !.state = "running"]
        /\ pc' = [pc EXCEPT ![c] = "run"]
        /\ UNCHANGED <<nextRunID, contexts, reports, runID>>
    BY <1>3 DEF SetRunning, Goto, TypeOK, Call
  <2>3. active'.id = active.id /\ active.id \notin contexts
    BY <2>1, <2>2 DEF TypeOK, Inactive, RunInv
  <2>4. pc'[c] = "run" /\ \A d \in Call : d # c => pc'[d] = pc[d]
    BY <2>2 DEF TypeOK, Call
  <2> QED
    BY <2>1, <2>2, <2>3, <2>4, OwnsRun, ServiceAssumption DEF RunInv, Owns, HasBegun, Call
<1>4. ASSUME NEW c \in Starts, Progress(c)
      PROVE  RunInv'
  BY <1>4 DEF Progress, RunInv, Owns, HasBegun, service
<1>5. ASSUME NEW c \in Starts, FinishRun(c)
      PROVE  RunInv'
  <2>1. Owns(c)
    BY <1>5 DEF FinishRun, At, Owns
  <2>2. /\ active' = Inactive
        /\ pc' = [pc EXCEPT ![c] = "returned"]
        /\ reports' \subseteq reports \cup {runID[c]}
        /\ contexts' = contexts \cup {runID[c]}
        /\ UNCHANGED <<nextRunID, runID>>
    BY <1>5, <2>1, OwnsRun DEF FinishRun, Return, Goto, keptReports
  <2>3. pc'[c] = "returned" /\ \A d \in Call : d # c => pc'[d] = pc[d]
    BY <2>2 DEF TypeOK, Call
  <2>4. active'.id = NoRun /\ NoRun \notin reports' /\ NoRun \notin contexts'
    BY <2>1, <2>2, ActiveRun, OwnsRun DEF Inactive, HasBegun
  <2> QED
    BY <2>1, <2>2, <2>3, <2>4, OwnsRun, ServiceAssumption DEF RunInv, Owns, HasBegun, Call
<1>6. ASSUME NEW c \in Cancels, NEW run \in 0..nextRunID, Cancel(c, run)
      PROVE  RunInv'
  <2>1. /\ pc' = [pc EXCEPT ![c] = "returned"]
        /\ \A d \in Call : d # c => pc'[d] = pc[d] /\ runID'[d] = runID[d]
        /\ pc'[c] = "returned"
        /\ UNCHANGED <<nextRunID, reports>>
    BY <1>6 DEF Cancel, Return, Goto, TypeOK, Call
  <2>2. \A d \in Starts : pc'[d] = pc[d] /\ runID'[d] = runID[d]
    BY <2>1, ServiceAssumption DEF Call
  <2>3. CASE active = Inactive \/ run \notin {NoRun, active.id}
    <3>1. UNCHANGED <<active, contexts>>
      BY <1>6, <2>3 DEF Cancel
    <3> QED
      BY <2>1, <2>2, <3>1 DEF RunInv, Owns, HasBegun, Call
  <2>4. CASE ~(active = Inactive \/ run \notin {NoRun, active.id})
    <3>1. active' = [active EXCEPT !.state = "cancelling"]
      BY <1>6, <2>4 DEF Cancel
    <3>2. active'.id = active.id /\ active'.state = "cancelling" /\ active # Inactive
      BY <2>4, <3>1 DEF TypeOK, Inactive
    <3> QED
      BY <2>1, <2>2, <3>2 DEF RunInv, Owns, HasBegun, Call
  <2> QED
    BY <2>3, <2>4
<1>7. CASE UNCHANGED <<service, pc, runID>>
  BY <1>7 DEF RunInv, Owns, HasBegun, service
<1> QED
  BY <1>1, <1>2, <1>3, <1>4, <1>5, <1>6, <1>7 DEF Next, Start, Emit, vars

\* Every step keeps calls at a place where the state of their run allows them.
LEMMA PlaceStep == TypeOK /\ RunInv /\ PlaceInv /\ [Next]_vars => PlaceInv'
<1> SUFFICES ASSUME TypeOK, RunInv, PlaceInv, [Next]_vars PROVE PlaceInv'
  OBVIOUS
<1>1. ASSUME NEW c \in Starts, BeginRun(c)
      PROVE  PlaceInv'
  <2>1. CASE active # Inactive
    <3>1. pc' = [pc EXCEPT ![c] = "returned"] /\ UNCHANGED <<service, causes>>
      BY <1>1, <2>1 DEF BeginRun, Return, Goto
    <3> QED
      BY <3>1 DEF PlaceInv, service, TypeOK, Call
  <2>2. CASE active = Inactive
    <3>1. active'.state = "validating" /\ pc' = [pc EXCEPT ![c] = "validate"]
      BY <1>1, <2>2 DEF BeginRun, Goto
    <3>2. ASSUME NEW d \in Starts \ {c}
          PROVE  ~Owns(d)
      BY <2>2, ActiveRun DEF RunInv, HasBegun
    <3> QED
      BY <3>1, <3>2 DEF PlaceInv, Owns, TypeOK, Call
  <2> QED
    BY <2>1, <2>2
<1>2. ASSUME NEW c \in Starts, Validate(c) \/ RunReturns(c) \/ SetRunning(c) \/ FinishRun(c)
      PROVE  PlaceInv'
  <2>1. Owns(c) /\ \A d \in Call : d # c => pc'[d] = pc[d]
    BY <1>2 DEF Validate, RunReturns, SetRunning, FinishRun, Return, Goto, At, Owns, TypeOK, Call
  <2>2. ASSUME NEW d \in Starts \ {c}
        PROVE  ~Owns(d) /\ pc'[d] = pc[d]
    BY <2>1, OwnsRun DEF Call
  <2>3. CASE Validate(c)
    <3>1. pc[c] = "validate" /\ active' = active
      BY <2>3 DEF Validate, At, service
    <3>2. \/ pc'[c] = "finish" /\ causes'[c] \in {{"validation"}, {"confirmation"}}
          \/ pc'[c] = "setRunning"
      BY <2>3 DEF Validate, Goto, TypeOK, Call
    <3> QED
      BY <2>2, <3>1, <3>2 DEF PlaceInv, Owns
  <2>4. CASE SetRunning(c)
    <3>1. \/ active.state = "cancelling" /\ active' = active /\ pc'[c] = "finish"
          \/ active'.state = "running" /\ pc'[c] = "run"
      BY <2>1, <2>4, OwnsRun DEF SetRunning, Goto, TypeOK, Call, Inactive
    <3> QED
      BY <2>2, <3>1 DEF PlaceInv, Owns
  <2>5. CASE RunReturns(c)
    <3>1. pc[c] = "run" /\ active' = active /\ pc'[c] = "finish"
      BY <2>5 DEF RunReturns, At, service, Goto, TypeOK, Call
    <3>2. active.state = "cancelling" \/ causes'[c] \in {{}, {"io"}}
      BY <2>1, <2>5, OwnsRun DEF RunReturns, RunInv, TypeOK
    <3> QED
      BY <2>2, <3>1, <3>2 DEF PlaceInv, Owns
  <2>6. CASE FinishRun(c)
    <3>1. pc'[c] = "returned"
      BY <2>6 DEF FinishRun, Return, Goto, TypeOK, Call
    <3> QED
      BY <2>2, <3>1 DEF PlaceInv, Owns
  <2> QED
    BY <1>2, <2>3, <2>4, <2>5, <2>6
<1>3. ASSUME NEW c \in Cancels, NEW run \in 0..nextRunID, Cancel(c, run)
      PROVE  PlaceInv'
  <2>1. \A d \in Starts : pc'[d] = pc[d] /\ causes' = causes
    BY <1>3, ServiceAssumption DEF Cancel, Return, Goto, TypeOK, Call
  <2>2. active' = active \/ active'.state = "cancelling"
    BY <1>3 DEF Cancel, TypeOK, Inactive
  <2> QED
    BY <2>1, <2>2 DEF PlaceInv
<1>4. CASE UNCHANGED <<service, pc, runID, causes>>
  BY <1>4 DEF PlaceInv, service
<1> QED
  BY <1>1, <1>2, <1>3, <1>4 DEF Next, Start, Emit, Progress, vars

\* Where a call decides on events: what is decided, and by whom it is emitted.
LEMMA Decision ==
  ASSUME TypeOK, NEW c \in Call, NEW run \in Nat, NEW names \in Seq(Names),
         Lock, Announce(c, run, names), runID'[c] = run, run = nextRunID',
         c \in Cancels => \A i \in 1..Len(names) : names[i] = "cancelling"
  PROVE  /\ \A r, n : Decided(r, n)' <=> Decided(r, n) \/ (r = run /\ \E i \in 1..Len(names) : n = names[i])
         /\ PendingInv'
<1>1. \A d \in Call : pending[d] = << >>
  BY ServiceAssumption DEF TypeOK, Lock, Call
<1>2. ASSUME NEW d \in Call, NEW i \in DOMAIN pending'[d]
      PROVE  /\ pending'[d][i].run = runID'[d] /\ runID'[d] = nextRunID'
             /\ d \in Cancels => pending'[d][i].name = "cancelling"
  <2>1. d = c
    <3>1. ASSUME d # c
          PROVE  pending'[d] = << >>
      BY <1>1, <3>1, Announcement
    <3> QED
      BY <1>2, <3>1
  <2>2. i \in 1..Len(names) /\ pending'[c][i] = Event(run, names[i])
    BY <1>2, <2>1, Announcement
  <2> QED
    BY <2>1, <2>2 DEF Event
<1> QED
  BY <1>1, <1>2, AnnounceDecides DEF PendingInv

\* The same of a single event.
LEMMA DecisionOfOne ==
  ASSUME TypeOK, NEW c \in Call, NEW run \in Nat, NEW name \in Names,
         Lock, Announce(c, run, <<name>>), runID'[c] = run, run = nextRunID',
         c \in Cancels => name = "cancelling"
  PROVE  /\ \A r, n : Decided(r, n)' <=> Decided(r, n) \/ (r = run /\ n = name)
         /\ PendingInv'
<1>1. <<name>> \in Seq(Names) /\ Len(<<name>>) = 1 /\ <<name>>[1] = name
  OBVIOUS
<1>2. \A i \in 1..Len(<<name>>) : <<name>>[i] = name
  BY <1>1
<1>3. /\ \A r, n : Decided(r, n)' <=> Decided(r, n) \/ (r = run /\ \E i \in 1..Len(<<name>>) : n = <<name>>[i])
      /\ PendingInv'
  BY <1>1, <1>2, Decision
<1>4. \A n : (\E i \in 1..Len(<<name>>) : n = <<name>>[i]) <=> n = name
  BY <1>1
<1> QED
  BY <1>3, <1>4

\* Nothing has been decided about a run that has not begun.
LEMMA NothingDecidedAhead ==
  ASSUME TypeOK, NEW r, NEW n, Decided(r, n)
  PROVE  r \in RunIDs
<1>1. ASSUME NEW i \in DOMAIN events, events[i] = Event(r, n)
      PROVE  r \in RunIDs
  <2>1. events \in Seq([run : RunIDs, name : Names])
    BY DEF TypeOK
  <2>2. events[i] \in [run : RunIDs, name : Names]
    BY <2>1, ElementOfSeq, LenProperties
  <2> QED
    BY <1>1, <2>2 DEF Event
<1>2. ASSUME NEW c \in Call, NEW i \in DOMAIN pending[c], pending[c][i] = Event(r, n)
      PROVE  r \in RunIDs
  <2>1. pending[c] \in Seq([run : RunIDs, name : Names])
    BY DEF TypeOK
  <2>2. pending[c][i] \in [run : RunIDs, name : Names]
    BY <2>1, ElementOfSeq, LenProperties
  <2> QED
    BY <1>2, <2>2 DEF Event
<1> QED
  BY <1>1, <1>2 DEF Decided, Shown, Pending

\* What FinishRun decides of the last run.
LEMMA FinishDecides ==
  ASSUME TypeOK, RunInv, OpenInv, NEW c \in Starts, FinishRun(c)
  PROVE  /\ Owns(c)
         /\ \A n \in Final : ~Decided(runID[c], n)
         /\ LET names == lastEvents(finalState(c))
            IN  \A r, n : Decided(r, n)' <=> Decided(r, n) \/ (r = runID[c] /\ \E i \in 1..Len(names) : n = names[i])
         /\ PendingInv'
<1>1. Owns(c) /\ UNCHANGED <<nextRunID, runID>>
  BY DEF FinishRun, At, Owns
<1>2. runID[c] \in Nat /\ runID[c] = nextRunID' /\ runID'[c] = runID[c] /\ active # Inactive /\ active.id = runID[c]
  BY <1>1, OwnsRun DEF TypeOK, RunIDs
<1>3. Lock /\ Announce(c, runID[c], lastEvents(finalState(c))) /\ c \notin Cancels /\ c \in Call
  BY ServiceAssumption DEF FinishRun, Call
<1>4. \A n \in Final : ~Decided(runID[c], n)
  BY <1>2 DEF OpenInv
<1> QED
  BY <1>1, <1>2, <1>3, <1>4, LastEvents, Decision

\* Only FinishRun decides on the end of a run.
LEMMA EndsAreDecidedByFinish ==
  ASSUME TypeOK, RunInv, PendingInv, [Next]_vars, \A c \in Starts : ~FinishRun(c)
  PROVE  /\ \A r : \A n \in Final : Decided(r, n)' <=> Decided(r, n)
         /\ PendingInv'
<1> DEFINE Kept == (\A r : \A n \in Final : Decided(r, n)' <=> Decided(r, n)) /\ PendingInv'
<1>1. ASSUME UNCHANGED <<pending, events, runID, nextRunID>>
      PROVE  Kept
  BY <1>1 DEF PendingInv, Decided, Shown, Pending
<1>2. ASSUME NEW c \in Starts, BeginRun(c)
      PROVE  Kept
  <2>1. CASE active # Inactive
    BY <1>1, <1>2, <2>1 DEF BeginRun, service, emission
  <2>2. CASE active = Inactive
    <3>1. Lock /\ nextRunID' = nextRunID + 1 /\ runID' = [runID EXCEPT ![c] = nextRunID'] /\ Announce(c, nextRunID', <<"validating">>)
      BY <1>2, <2>2 DEF BeginRun
    <3>2. nextRunID' \in Nat /\ runID'[c] = nextRunID' /\ c \in Call /\ c \notin Cancels /\ "validating" \in Names \ Final
      BY <3>1, ServiceAssumption DEF TypeOK, Call, Names, RunStates, Final
    <3> QED
      BY <3>1, <3>2, DecisionOfOne
  <2> QED
    BY <2>1, <2>2
<1>3. ASSUME NEW c \in Starts, SetRunning(c)
      PROVE  Kept
  <2>1. CASE active.id # runID[c] \/ active.state = "cancelling"
    BY <1>1, <1>3, <2>1 DEF SetRunning, emission
  <2>2. CASE ~(active.id # runID[c] \/ active.state = "cancelling")
    <3>1. Lock /\ UNCHANGED <<runID, nextRunID>> /\ Announce(c, runID[c], <<"running">>) /\ Owns(c)
      BY <1>3, <2>2 DEF SetRunning, At, Owns
    <3>2. runID[c] \in Nat /\ runID[c] = nextRunID /\ c \in Call /\ c \notin Cancels /\ "running" \in Names \ Final
      BY <3>1, OwnsRun, ServiceAssumption DEF TypeOK, Call, Names, RunStates, Final, RunIDs
    <3> QED
      BY <3>1, <3>2, DecisionOfOne
  <2> QED
    BY <2>1, <2>2
<1>4. ASSUME NEW c \in Starts, Progress(c)
      PROVE  Kept
  <2>1. Lock /\ UNCHANGED <<runID, nextRunID>> /\ Announce(c, runID[c], <<"Progress">>) /\ Owns(c)
    BY <1>4 DEF Progress, At, Owns, service
  <2>2. runID[c] \in Nat /\ runID[c] = nextRunID /\ c \in Call /\ c \notin Cancels /\ "Progress" \in Names \ Final
    BY <2>1, OwnsRun, ServiceAssumption DEF TypeOK, Call, Names, RunStates, Final, RunIDs
  <2> QED
    BY <2>1, <2>2, DecisionOfOne
<1>5. ASSUME NEW c \in Cancels, NEW run \in 0..nextRunID, Cancel(c, run)
      PROVE  Kept
  <2>1. CASE active = Inactive \/ run \notin {NoRun, active.id}
    BY <1>1, <1>5, <2>1 DEF Cancel, emission
  <2>2. CASE ~(active = Inactive \/ run \notin {NoRun, active.id})
    <3>1. Lock /\ nextRunID' = nextRunID /\ runID' = [runID EXCEPT ![c] = active.id] /\ Announce(c, active.id, <<"cancelling">>)
      BY <1>5, <2>2 DEF Cancel
    <3>2. /\ active.id \in Nat /\ active.id = nextRunID /\ runID'[c] = active.id /\ c \in Call
          /\ "cancelling" \in Names \ Final
      BY <2>2, <3>1, ActiveRun DEF TypeOK, RunInv, RunIDs, Call, Names, RunStates, Final
    <3> QED
      BY <3>1, <3>2, DecisionOfOne
  <2> QED
    BY <2>1, <2>2
<1>6. ASSUME NEW c \in Call, Emit(c)
      PROVE  Kept
  <2>1. ASSUME NEW d \in Call, NEW i \in DOMAIN pending'[d]
        PROVE  \E j \in DOMAIN pending[d] : pending'[d][i] = pending[d][j]
    <3>1. CASE d = c
      <4>1. i \in 1..(Len(pending[c]) - 1) /\ Len(pending[c]) \in Nat /\ DOMAIN pending[c] = 1..Len(pending[c])
        BY <1>6, <2>1, <3>1, Emission
      <4>2. i + 1 \in DOMAIN pending[c]
        BY <4>1
      <4> QED
        BY <1>6, <3>1, <4>1, <4>2, Emission
    <3>2. CASE d # c
      BY <1>6, <2>1, <3>2, Emission
    <3> QED
      BY <3>1, <3>2
  <2>2. UNCHANGED <<runID, nextRunID>>
    BY <1>6 DEF Emit, service
  <2>3. PendingInv'
    BY <2>1, <2>2 DEF PendingInv
  <2> QED
    BY <1>6, <2>3, EmitKeepsDecided
<1>7. ASSUME NEW c \in Starts, Validate(c) \/ RunReturns(c)
      PROVE  Kept
  BY <1>1, <1>7 DEF Validate, RunReturns, service, emission
<1>8. CASE UNCHANGED vars
  BY <1>1, <1>8 DEF vars, service, emission
<1> QED
  BY <1>2, <1>3, <1>4, <1>5, <1>6, <1>7, <1>8 DEF Next, Start

\* Every step keeps what is pending in the order of the runs.
LEMMA PendingStep == TypeOK /\ RunInv /\ PendingInv /\ OpenInv /\ [Next]_vars => PendingInv'
BY FinishDecides, EndsAreDecidedByFinish

\* The steps other than FinishRun: a run stays active unless there is none.
LEMMA ActiveStaysActive ==
  ASSUME TypeOK, RunInv, [Next]_vars, \A c \in Starts : ~FinishRun(c)
  PROVE  \/ active = Inactive /\ nextRunID' = nextRunID + 1 /\ active'.id = nextRunID'
         \/ active = Inactive /\ active' = Inactive /\ nextRunID' = nextRunID
         \/ /\ active # Inactive /\ active' # Inactive /\ active'.id = active.id /\ nextRunID' = nextRunID
            /\ active.state = "cancelling" => active'.state = "cancelling"
<1>1. ASSUME NEW c \in Starts, BeginRun(c)
      PROVE  \/ active = Inactive /\ nextRunID' = nextRunID + 1 /\ active'.id = nextRunID'
             \/ active' = active /\ nextRunID' = nextRunID
  <2>1. CASE active # Inactive
    BY <1>1, <2>1 DEF BeginRun, service
  <2>2. CASE active = Inactive
    BY <1>1, <2>2 DEF BeginRun
  <2> QED
    BY <2>1, <2>2
<1>2. ASSUME NEW c \in Starts, SetRunning(c)
      PROVE  /\ active # Inactive /\ active' # Inactive /\ active'.id = active.id /\ nextRunID' = nextRunID
             /\ active.state = "cancelling" => active'.state = "cancelling"
  <2>1. Owns(c)
    BY <1>2 DEF SetRunning, At, Owns
  <2>2. active # Inactive /\ (active' = active \/ (active.state # "cancelling" /\ active' = [active EXCEPT !.state = "running"]))
    BY <1>2, <2>1, OwnsRun DEF SetRunning
  <2> QED
    BY <1>2, <2>2 DEF SetRunning, TypeOK, Inactive
<1>3. ASSUME NEW c \in Cancels, NEW run \in 0..nextRunID, Cancel(c, run)
      PROVE  \/ active' = active /\ nextRunID' = nextRunID
             \/ /\ active # Inactive /\ active' # Inactive /\ active'.id = active.id /\ nextRunID' = nextRunID
                /\ active'.state = "cancelling"
  <2>1. CASE active = Inactive \/ run \notin {NoRun, active.id}
    BY <1>3, <2>1 DEF Cancel
  <2>2. CASE ~(active = Inactive \/ run \notin {NoRun, active.id})
    BY <1>3, <2>2 DEF Cancel, TypeOK, Inactive
  <2> QED
    BY <2>1, <2>2
<1>4. ASSUME UNCHANGED service
      PROVE  active' = active /\ nextRunID' = nextRunID
  BY <1>4 DEF service
<1> QED
  BY <1>1, <1>2, <1>3, <1>4 DEF Next, Start, Validate, Progress, RunReturns, Emit, vars

\* The steps other than FinishRun: no call returns that has begun a run, a run
\* begins with a new number, and no report comes or goes.
LEMMA ReturnedStays ==
  ASSUME TypeOK, RunInv, [Next]_vars, \A c \in Starts : ~FinishRun(c)
  PROVE  /\ reports' = reports
         /\ \A s \in Starts :
              /\ HasBegun(s)' => Owns(s)' \/ pc'[s] = "returned"
              /\ HasBegun(s)' /\ pc'[s] = "returned" =>
                   /\ HasBegun(s) /\ pc[s] = "returned" /\ runID'[s] = runID[s] /\ result'[s] = result[s]
                   /\ causes'[s] = causes[s]
              /\ \/ runID'[s] = runID[s] /\ (Owns(s)' => Owns(s))
                 \/ runID'[s] = nextRunID' /\ nextRunID' = nextRunID + 1
<1> DEFINE Stays == \A s \in Starts :
              /\ HasBegun(s)' => Owns(s)' \/ pc'[s] = "returned"
              /\ HasBegun(s)' /\ pc'[s] = "returned" =>
                   /\ HasBegun(s) /\ pc[s] = "returned" /\ runID'[s] = runID[s] /\ result'[s] = result[s]
                   /\ causes'[s] = causes[s]
              /\ \/ runID'[s] = runID[s] /\ (Owns(s)' => Owns(s))
                 \/ runID'[s] = nextRunID' /\ nextRunID' = nextRunID + 1
<1>1. \A s \in Starts : (HasBegun(s) => Owns(s) \/ pc[s] = "returned") /\ s \in Call
  BY DEF TypeOK, RunInv, Owns, HasBegun, Call
<1>2. ASSUME NEW c \in Starts, BeginRun(c)
      PROVE  Stays
  <2>1. CASE active # Inactive
    <3>1. /\ ~HasBegun(c) /\ runID' = runID /\ causes' = causes
          /\ \A s \in Starts \ {c} : pc'[s] = pc[s] /\ result'[s] = result[s]
      BY <1>1, <1>2, <2>1 DEF BeginRun, At, RunInv, Return, Goto, TypeOK
    <3>2. pc'[c] = "returned"
      BY <1>1, <1>2, <2>1 DEF BeginRun, Return, Goto, TypeOK
    <3> QED
      BY <1>1, <3>1, <3>2 DEF HasBegun, Owns
  <2>2. CASE active = Inactive
    <3>1. /\ runID'[c] = nextRunID' /\ nextRunID' = nextRunID + 1 /\ pc'[c] = "validate" /\ result' = result
          /\ causes' = causes
          /\ \A s \in Starts \ {c} : pc'[s] = pc[s] /\ runID'[s] = runID[s]
      BY <1>1, <1>2, <2>2 DEF BeginRun, Goto, TypeOK
    <3> QED
      BY <1>1, <3>1 DEF HasBegun, Owns
  <2> QED
    BY <2>1, <2>2
<1>3. ASSUME NEW c \in Starts, Validate(c) \/ SetRunning(c) \/ RunReturns(c)
      PROVE  Stays
  <2>1. /\ UNCHANGED <<runID, result>> /\ Owns(c)
        /\ pc'[c] \in {"setRunning", "run", "finish"}
        /\ \A s \in Starts \ {c} : pc'[s] = pc[s] /\ causes'[s] = causes[s]
    BY <1>1, <1>3 DEF Validate, SetRunning, RunReturns, At, Owns, Goto, TypeOK
  <2> QED
    BY <1>1, <2>1 DEF HasBegun, Owns
<1>4. ASSUME NEW c \in Cancels, NEW run \in 0..nextRunID, Cancel(c, run)
      PROVE  Stays
  <2>1. /\ causes' = causes
        /\ \A s \in Starts : pc'[s] = pc[s] /\ runID'[s] = runID[s] /\ result'[s] = result[s]
    BY <1>1, <1>4, ServiceAssumption DEF Cancel, Return, Goto, TypeOK
  <2> QED
    BY <1>1, <2>1 DEF HasBegun, Owns
<1>5. ASSUME UNCHANGED <<pc, runID, causes, result>>
      PROVE  Stays
  BY <1>1, <1>5 DEF HasBegun, Owns
<1>6. Stays
  BY <1>2, <1>3, <1>4, <1>5 DEF Next, Start, Progress, Emit, vars
<1>7. reports' = reports
  BY DEF Next, Start, BeginRun, Validate, SetRunning, Progress, RunReturns, Cancel, Emit, vars, service
<1> QED
  BY <1>6, <1>7

\* What FinishRun does to the calls and the reports.
LEMMA Finished ==
  ASSUME TypeOK, RunInv, NEW c \in Starts, FinishRun(c)
  PROVE  /\ Owns(c) /\ active' = Inactive
         /\ UNCHANGED <<nextRunID, runID>>
         /\ pc'[c] = "returned"
         /\ result'[c].run = runID[c] /\ result'[c].state = finalState(c)
         /\ result'[c].error <=> finalState(c) = "failed" \/ "confirmation" \in causes[c]
         /\ causes' = causes
         /\ \A s \in Starts \ {c} : pc'[s] = pc[s] /\ result'[s] = result[s] /\ ~Owns(s) /\ runID[s] # runID[c]
         /\ reports' = keptReports(c)
<1>1. Owns(c) /\ c \in Call
  BY DEF FinishRun, At, Owns, Call
<1>2. PICK error \in BOOLEAN : /\ error <=> finalState(c) = "failed" \/ "confirmation" \in causes[c]
                               /\ result' = [result EXCEPT ![c] = Result(runID[c], finalState(c), error)]
  <2>1. /\ returnedError(c) \in BOOLEAN
        /\ returnedError(c) <=> finalState(c) = "failed" \/ "confirmation" \in causes[c]
    BY DEF returnedError, returnedState
  <2>2. result' = [result EXCEPT ![c] = Result(runID[c], finalState(c), returnedError(c))]
    BY DEF FinishRun, Return, returnedState
  <2> QED
    BY <2>1, <2>2
<1>3. result'[c] = Result(runID[c], finalState(c), error)
  BY <1>1, <1>2 DEF TypeOK
<1>4. result'[c].run = runID[c] /\ result'[c].state = finalState(c) /\ result'[c].error = error
  BY <1>3 DEF Result
<1>5. result'[c].error <=> finalState(c) = "failed" \/ "confirmation" \in causes[c]
  BY <1>2, <1>4
<1>6. /\ active' = Inactive /\ UNCHANGED <<nextRunID, runID, causes>> /\ pc'[c] = "returned"
      /\ \A s \in Starts \ {c} : pc'[s] = pc[s] /\ result'[s] = result[s] /\ ~Owns(s) /\ runID[s] # runID[c]
      /\ reports' = keptReports(c)
  BY <1>1, OwnsRun DEF FinishRun, Return, Goto, TypeOK, Call
<1> QED
  BY <1>1, <1>4, <1>5, <1>6

\* Every step leaves the end of the active run undecided.
LEMMA OpenStep == TypeOK /\ RunInv /\ PendingInv /\ OpenInv /\ [Next]_vars => OpenInv'
<1> SUFFICES ASSUME TypeOK, RunInv, PendingInv, OpenInv, [Next]_vars PROVE OpenInv'
  OBVIOUS
<1>1. ASSUME NEW c \in Starts, FinishRun(c)
      PROVE  OpenInv'
  BY <1>1, Finished DEF OpenInv
<1>2. CASE \A c \in Starts : ~FinishRun(c)
  <2>1. \A r : \A n \in Final : Decided(r, n)' <=> Decided(r, n)
    BY <1>2, EndsAreDecidedByFinish
  <2>2. \A n : ~Decided(nextRunID + 1, n)
    BY NothingDecidedAhead, ActiveRun
  <2> QED
    BY <1>2, <2>1, <2>2, ActiveStaysActive DEF OpenInv
<1> QED
  BY <1>1, <1>2

\* What the last events of a run decide.
LEMMA FinalEvents ==
  ASSUME TypeOK, RunInv, OpenInv, NEW c \in Starts, FinishRun(c)
  PROVE  /\ \A r, n : r # runID[c] => (Decided(r, n)' <=> Decided(r, n))
         /\ \A n : n = finalState(c) => Decided(runID[c], n)'
         /\ Decided(runID[c], "Completed")' <=> finalState(c) = "completed"
         /\ Decided(runID[c], "Failed")' <=> finalState(c) = "failed"
         /\ Decided(runID[c], "Cancelled")' <=> finalState(c) = "cancelled"
<1> DEFINE names == lastEvents(finalState(c))
<1>1. /\ \A n \in Final : ~Decided(runID[c], n)
      /\ \A r, n : Decided(r, n)' <=> Decided(r, n) \/ (r = runID[c] /\ \E i \in 1..Len(names) : n = names[i])
  BY FinishDecides
<1>2. \A n \in Final : Decided(runID[c], n)' <=> \E i \in 1..Len(names) : n = names[i]
  <2>1. runID'[c] = runID[c]
    BY Finished
  <2> QED
    BY <1>1, <2>1
<1>3. /\ finalState(c) \in {"completed", "failed", "cancelled", "awaiting-confirmation"}
      /\ finalState(c) = "completed" => names = <<"completed", "Completed">>
      /\ finalState(c) = "failed" => names = <<"failed", "Failed">>
      /\ finalState(c) = "cancelled" => names = <<"cancelled", "Cancelled", "idle">>
      /\ finalState(c) = "awaiting-confirmation" => names = <<"awaiting-confirmation">>
  BY LastEvents DEF lastEvents
<1> DEFINE In(n) == \E i \in 1..Len(names) : n = names[i]
<1>4. In(finalState(c)) /\ (In("Completed") <=> finalState(c) = "completed")
      /\ (In("Failed") <=> finalState(c) = "failed") /\ (In("Cancelled") <=> finalState(c) = "cancelled")
  <2>1. CASE finalState(c) = "completed"
    <3>1. names = <<"completed", "Completed">> /\ Len(names) = 2 /\ names[1] = "completed" /\ names[2] = "Completed"
      BY <1>3, <2>1
    <3>2. \A n : In(n) <=> n = "completed" \/ n = "Completed"
      BY <3>1
    <3> QED
      BY <2>1, <3>2
  <2>2. CASE finalState(c) = "failed"
    <3>1. names = <<"failed", "Failed">> /\ Len(names) = 2 /\ names[1] = "failed" /\ names[2] = "Failed"
      BY <1>3, <2>2
    <3>2. \A n : In(n) <=> n = "failed" \/ n = "Failed"
      BY <3>1
    <3> QED
      BY <2>2, <3>2
  <2>3. CASE finalState(c) = "cancelled"
    <3>1. /\ names = <<"cancelled", "Cancelled", "idle">> /\ Len(names) = 3
          /\ names[1] = "cancelled" /\ names[2] = "Cancelled" /\ names[3] = "idle"
      BY <1>3, <2>3
    <3>2. \A n : In(n) <=> n = "cancelled" \/ n = "Cancelled" \/ n = "idle"
      BY <3>1
    <3> QED
      BY <2>3, <3>2
  <2>4. CASE finalState(c) = "awaiting-confirmation"
    <3>1. names = <<"awaiting-confirmation">> /\ Len(names) = 1 /\ names[1] = "awaiting-confirmation"
      BY <1>3, <2>4
    <3>2. \A n : In(n) <=> n = "awaiting-confirmation"
      BY <3>1
    <3> QED
      BY <2>4, <3>2
  <2> QED
    BY <1>3, <2>1, <2>2, <2>3, <2>4
<1>5. \A r, n : r # runID[c] => (Decided(r, n)' <=> Decided(r, n))
  BY <1>1
<1> QED
  BY <1>2, <1>3, <1>4, <1>5 DEF Final

\* Every step keeps results and events in agreement.
LEMMA ResultStep == TypeOK /\ RunInv /\ PendingInv /\ OpenInv /\ ResultInv /\ [Next]_vars => ResultInv'
<1> SUFFICES ASSUME TypeOK, RunInv, PendingInv, OpenInv, ResultInv, [Next]_vars,
                    NEW s \in Starts, HasBegun(s)', pc'[s] = "returned"
             PROVE  /\ result'[s].state \in Final \ {"idle"}
                    /\ Decided(runID[s], result[s].state)'
                    /\ Decided(runID[s], "Completed")' <=> result'[s].state = "completed"
                    /\ Decided(runID[s], "Failed")' <=> result'[s].state = "failed"
                    /\ Decided(runID[s], "Cancelled")' <=> result'[s].state = "cancelled"
                    /\ result'[s].error <=> Decided(runID[s], "Failed")' \/ "confirmation" \in causes'[s]
  BY DEF ResultInv
<1>1. CASE FinishRun(s)
  <2>1. /\ result'[s].state = finalState(s) /\ runID' = runID /\ causes' = causes
        /\ result'[s].error <=> finalState(s) = "failed" \/ "confirmation" \in causes[s]
    BY <1>1, Finished
  <2>2. finalState(s) \in Final \ {"idle"}
    BY LastEvents DEF Final
  <2> QED
    BY <1>1, <2>1, <2>2, FinalEvents
<1>2. ASSUME NEW c \in Starts \ {s}, FinishRun(c)
      PROVE  /\ HasBegun(s) /\ pc[s] = "returned" /\ runID' = runID /\ result'[s] = result[s] /\ causes' = causes
             /\ \A n : Decided(runID[s], n)' <=> Decided(runID[s], n)
  BY <1>2, Finished, FinalEvents DEF HasBegun
<1>3. ASSUME \A c \in Starts : ~FinishRun(c)
      PROVE  /\ HasBegun(s) /\ pc[s] = "returned" /\ runID'[s] = runID[s] /\ result'[s] = result[s]
             /\ causes'[s] = causes[s]
             /\ \A n \in Final : Decided(runID[s], n)' <=> Decided(runID[s], n)
  BY <1>3, ReturnedStays, EndsAreDecidedByFinish
<1> QED
  BY <1>1, <1>2, <1>3 DEF ResultInv, Final

\* What a step does to the run a call of CancelBenchmark has cancelled.
LEMMA CancelledRun ==
  ASSUME TypeOK, RunInv, [Next]_vars, \A s \in Starts : ~FinishRun(s), NEW c \in Cancels
  PROVE  \/ runID'[c] = runID[c]
         \/ /\ runID'[c] = active.id /\ active # Inactive /\ active'.state = "cancelling"
            /\ nextRunID' = nextRunID
<1>1. c \in Call /\ \A s \in Starts : s # c
  BY ServiceAssumption DEF Call
<1>2. ASSUME NEW s \in Starts, BeginRun(s)
      PROVE  runID'[c] = runID[c]
  BY <1>1, <1>2 DEF BeginRun, TypeOK
<1>3. ASSUME NEW d \in Cancels, NEW run \in 0..nextRunID, Cancel(d, run)
      PROVE  \/ runID'[c] = runID[c]
             \/ /\ runID'[c] = active.id /\ active # Inactive /\ active'.state = "cancelling"
                /\ nextRunID' = nextRunID
  <2>1. CASE active = Inactive \/ run \notin {NoRun, active.id}
    BY <1>3, <2>1 DEF Cancel
  <2>2. CASE ~(active = Inactive \/ run \notin {NoRun, active.id})
    BY <1>1, <1>3, <2>2 DEF Cancel, TypeOK, Inactive
  <2> QED
    BY <2>1, <2>2
<1>4. ASSUME UNCHANGED runID
      PROVE  runID'[c] = runID[c]
  BY <1>4
<1> QED
  BY <1>2, <1>3, <1>4 DEF Next, Start, Validate, SetRunning, Progress, RunReturns, Emit, vars

\* Every step keeps what has been promised to CancelBenchmark.
LEMMA CancellationStep == TypeOK /\ RunInv /\ CancelInv /\ [Next]_vars => CancelInv'
<1> SUFFICES ASSUME TypeOK, RunInv, CancelInv, [Next]_vars,
                    NEW c \in Cancels, NEW s \in Starts, HasBegun(s)', runID'[s] = runID'[c]
             PROVE  /\ Owns(s)' => active'.state = "cancelling"
                    /\ pc'[s] = "returned" => ReturnedCancelled(s)'
                    /\ runID'[s] \notin reports'
  BY DEF CancelInv
<1>1. ASSUME HasBegun(s), runID[s] = runID[c]
      PROVE  /\ Owns(s) => active.state = "cancelling"
             /\ pc[s] = "returned" => ReturnedCancelled(s)
             /\ runID[s] \notin reports
  BY <1>1 DEF CancelInv
<1>2. CASE FinishRun(s)
  <2>1. /\ Owns(s) /\ runID' = runID /\ pc'[s] = "returned" /\ active.id = runID[s]
        /\ reports' = keptReports(s) /\ causes' = causes
        /\ result'[s].run = runID[s] /\ result'[s].state = finalState(s)
        /\ result'[s].error <=> finalState(s) = "failed" \/ "confirmation" \in causes[s]
    BY <1>2, Finished, OwnsRun
  <2>2. active.state = "cancelling" /\ runID[s] \notin reports
    BY <1>1, <2>1 DEF HasBegun
  <2>3. finalState(s) = "cancelled"
    BY <2>1, <2>2 DEF finalState
  <2>4. reports' = reports
    BY <2>1, <2>3 DEF keptReports
  <2> QED
    BY <2>1, <2>2, <2>3, <2>4 DEF Owns, ReturnedCancelled
<1>3. ASSUME NEW f \in Starts \ {s}, FinishRun(f)
      PROVE  /\ Owns(s)' => active'.state = "cancelling"
             /\ pc'[s] = "returned" => ReturnedCancelled(s)'
             /\ runID'[s] \notin reports'
  <2>1. /\ runID' = runID /\ pc'[s] = pc[s] /\ result'[s] = result[s] /\ ~Owns(s) /\ runID[s] # runID[f]
        /\ causes' = causes
        /\ reports' \subseteq reports \cup {runID[f]}
    BY <1>3, Finished DEF keptReports
  <2> QED
    BY <1>1, <2>1 DEF Owns, HasBegun, ReturnedCancelled
<1>4. CASE \A f \in Starts : ~FinishRun(f)
  <2>1. reports' = reports
    BY <1>4, ReturnedStays
  <2>2. CASE runID'[s] = runID[s] /\ (Owns(s)' => Owns(s)) /\ runID'[c] = runID[c]
    <3>1. /\ HasBegun(s) /\ runID[s] = runID[c]
          /\ Owns(s)' => active # Inactive /\ active.state = "cancelling"
      BY <1>1, <2>2, OwnsRun DEF HasBegun
    <3>2. Owns(s)' => active'.state = "cancelling"
      BY <1>4, <3>1, ActiveStaysActive
    <3>3. pc'[s] = "returned" => pc[s] = "returned" /\ result'[s] = result[s] /\ causes'[s] = causes[s]
      BY <1>4, ReturnedStays
    <3> QED
      BY <1>1, <2>1, <2>2, <3>1, <3>2, <3>3 DEF ReturnedCancelled
  <2>3. CASE runID'[s] = runID[s] /\ (Owns(s)' => Owns(s)) /\ runID'[c] = active.id /\ active # Inactive /\ active'.state = "cancelling"
    <3>1. HasBegun(s) /\ runID[s] = active.id
      BY <2>3 DEF HasBegun
    <3>2. pc'[s] # "returned"
      BY <1>4, <3>1, ReturnedStays DEF RunInv
    <3> QED
      BY <2>1, <2>3, <3>1, <3>2 DEF RunInv
  <2>4. CASE runID'[s] = nextRunID' /\ nextRunID' = nextRunID + 1
    <3>1. nextRunID \in Nat /\ runID[c] \in RunIDs \cup {NoRun}
      BY DEF TypeOK, Call
    <3>2. runID'[c] = runID[c] \/ nextRunID' = nextRunID
      BY <1>4, CancelledRun
    <3>3. runID'[c] = runID[c] /\ runID[c] # nextRunID + 1
      BY <2>4, <3>1, <3>2, ActiveRun
    <3> QED
      BY <2>4, <3>3
  <2> QED
    BY <1>4, <2>2, <2>3, <2>4, ReturnedStays, CancelledRun
<1> QED
  BY <1>2, <1>3, <1>4

\* Every step keeps the report of the last run that has completed.
LEMMA ReportStep == TypeOK /\ RunInv /\ PendingInv /\ OpenInv /\ ReportInv /\ [Next]_vars => ReportInv'
<1> SUFFICES ASSUME TypeOK, RunInv, PendingInv, OpenInv, ReportInv, [Next]_vars PROVE ReportInv'
  OBVIOUS
<1>1. nextRunID \in Nat /\ RunIDs = 1..nextRunID /\ RunIDs' = 1..nextRunID'
  BY DEF TypeOK, RunIDs
<1>2. CASE \A c \in Starts : ~FinishRun(c)
  <2>1. reports' = reports /\ nextRunID' \in {nextRunID, nextRunID + 1}
    BY <1>2, ReturnedStays, ActiveStaysActive
  <2>2. \A r : Decided(r, "Completed")' <=> Decided(r, "Completed")
    BY <1>2, EndsAreDecidedByFinish DEF Final
  <2>3. ~Decided(nextRunID + 1, "Completed")
    BY NothingDecidedAhead, ActiveRun
  <2>4. ASSUME NEW r
        PROVE  r \in reports <=>
                 r \in RunIDs' /\ Decided(r, "Completed") /\ \A later \in (r + 1)..nextRunID' : ~Decided(later, "Completed")
    <3>1. r \in reports <=>
            r \in RunIDs /\ Decided(r, "Completed") /\ \A later \in (r + 1)..nextRunID : ~Decided(later, "Completed")
      BY DEF ReportInv
    <3> QED
      BY <1>1, <2>1, <2>3, <3>1
  <2> QED
    BY <2>1, <2>2, <2>4 DEF ReportInv
<1>3. ASSUME NEW c \in Starts, FinishRun(c)
      PROVE  ReportInv'
  <2>1. /\ reports' = keptReports(c) /\ nextRunID' = nextRunID
        /\ runID[c] = nextRunID /\ runID[c] \in RunIDs /\ runID'[c] = runID[c]
    BY <1>3, Finished, OwnsRun
  <2>2. /\ \A r, n : r # nextRunID => (Decided(r, n)' <=> Decided(r, n))
        /\ \A r : r = nextRunID => (Decided(r, "Completed")' <=> finalState(c) = "completed")
    BY <1>3, <2>1, FinalEvents
  <2>3. ~Decided(nextRunID, "Completed")
    BY <1>3, <2>1, FinishDecides DEF Final
  <2>4. ASSUME NEW r
        PROVE  r \in reports' <=>
                 r \in RunIDs /\ Decided(r, "Completed")' /\ \A later \in (r + 1)..nextRunID : ~Decided(later, "Completed")'
    <3>1. r \in reports <=>
            r \in RunIDs /\ Decided(r, "Completed") /\ \A later \in (r + 1)..nextRunID : ~Decided(later, "Completed")
      BY DEF ReportInv
    <3>2. CASE finalState(c) = "completed"
      <4>1. reports' = {nextRunID}
        BY <2>1, <3>2 DEF keptReports
      <4>2. Decided(r, "Completed")' /\ (\A later \in (r + 1)..nextRunID : ~Decided(later, "Completed")') /\ r \in RunIDs => r = nextRunID
        BY <1>1, <2>2, <3>2
      <4> QED
        BY <1>1, <2>1, <2>2, <3>2, <4>1, <4>2
    <3>3. CASE finalState(c) # "completed"
      <4>1. reports' = reports
        BY <2>1, <3>3 DEF keptReports
      <4>2. \A q : Decided(q, "Completed")' <=> Decided(q, "Completed")
        BY <2>2, <2>3, <3>3
      <4> QED
        BY <3>1, <4>1, <4>2
    <3> QED
      BY <3>2, <3>3
  <2> QED
    BY <1>1, <2>1, <2>4 DEF ReportInv
<1> QED
  BY <1>2, <1>3

-----------------------------------------------------------------------------
(* What listeners have been shown, and that it follows RunLifecycle        *)

\* When a call begins to emit, nobody else does, and no event has been shown
\* meanwhile.
LEMMA LogAnnounced ==
  ASSUME TypeOK, NEW c \in Call, NEW run \in Nat, NEW names \in Seq(Names),
         Lock, Announce(c, run, names), run = nextRunID',
         \/ active' = Inactive /\ (Pends(c, names)' => Ending(c)')
         \/ active' # Inactive /\ (Pends(c, names)' => Changing(c)')
  PROVE  LogInv'
<1>1. /\ eventMu' = c /\ c # Free
      /\ \A d \in Call \ {c} : pending'[d] = << >>
  BY Announcement, ServiceAssumption DEF TypeOK, Lock, Call
<1>2. Pends(c, names)'
  BY Announcement DEF Pends
<1> QED
  BY <1>1, <1>2 DEF LogInv

\* The same of a single event.
LEMMA LogAnnouncedOne ==
  ASSUME TypeOK, NEW c \in Call, NEW run \in Nat, NEW name \in Names,
         Lock, Announce(c, run, <<name>>), run = nextRunID', active' # Inactive,
         Pends(c, <<name>>)' => Changing(c)'
  PROVE  LogInv'
<1>1. <<name>> \in Seq(Names)
  OBVIOUS
<1> QED
  BY <1>1, LogAnnounced

\* While no event is emitted, listeners know what they knew.
LEMMA ShowsUnchanged ==
  ASSUME events' = events, nextRunID' = nextRunID
  PROVE  /\ lastEvent' = lastEvent
         /\ \A names, asked : Shows(names, asked)' <=> Shows(names, asked)
BY DEF Shows, lastEvent, Shown

\* What emitting an event of the last run does to the log and the mutex.
LEMMA EmitOne ==
  ASSUME TypeOK, NEW c \in Call, Emit(c), NEW name, pending[c][1] = Event(nextRunID, name)
  PROVE  /\ UNCHANGED <<active, nextRunID>>
         /\ lastEvent'.run = nextRunID /\ lastEvent'.name = name
         /\ Shown(nextRunID, "cancelling")' <=> Shown(nextRunID, "cancelling") \/ name = "cancelling"
         /\ Len(pending[c]) = 1 => /\ eventMu' = Free
                                   /\ \A d \in Call : pending'[d] = << >>
         /\ Len(pending[c]) # 1 => /\ eventMu' # Free
                                   /\ \A d \in Call \ {c} : pending'[d] = << >>
                                   /\ Len(pending'[c]) = Len(pending[c]) - 1
                                   /\ \A i \in 1..(Len(pending[c]) - 1) : pending'[c][i] = pending[c][i + 1]
<1>1. UNCHANGED <<active, nextRunID>> /\ eventMu' = (IF Len(pending[c]) = 1 THEN Free ELSE eventMu) /\ eventMu = c
  BY DEF Emit, service, TypeOK
<1>2. lastEvent' = Event(nextRunID, name)
  BY Emission
<1>3. lastEvent'.run = nextRunID /\ lastEvent'.name = name
  BY <1>2 DEF Event
<1>4. Shown(nextRunID, "cancelling")' <=> Shown(nextRunID, "cancelling") \/ name = "cancelling"
  BY <1>1, Emission, EventsDiffer
<1>5. \A d \in Call \ {c} : pending'[d] = << >>
  BY <1>1, Emission DEF TypeOK
<1>6. c # Free
  BY ServiceAssumption DEF Call
<1>7. ASSUME Len(pending[c]) = 1
      PROVE  pending'[c] = << >>
  <2>1. pending'[c] \in Seq([run : RunIDs, name : Names]) /\ Len(pending'[c]) = Len(pending[c]) - 1
    BY Emission
  <2>2. Len(pending'[c]) = 0
    BY <1>7, <2>1
  <2> QED
    BY <2>1, <2>2, EmptyIfNoElement
<1> QED
  BY <1>1, <1>3, <1>4, <1>5, <1>6, <1>7, Emission

\* An event that follows another of the same run is a step of its lifecycle.
LEMMA ListenersFollow ==
  ASSUME TypeOK, NEW c \in Call, Emit(c), NEW name \in Lifecycle!Names, pending[c][1] = Event(nextRunID, name),
         NEW before, NEW asked \in BOOLEAN, Shows(before, asked),
         asked => \A b \in before : <<b, name>> \in Lifecycle!Asked,
         ~asked => \A b \in before : <<b, name>> \in Lifecycle!Unasked,
         name = "cancelling" => asked
  PROVE  Lifecycle!Next
<1>1. /\ lastEvent.run = nextRunID /\ lastEvent'.run = nextRunID /\ nextRunID' = nextRunID
      /\ lastEvent.name \in before /\ lastEvent'.name = name
      /\ Shown(nextRunID, "cancelling") <=> asked
      /\ Shown(nextRunID, "cancelling")' <=> asked
  BY EmitOne DEF Shows
<1>2. <<lastEvent.name, name>> \in IF asked THEN Lifecycle!Asked ELSE Lifecycle!Unasked
  BY <1>1
<1>3. <<lastEvent.name, name>> \in IF Shown(lastEvent.run, "cancelling") THEN Lifecycle!Asked ELSE Lifecycle!Unasked
  BY <1>1, <1>2
<1>4. Shown(lastEvent.run, "cancelling")' = Shown(lastEvent.run, "cancelling")
  <2>1. \A r : r = nextRunID => (Shown(r, "cancelling")' <=> asked)
    BY <1>1
  <2>2. Shown(lastEvent.run, "cancelling")' <=> asked
    BY <1>1, <2>1
  <2> QED
    BY <1>1, <2>2 DEF Shown
<1>5. Lifecycle!Follow(name)
  BY <1>1, <1>3, <1>4 DEF Lifecycle!Follow
<1> QED
  BY <1>5 DEF Lifecycle!Next

\* A step that announces nothing leaves the listeners where they are.
LEMMA LogUnchanged ==
  ASSUME LogInv, UNCHANGED <<active, nextRunID, emission>>
  PROVE  LogInv'
<1>1. /\ lastEvent' = lastEvent /\ UNCHANGED <<pending, eventMu, active, nextRunID>>
      /\ \A names, asked : Shows(names, asked)' <=> Shows(names, asked)
      /\ Shown(nextRunID, "cancelling")' <=> Shown(nextRunID, "cancelling")
  BY ShowsUnchanged DEF emission, Shown
<1>2. \A c, names : Pends(c, names)' <=> Pends(c, names)
  BY <1>1 DEF Pends
<1>3. Settled' <=> Settled
  BY <1>1 DEF Settled
<1>4. ASSUME NEW c \in Call
      PROVE  (Ending(c)' <=> Ending(c)) /\ (Changing(c)' <=> Changing(c))
  <2>1. Ending(c)' <=> Ending(c)
    BY <1>1, <1>2 DEF Ending
  <2>2. Changing(c)' <=> Changing(c)
    BY <1>1, <1>2 DEF Changing
  <2> QED
    BY <2>1, <2>2
<1> QED
  BY <1>1, <1>3, <1>4 DEF LogInv

\* What FinishRun has left to emit follows what listeners have been shown.
LEMMA LogFinished ==
  ASSUME TypeOK, RunInv, PlaceInv, LogInv, NEW c \in Starts, FinishRun(c)
  PROVE  LogInv'
<1>1. /\ Owns(c) /\ At(c, "finish") /\ Lock /\ Settled
      /\ Announce(c, runID[c], lastEvents(finalState(c)))
      /\ nextRunID' = nextRunID
  BY DEF FinishRun, At, Owns, LogInv, Lock
<1>2. /\ active # Inactive /\ active.id = runID[c] /\ runID[c] = nextRunID /\ nextRunID \in Nat
      /\ active' = Inactive
  BY <1>1, OwnsRun DEF FinishRun, TypeOK
<1>3. lastEvents(finalState(c)) \in Seq(Names)
  BY LastEvents
<1>4. events' = events
  BY <1>1, <1>2, <1>3, Announcement DEF Call
<1>5. \A names, asked : Shows(names, asked)' <=> Shows(names, asked)
  BY <1>1, <1>4, ShowsUnchanged
<1> DEFINE last == lastEvents(finalState(c))
<1>6. ASSUME NEW names \in Seq(Names), last = names, Pends(c, names)' => Ending(c)'
      PROVE  LogInv'
  BY <1>1, <1>2, <1>6, LogAnnounced DEF Call
<1> HIDE DEF last
<1>7. CASE active.state = "cancelling"
  <2>1. last = <<"cancelled", "Cancelled", "idle">>
    BY <1>2, <1>7 DEF last, finalState, lastEvents
  <2>2. Shows({"cancelling", "Progress"}, TRUE)'
    BY <1>1, <1>5, <1>7 DEF Settled
  <2> QED
    BY <1>3, <1>6, <2>1, <2>2 DEF Ending, last
<1>8. CASE active.state = "validating"
  <2>1. causes[c] \in {{"validation"}, {"confirmation"}}
    BY <1>1, <1>8 DEF PlaceInv, At
  <2>2. last \in {<<"failed", "Failed">>, <<"awaiting-confirmation">>}
    BY <1>8, <2>1 DEF last, finalState, target, lastEvents
  <2>3. Shows({"validating"}, FALSE)'
    BY <1>1, <1>5, <1>8 DEF Settled
  <2>4. Shows({"validating", "running", "Progress"}, FALSE)'
    BY <2>3 DEF Shows
  <2>5. CASE last = <<"failed", "Failed">>
    BY <1>3, <1>6, <2>4, <2>5 DEF Ending, last
  <2>6. CASE last = <<"awaiting-confirmation">>
    BY <1>3, <1>6, <2>3, <2>6 DEF Ending, last
  <2> QED
    BY <2>2, <2>5, <2>6
<1>9. CASE active.state = "running"
  <2>1. causes[c] \in {{}, {"io"}}
    BY <1>1, <1>9 DEF PlaceInv, At
  <2>2. last \in {<<"failed", "Failed">>, <<"completed", "Completed">>}
    BY <1>9, <2>1 DEF last, finalState, target, lastEvents
  <2>3. Shows({"running", "Progress"}, FALSE)'
    BY <1>1, <1>5, <1>9 DEF Settled
  <2>4. Shows({"validating", "running", "Progress"}, FALSE)'
    BY <2>3 DEF Shows
  <2>5. CASE last = <<"failed", "Failed">>
    BY <1>3, <1>6, <2>4, <2>5 DEF Ending, last
  <2>6. CASE last = <<"completed", "Completed">>
    BY <1>3, <1>6, <2>3, <2>6 DEF Ending, last
  <2> QED
    BY <2>2, <2>5, <2>6
<1> QED
  BY <1>2, <1>7, <1>8, <1>9, ActiveRun

\* So does what a call has to emit that leaves the run active.
LEMMA LogChanged ==
  ASSUME TypeOK, RunInv, PlaceInv, LogInv, NEW c \in Call,
         \/ c \in Starts /\ (BeginRun(c) \/ SetRunning(c) \/ Progress(c))
         \/ c \in Cancels /\ \E run \in 0..nextRunID : Cancel(c, run)
  PROVE  LogInv'
<1>1. nextRunID \in Nat
  BY DEF TypeOK
<1>2. ASSUME Lock
      PROVE  Settled
  BY <1>2 DEF LogInv, Lock
<1>3. ASSUME BeginRun(c)
      PROVE  LogInv'
  <2>1. CASE active # Inactive
    BY <1>3, <2>1, LogUnchanged DEF BeginRun, service
  <2>2. CASE active = Inactive
    <3>1. /\ Lock /\ nextRunID' = nextRunID + 1 /\ active' = [id |-> nextRunID', state |-> "validating"]
          /\ Announce(c, nextRunID', <<"validating">>)
      BY <1>3, <2>2 DEF BeginRun
    <3>2. active'.state = "validating" /\ active' # Inactive /\ nextRunID' \in Nat /\ "validating" \in Names
      BY <1>1, <3>1 DEF Inactive, NoRun, Names, RunStates
    <3>3. /\ events' = events /\ lastEvent' = lastEvent
      BY <3>1 DEF Announce, lastEvent
    <3>4. lastEvent'.run = nextRunID' - 1 /\ lastEvent'.name \in Lifecycle!Over
      BY <1>1, <1>2, <2>2, <3>1, <3>3 DEF Settled
    <3>5. ~Shown(nextRunID, "cancelling")'
      <4>1. ~Shown(nextRunID + 1, "cancelling")
        BY NothingDecidedAhead, ActiveRun DEF Decided
      <4> QED
        BY <3>1, <3>3, <4>1 DEF Shown
    <3>6. Pends(c, <<"validating">>)' => Changing(c)'
      BY <3>2, <3>4, <3>5 DEF Changing, Lifecycle!Over
    <3>7. ASSUME NEW run \in Nat, run = nextRunID'
          PROVE  LogInv'
      BY <3>1, <3>2, <3>6, <3>7, LogAnnouncedOne
    <3> QED
      BY <3>2, <3>7
  <2> QED
    BY <2>1, <2>2
<1>4. ASSUME SetRunning(c), c \in Starts
      PROVE  LogInv'
  <2>1. Owns(c) /\ Lock /\ Settled /\ At(c, "setRunning")
    BY <1>2, <1>4 DEF SetRunning, At, Owns
  <2>2. active.id = runID[c] /\ runID[c] = nextRunID /\ active # Inactive
    BY <1>4, <2>1, OwnsRun
  <2>3. CASE active.state = "cancelling"
    BY <1>4, <2>3, LogUnchanged DEF SetRunning
  <2>4. CASE active.state # "cancelling"
    <3>1. /\ active' = [active EXCEPT !.state = "running"] /\ Announce(c, runID[c], <<"running">>)
          /\ nextRunID' = nextRunID
      BY <1>4, <2>2, <2>4 DEF SetRunning
    <3>2. active'.state = "running" /\ active' # Inactive /\ "running" \in Names
      BY <2>2, <3>1 DEF TypeOK, Inactive, Names, RunStates
    <3>3. active.state = "validating"
      BY <1>4, <2>1, <2>4 DEF PlaceInv, At
    <3>4. Shows({"validating"}, FALSE)'
      BY <2>1, <3>1, <3>3, ShowsUnchanged DEF Announce, Settled
    <3>5. Pends(c, <<"running">>)' => Changing(c)'
      BY <3>2, <3>4 DEF Changing
    <3> QED
      BY <1>1, <2>1, <2>2, <3>1, <3>2, <3>5, LogAnnouncedOne
  <2> QED
    BY <2>3, <2>4
<1>5. ASSUME Progress(c), c \in Starts
      PROVE  LogInv'
  <2>1. Owns(c) /\ Lock /\ Settled /\ At(c, "run")
    BY <1>2, <1>5 DEF Progress, At, Owns
  <2>2. active.id = runID[c] /\ runID[c] = nextRunID /\ active # Inactive
    BY <1>5, <2>1, OwnsRun
  <2>3. Announce(c, runID[c], <<"Progress">>) /\ active' = active /\ nextRunID' = nextRunID /\ events' = events
    BY <1>5 DEF Progress, service, Announce
  <2>4. active.state \in {"running", "cancelling"}
    BY <1>5, <2>1 DEF PlaceInv, At
  <2>5. \/ active'.state = "running" /\ Shows({"running", "Progress"}, FALSE)'
        \/ active'.state = "cancelling" /\ Shows({"cancelling", "Progress"}, TRUE)'
    BY <2>1, <2>3, <2>4, ShowsUnchanged DEF Settled
  <2>6. Pends(c, <<"Progress">>)' => Changing(c)'
    BY <2>5 DEF Changing
  <2>7. "Progress" \in Names
    BY DEF Names
  <2> QED
    BY <1>1, <2>1, <2>2, <2>3, <2>6, <2>7, LogAnnouncedOne
<1>6. ASSUME NEW run \in 0..nextRunID, Cancel(c, run), c \in Cancels
      PROVE  LogInv'
  <2>1. CASE active = Inactive \/ run \notin {NoRun, active.id}
    BY <1>6, <2>1, LogUnchanged DEF Cancel
  <2>2. CASE ~(active = Inactive \/ run \notin {NoRun, active.id})
    <3>1. /\ Lock /\ Settled /\ active' = [active EXCEPT !.state = "cancelling"]
          /\ Announce(c, active.id, <<"cancelling">>) /\ nextRunID' = nextRunID /\ events' = events
          /\ active.id = nextRunID
      BY <1>2, <1>6, <2>2 DEF Cancel, RunInv, Announce
    <3>2. active'.state = "cancelling" /\ active' # Inactive /\ "cancelling" \in Names
      BY <2>2, <3>1 DEF TypeOK, Inactive, Names, RunStates
    <3>3. \/ Shows({"validating"}, FALSE)
          \/ Shows({"running", "Progress"}, FALSE)
          \/ Shows({"cancelling", "Progress"}, TRUE)
      BY <2>2, <3>1, ActiveRun DEF Settled
    <3>4. Shows({"validating", "running", "Progress"}, FALSE)' \/ Shows({"cancelling", "Progress"}, TRUE)'
      <4>1. Shows({"validating", "running", "Progress"}, FALSE) \/ Shows({"cancelling", "Progress"}, TRUE)
        BY <3>3 DEF Shows
      <4> QED
        BY <3>1, <4>1, ShowsUnchanged
    <3>5. Pends(c, <<"cancelling">>)' => Changing(c)'
      BY <3>2, <3>4 DEF Changing
    <3> QED
      BY <1>1, <3>1, <3>2, <3>5, LogAnnouncedOne
  <2> QED
    BY <2>1, <2>2
<1> QED
  BY <1>1, <1>3, <1>4, <1>5, <1>6

\* What remains to be emitted, or the settled state, follows the event emitted.
LEMMA LogEmitted ==
  ASSUME TypeOK, NEW c \in Call, Emit(c), NEW name, pending[c][1] = Event(nextRunID, name),
         Len(pending[c]) = 1 => Settled',
         Len(pending[c]) # 1 => active = Inactive /\ Ending(c)'
  PROVE  LogInv'
<1>1. CASE Len(pending[c]) = 1
  <2>1. Settled' /\ \A d \in Call : pending'[d] = << >>
    BY <1>1, EmitOne
  <2> QED
    BY <2>1 DEF LogInv
<1>2. CASE Len(pending[c]) # 1
  <2>1. /\ active' = Inactive /\ Ending(c)' /\ eventMu' # Free
        /\ \A d \in Call \ {c} : pending'[d] = << >>
    BY <1>2, EmitOne
  <2> QED
    BY <2>1 DEF LogInv
<1> QED
  BY <1>1, <1>2

\* After the last of the events that end a run, no run is active.
LEMMA SettledAtEnd ==
  ASSUME TypeOK, NEW c \in Call, Emit(c), NEW name \in Lifecycle!Over, pending[c][1] = Event(nextRunID, name),
         active = Inactive
  PROVE  Settled'
<1>1. /\ active' = Inactive /\ nextRunID' = nextRunID
      /\ lastEvent'.run = nextRunID /\ lastEvent'.name = name
  BY EmitOne
<1>2. Inactive.state = "idle"
  BY DEF Inactive
<1> QED
  BY <1>1, <1>2 DEF Settled

\* After the first of several events the others are pending.
LEMMA RestIsPending ==
  ASSUME TypeOK, NEW c \in Call, Emit(c), NEW names \in Seq(Names), NEW rest \in Seq(Names) \ {<< >>},
         Pends(c, names), Len(names) = Len(rest) + 1, NEW first, names[1] = first, first # "cancelling",
         \A i \in 1..Len(rest) : rest[i] = names[i + 1],
         NEW before, NEW asked \in BOOLEAN, Shows(before, asked)
  PROVE  Pends(c, rest)' /\ Shows({first}, asked)'
<1>1. /\ Len(pending[c]) = Len(rest) + 1 /\ Len(rest) \in Nat \ {0}
      /\ pending[c][1] = Event(nextRunID, first)
      /\ \A i \in 1..Len(rest) : pending[c][i + 1] = Event(nextRunID, rest[i])
  <2>1. Len(rest) \in Nat \ {0}
    BY EmptySeq
  <2> QED
    BY <2>1 DEF Pends
<1>2. /\ nextRunID' = nextRunID
      /\ lastEvent'.run = nextRunID /\ lastEvent'.name = first
      /\ Shown(nextRunID, "cancelling")' <=> Shown(nextRunID, "cancelling")
      /\ Len(pending'[c]) = Len(pending[c]) - 1
      /\ \A i \in 1..(Len(pending[c]) - 1) : pending'[c][i] = pending[c][i + 1]
  BY <1>1, EmitOne
<1>3. Pends(c, rest)'
  BY <1>1, <1>2 DEF Pends
<1>4. Shown(nextRunID, "cancelling")' <=> asked
  BY <1>2 DEF Shows
<1> QED
  BY <1>2, <1>3, <1>4 DEF Shows

\* To emit an event keeps what listeners know in order, and is a step of the
\* lifecycle.
LEMMA EmitStep ==
  ASSUME TypeOK, LogInv, NEW c \in Call, Emit(c)
  PROVE  LogInv' /\ Lifecycle!Next
<1>1. pending[c] # << >> /\ nextRunID \in Nat
  BY DEF Emit, TypeOK
<1>2. ASSUME active = Inactive, Ending(c)
      PROVE  LogInv' /\ Lifecycle!Next
  <2>1. CASE Pends(c, <<"cancelled", "Cancelled", "idle">>) /\ Shows({"cancelling", "Progress"}, TRUE)
    <3>1. /\ Len(pending[c]) = 3
          /\ pending[c][1] = Event(nextRunID, "cancelled")
          /\ pending[c][2] = Event(nextRunID, "Cancelled")
          /\ pending[c][3] = Event(nextRunID, "idle")
      BY <2>1 DEF Pends
    <3>2. Lifecycle!Next
      <4>1. "cancelled" \in Lifecycle!Names /\ \A b \in {"cancelling", "Progress"} : <<b, "cancelled">> \in Lifecycle!Asked
        BY DEF Lifecycle!Names, Lifecycle!Asked
      <4> QED
        BY <2>1, <3>1, <4>1, ListenersFollow
    <3>3. Pends(c, <<"Cancelled", "idle">>)' /\ Shows({"cancelled"}, TRUE)'
      <4>1. <<"cancelled", "Cancelled", "idle">> \in Seq(Names) /\ <<"Cancelled", "idle">> \in Seq(Names) \ {<< >>}
        BY DEF Names, RunStates
      <4>2. /\ Len(<<"cancelled", "Cancelled", "idle">>) = Len(<<"Cancelled", "idle">>) + 1 /\ <<"cancelled", "Cancelled", "idle">>[1] = "cancelled"
            /\ \A i \in 1..Len(<<"Cancelled", "idle">>) : <<"Cancelled", "idle">>[i] = <<"cancelled", "Cancelled", "idle">>[i + 1]
        OBVIOUS
      <4> QED
        BY <2>1, <4>1, <4>2, RestIsPending
    <3>4. Ending(c)'
      BY <3>3 DEF Ending
    <3> QED
      BY <1>2, <3>1, <3>2, <3>4, LogEmitted
  <2>2. CASE Pends(c, <<"Cancelled", "idle">>) /\ Shows({"cancelled"}, TRUE)
    <3>1. /\ Len(pending[c]) = 2
          /\ pending[c][1] = Event(nextRunID, "Cancelled")
          /\ pending[c][2] = Event(nextRunID, "idle")
      BY <2>2 DEF Pends
    <3>2. Lifecycle!Next
      <4>1. "Cancelled" \in Lifecycle!Names /\ \A b \in {"cancelled"} : <<b, "Cancelled">> \in Lifecycle!Asked
        BY DEF Lifecycle!Names, Lifecycle!Asked
      <4> QED
        BY <2>2, <3>1, <4>1, ListenersFollow
    <3>3. Pends(c, <<"idle">>)' /\ Shows({"Cancelled"}, TRUE)'
      <4>1. <<"Cancelled", "idle">> \in Seq(Names) /\ <<"idle">> \in Seq(Names) \ {<< >>}
        BY DEF Names, RunStates
      <4>2. /\ Len(<<"Cancelled", "idle">>) = Len(<<"idle">>) + 1 /\ <<"Cancelled", "idle">>[1] = "Cancelled"
            /\ \A i \in 1..Len(<<"idle">>) : <<"idle">>[i] = <<"Cancelled", "idle">>[i + 1]
        OBVIOUS
      <4> QED
        BY <2>2, <4>1, <4>2, RestIsPending
    <3>4. Ending(c)'
      BY <3>3 DEF Ending
    <3> QED
      BY <1>2, <3>1, <3>2, <3>4, LogEmitted
  <2>3. CASE Pends(c, <<"idle">>) /\ Shows({"Cancelled"}, TRUE)
    <3>1. /\ Len(pending[c]) = 1
          /\ pending[c][1] = Event(nextRunID, "idle")
      BY <2>3 DEF Pends
    <3>2. Lifecycle!Next
      <4>1. "idle" \in Lifecycle!Names /\ \A b \in {"Cancelled"} : <<b, "idle">> \in Lifecycle!Asked
        BY DEF Lifecycle!Names, Lifecycle!Asked
      <4> QED
        BY <2>3, <3>1, <4>1, ListenersFollow
    <3>3. Settled'
      BY <1>2, <3>1, SettledAtEnd DEF Lifecycle!Over
    <3> QED
      BY <3>1, <3>2, <3>3, LogEmitted
  <2>4. CASE Pends(c, <<"failed", "Failed">>) /\ Shows({"validating", "running", "Progress"}, FALSE)
    <3>1. /\ Len(pending[c]) = 2
          /\ pending[c][1] = Event(nextRunID, "failed")
          /\ pending[c][2] = Event(nextRunID, "Failed")
      BY <2>4 DEF Pends
    <3>2. Lifecycle!Next
      <4>1. "failed" \in Lifecycle!Names /\ \A b \in {"validating", "running", "Progress"} : <<b, "failed">> \in Lifecycle!Unasked
        BY DEF Lifecycle!Names, Lifecycle!Unasked
      <4> QED
        BY <2>4, <3>1, <4>1, ListenersFollow
    <3>3. Pends(c, <<"Failed">>)' /\ Shows({"failed"}, FALSE)'
      <4>1. <<"failed", "Failed">> \in Seq(Names) /\ <<"Failed">> \in Seq(Names) \ {<< >>}
        BY DEF Names, RunStates
      <4>2. /\ Len(<<"failed", "Failed">>) = Len(<<"Failed">>) + 1 /\ <<"failed", "Failed">>[1] = "failed"
            /\ \A i \in 1..Len(<<"Failed">>) : <<"Failed">>[i] = <<"failed", "Failed">>[i + 1]
        OBVIOUS
      <4> QED
        BY <2>4, <4>1, <4>2, RestIsPending
    <3>4. Ending(c)'
      BY <3>3 DEF Ending
    <3> QED
      BY <1>2, <3>1, <3>2, <3>4, LogEmitted
  <2>5. CASE Pends(c, <<"Failed">>) /\ Shows({"failed"}, FALSE)
    <3>1. /\ Len(pending[c]) = 1
          /\ pending[c][1] = Event(nextRunID, "Failed")
      BY <2>5 DEF Pends
    <3>2. Lifecycle!Next
      <4>1. "Failed" \in Lifecycle!Names /\ \A b \in {"failed"} : <<b, "Failed">> \in Lifecycle!Unasked
        BY DEF Lifecycle!Names, Lifecycle!Unasked
      <4> QED
        BY <2>5, <3>1, <4>1, ListenersFollow
    <3>3. Settled'
      BY <1>2, <3>1, SettledAtEnd DEF Lifecycle!Over
    <3> QED
      BY <3>1, <3>2, <3>3, LogEmitted
  <2>6. CASE Pends(c, <<"completed", "Completed">>) /\ Shows({"running", "Progress"}, FALSE)
    <3>1. /\ Len(pending[c]) = 2
          /\ pending[c][1] = Event(nextRunID, "completed")
          /\ pending[c][2] = Event(nextRunID, "Completed")
      BY <2>6 DEF Pends
    <3>2. Lifecycle!Next
      <4>1. "completed" \in Lifecycle!Names /\ \A b \in {"running", "Progress"} : <<b, "completed">> \in Lifecycle!Unasked
        BY DEF Lifecycle!Names, Lifecycle!Unasked
      <4> QED
        BY <2>6, <3>1, <4>1, ListenersFollow
    <3>3. Pends(c, <<"Completed">>)' /\ Shows({"completed"}, FALSE)'
      <4>1. <<"completed", "Completed">> \in Seq(Names) /\ <<"Completed">> \in Seq(Names) \ {<< >>}
        BY DEF Names, RunStates
      <4>2. /\ Len(<<"completed", "Completed">>) = Len(<<"Completed">>) + 1 /\ <<"completed", "Completed">>[1] = "completed"
            /\ \A i \in 1..Len(<<"Completed">>) : <<"Completed">>[i] = <<"completed", "Completed">>[i + 1]
        OBVIOUS
      <4> QED
        BY <2>6, <4>1, <4>2, RestIsPending
    <3>4. Ending(c)'
      BY <3>3 DEF Ending
    <3> QED
      BY <1>2, <3>1, <3>2, <3>4, LogEmitted
  <2>7. CASE Pends(c, <<"Completed">>) /\ Shows({"completed"}, FALSE)
    <3>1. /\ Len(pending[c]) = 1
          /\ pending[c][1] = Event(nextRunID, "Completed")
      BY <2>7 DEF Pends
    <3>2. Lifecycle!Next
      <4>1. "Completed" \in Lifecycle!Names /\ \A b \in {"completed"} : <<b, "Completed">> \in Lifecycle!Unasked
        BY DEF Lifecycle!Names, Lifecycle!Unasked
      <4> QED
        BY <2>7, <3>1, <4>1, ListenersFollow
    <3>3. Settled'
      BY <1>2, <3>1, SettledAtEnd DEF Lifecycle!Over
    <3> QED
      BY <3>1, <3>2, <3>3, LogEmitted
  <2>8. CASE Pends(c, <<"awaiting-confirmation">>) /\ Shows({"validating"}, FALSE)
    <3>1. /\ Len(pending[c]) = 1
          /\ pending[c][1] = Event(nextRunID, "awaiting-confirmation")
      BY <2>8 DEF Pends
    <3>2. Lifecycle!Next
      <4>1. "awaiting-confirmation" \in Lifecycle!Names /\ \A b \in {"validating"} : <<b, "awaiting-confirmation">> \in Lifecycle!Unasked
        BY DEF Lifecycle!Names, Lifecycle!Unasked
      <4> QED
        BY <2>8, <3>1, <4>1, ListenersFollow
    <3>3. Settled'
      BY <1>2, <3>1, SettledAtEnd DEF Lifecycle!Over
    <3> QED
      BY <3>1, <3>2, <3>3, LogEmitted
  <2> QED
    BY <1>2, <2>1, <2>2, <2>3, <2>4, <2>5, <2>6, <2>7, <2>8 DEF Ending
<1>3. ASSUME active # Inactive, Changing(c)
      PROVE  LogInv' /\ Lifecycle!Next
  <2>1. CASE /\ active.state = "validating" /\ Pends(c, <<"validating">>)
             /\ lastEvent.run = nextRunID - 1 /\ lastEvent.name \in Lifecycle!Over
             /\ ~Shown(nextRunID, "cancelling")
    <3>1. Len(pending[c]) = 1 /\ pending[c][1] = Event(nextRunID, "validating")
      BY <2>1 DEF Pends
    <3>2. /\ UNCHANGED <<active, nextRunID>>
          /\ lastEvent'.run = nextRunID /\ lastEvent'.name = "validating"
          /\ ~Shown(nextRunID, "cancelling")'
      BY <2>1, <3>1, EmitOne
    <3>3. Settled'
      BY <1>3, <2>1, <3>2 DEF Settled, Shows
    <3>4. Shown(lastEvent.run, "cancelling")' = FALSE
      <4>1. \A r : r = nextRunID => ~Shown(r, "cancelling")'
        BY <3>2
      <4> QED
        BY <3>2, <4>1
    <3>5. Lifecycle!Open
      BY <1>1, <2>1, <3>2, <3>4 DEF Lifecycle!Open
    <3> QED
      BY <3>1, <3>3, <3>5, LogEmitted DEF Lifecycle!Next
  <2>2. CASE active.state = "running" /\ Pends(c, <<"running">>) /\ Shows({"validating"}, FALSE)
    <3>1. Len(pending[c]) = 1 /\ pending[c][1] = Event(nextRunID, "running")
      BY <2>2 DEF Pends
    <3>2. Lifecycle!Next
      <4>1. "running" \in Lifecycle!Names /\ \A b \in {"validating"} : <<b, "running">> \in Lifecycle!Unasked
        BY DEF Lifecycle!Names, Lifecycle!Unasked
      <4> QED
        BY <2>2, <3>1, <4>1, ListenersFollow
    <3>3. Settled'
      BY <1>3, <2>2, <3>1, EmitOne DEF Settled, Shows
    <3> QED
      BY <3>1, <3>2, <3>3, LogEmitted
  <2>3. CASE active.state = "running" /\ Pends(c, <<"Progress">>) /\ Shows({"running", "Progress"}, FALSE)
    <3>1. Len(pending[c]) = 1 /\ pending[c][1] = Event(nextRunID, "Progress")
      BY <2>3 DEF Pends
    <3>2. Lifecycle!Next
      <4>1. "Progress" \in Lifecycle!Names /\ \A b \in {"running", "Progress"} : <<b, "Progress">> \in Lifecycle!Unasked
        BY DEF Lifecycle!Names, Lifecycle!Unasked
      <4> QED
        BY <2>3, <3>1, <4>1, ListenersFollow
    <3>3. Settled'
      BY <1>3, <2>3, <3>1, EmitOne DEF Settled, Shows
    <3> QED
      BY <3>1, <3>2, <3>3, LogEmitted
  <2>4. CASE active.state = "cancelling" /\ Pends(c, <<"Progress">>) /\ Shows({"cancelling", "Progress"}, TRUE)
    <3>1. Len(pending[c]) = 1 /\ pending[c][1] = Event(nextRunID, "Progress")
      BY <2>4 DEF Pends
    <3>2. Lifecycle!Next
      <4>1. "Progress" \in Lifecycle!Names /\ \A b \in {"cancelling", "Progress"} : <<b, "Progress">> \in Lifecycle!Asked
        BY DEF Lifecycle!Names, Lifecycle!Asked
      <4> QED
        BY <2>4, <3>1, <4>1, ListenersFollow
    <3>3. Settled'
      BY <1>3, <2>4, <3>1, EmitOne DEF Settled, Shows
    <3> QED
      BY <3>1, <3>2, <3>3, LogEmitted
  <2>5. CASE active.state = "cancelling" /\ Pends(c, <<"cancelling">>) /\ Shows({"cancelling", "Progress"}, TRUE)
    <3>1. Len(pending[c]) = 1 /\ pending[c][1] = Event(nextRunID, "cancelling")
      BY <2>5 DEF Pends
    <3>2. Lifecycle!Next
      <4>1. "cancelling" \in Lifecycle!Names /\ \A b \in {"cancelling", "Progress"} : <<b, "cancelling">> \in Lifecycle!Asked
        BY DEF Lifecycle!Names, Lifecycle!Asked
      <4> QED
        BY <2>5, <3>1, <4>1, ListenersFollow
    <3>3. Settled'
      BY <1>3, <2>5, <3>1, EmitOne DEF Settled, Shows
    <3> QED
      BY <3>1, <3>2, <3>3, LogEmitted
  <2>6. CASE /\ active.state = "cancelling" /\ Pends(c, <<"cancelling">>)
             /\ Shows({"validating", "running", "Progress"}, FALSE)
    <3>1. Len(pending[c]) = 1 /\ pending[c][1] = Event(nextRunID, "cancelling")
      BY <2>6 DEF Pends
    <3>2. /\ UNCHANGED <<active, nextRunID>>
          /\ lastEvent'.run = nextRunID /\ lastEvent'.name = "cancelling"
          /\ Shown(nextRunID, "cancelling")'
      BY <3>1, EmitOne
    <3>3. Settled'
      BY <1>3, <2>6, <3>2 DEF Settled, Shows
    <3>4. Shown(lastEvent.run, "cancelling")' = TRUE
      <4>1. \A r : r = nextRunID => Shown(r, "cancelling")'
        BY <3>2
      <4>2. Shown(lastEvent.run, "cancelling")'
        BY <3>2, <4>1
      <4> QED
        BY <4>2 DEF Shown
    <3>5. Lifecycle!AskToCancel
      BY <2>6, <3>2, <3>4 DEF Lifecycle!AskToCancel, Shows
    <3> QED
      BY <3>1, <3>3, <3>5, LogEmitted DEF Lifecycle!Next
  <2> QED
    BY <1>3, <2>1, <2>2, <2>3, <2>4, <2>5, <2>6 DEF Changing
<1> QED
  BY <1>1, <1>2, <1>3 DEF LogInv

\* A step that emits nothing keeps what listeners know in order.
LEMMA LogStep == TypeOK /\ RunInv /\ PlaceInv /\ LogInv /\ [Next]_vars => LogInv'
<1> SUFFICES ASSUME TypeOK, RunInv, PlaceInv, LogInv, [Next]_vars PROVE LogInv'
  OBVIOUS
<1>1. CASE \E c \in Call : Emit(c)
  BY <1>1, EmitStep
<1>2. ASSUME NEW c \in Starts, BeginRun(c) \/ SetRunning(c) \/ Progress(c)
      PROVE  LogInv'
  BY <1>2, LogChanged DEF Call
<1>3. ASSUME NEW c \in Cancels, NEW run \in 0..nextRunID, Cancel(c, run)
      PROVE  LogInv'
  BY <1>3, LogChanged DEF Call
<1>4. ASSUME NEW c \in Starts, FinishRun(c)
      PROVE  LogInv'
  BY <1>4, LogFinished
<1>5. CASE UNCHANGED <<active, nextRunID, emission>>
  BY <1>5, LogUnchanged
<1> QED
  BY <1>1, <1>2, <1>3, <1>4, <1>5 DEF Next, Start, Validate, RunReturns, vars, service

\* No step changes what has been shown but the emission of an event.
LEMMA OnlyEmitShows ==
  ASSUME [Next]_vars, \A c \in Call : ~Emit(c)
  PROVE  events' = events
<1>1. ASSUME NEW c \in Starts, Start(c)
      PROVE  events' = events
  <2>1. CASE BeginRun(c) BY <2>1 DEF BeginRun, Announce, emission
  <2>2. CASE Validate(c) BY <2>2 DEF Validate, emission
  <2>3. CASE SetRunning(c) BY <2>3 DEF SetRunning, Announce, emission
  <2>4. CASE Progress(c) BY <2>4 DEF Progress, Announce
  <2>5. CASE RunReturns(c) BY <2>5 DEF RunReturns, emission
  <2>6. CASE FinishRun(c) BY <2>6 DEF FinishRun, Announce
  <2> QED
    BY <1>1, <2>1, <2>2, <2>3, <2>4, <2>5, <2>6 DEF Start
<1>2. ASSUME NEW c \in Cancels, NEW run \in 0..nextRunID, Cancel(c, run)
      PROVE  events' = events
  BY <1>2 DEF Cancel, Announce, emission
<1> QED
  BY <1>1, <1>2 DEF Next, vars, emission

\* Every step is a step of the lifecycle that listeners see, or is not seen.
LEMMA LifecycleStep == TypeOK /\ LogInv /\ [Next]_vars => [Lifecycle!Next]_Lifecycle!vars
<1> SUFFICES ASSUME TypeOK, LogInv, [Next]_vars PROVE [Lifecycle!Next]_Lifecycle!vars
  OBVIOUS
<1>1. CASE \E c \in Call : Emit(c)
  BY <1>1, EmitStep
<1>2. CASE \A c \in Call : ~Emit(c)
  <2>1. events' = events
    BY <1>2, OnlyEmitShows
  <2> QED
    BY <2>1 DEF Lifecycle!vars, lastEvent, Shown
<1> QED
  BY <1>1, <1>2

-----------------------------------------------------------------------------
(* The invariant and the theorems *)

\* Nothing has been decided when the service begins.
LEMMA InvariantInit == Init => SafetyInv /\ LogInv
<1> SUFFICES ASSUME Init PROVE SafetyInv /\ LogInv
  OBVIOUS
<1>1. /\ nextRunID = 0 /\ RunIDs = {} /\ active = Inactive /\ events = << >> /\ reports = {} /\ contexts = {}
      /\ \A c \in Call : pending[c] = << >> /\ pc[c] = "uncalled" /\ runID[c] = NoRun
      /\ Starts \subseteq Call /\ Cancels \subseteq Call /\ Free \notin Call /\ eventMu = Free
  BY ServiceAssumption DEF Init, RunIDs, Call
<1>2. \A r, n : ~Decided(r, n)
  BY <1>1 DEF Decided, Shown, Pending
<1>3. TypeOK
  <2>1. \A S : << >> \in Seq(S)
    OBVIOUS
  <2>2. Result(NoRun, "idle", FALSE) \in [run : RunIDs \cup {NoRun}, state : RunStates, error : BOOLEAN]
    BY DEF Result, RunStates
  <2>3. result \in [Call -> [run : RunIDs \cup {NoRun}, state : RunStates, error : BOOLEAN]]
    BY <2>2 DEF Init
  <2>4. pending \in [Call -> Seq([run : RunIDs, name : Names])] /\ events \in Seq([run : RunIDs, name : Names])
    BY <2>1 DEF Init
  <2>5. \A c \in Call : eventMu = c <=> pending[c] # << >>
    BY <1>1
  <2>6. /\ pc \in [Call -> {"uncalled", "validate", "setRunning", "run", "finish", "returned"}]
        /\ runID \in [Call -> RunIDs \cup {NoRun}]
        /\ causes \in [Starts -> SUBSET {"validation", "confirmation", "canceled", "io", "remove"}]
    BY DEF Init
  <2> QED
    BY <1>1, <2>3, <2>4, <2>5, <2>6 DEF TypeOK
<1>4. RunInv /\ PlaceInv /\ PendingInv /\ OpenInv /\ ResultInv /\ CancelInv
  <2>1. \A c \in Call : ~Owns(c) /\ ~HasBegun(c) /\ pc[c] = "uncalled" /\ DOMAIN pending[c] = {}
    BY <1>1 DEF Owns, HasBegun
  <2>2. RunInv
    BY <1>1, <2>1 DEF RunInv, Owns
  <2>3. PlaceInv /\ ResultInv /\ CancelInv
    BY <1>1, <2>1 DEF PlaceInv, ResultInv, CancelInv
  <2>4. PendingInv /\ OpenInv
    BY <1>1, <2>1 DEF PendingInv, OpenInv
  <2> QED
    BY <2>2, <2>3, <2>4
<1>5. ReportInv
  BY <1>1 DEF ReportInv
<1>6. LogInv
  <2>1. lastEvent = Event(NoRun, "idle")
    BY <1>1 DEF lastEvent
  <2>2. lastEvent.run = nextRunID /\ lastEvent.name = "idle"
    BY <1>1, <2>1 DEF Event, NoRun
  <2> QED
    BY <1>1, <2>2 DEF LogInv, Settled, Inactive, Lifecycle!Over
<1> QED
  BY <1>3, <1>4, <1>5, <1>6 DEF SafetyInv

\* No step leaves the invariant.
LEMMA InvariantStep == SafetyInv /\ LogInv /\ [Next]_vars => (SafetyInv /\ LogInv)'
BY TypeStep, RunStep, PlaceStep, PendingStep, OpenStep, ResultStep, CancellationStep, ReportStep, LogStep DEF SafetyInv

\* The run control never leaves the states of the inductive invariant.
THEOREM InductiveInvariant == Spec => [](SafetyInv /\ LogInv)
BY InvariantInit, InvariantStep, PTL DEF Spec

\* The variables keep their types, and only the holder of eventMu has events to
\* emit.
THEOREM TypeCorrect == Spec => []TypeOK
<1>1. SafetyInv => TypeOK
  BY DEF SafetyInv
<1> QED
  BY <1>1, InductiveInvariant, PTL

\* However many calls of StartBenchmark race, at most one of them has a run that
\* is not finished, and the run is the active one.
THEOREM OneRunAtATime == Spec => []CallOwnsActiveRun
<1>1. SafetyInv => CallOwnsActiveRun
  BY DEF SafetyInv, RunInv, CallOwnsActiveRun, Owns
<1> QED
  BY <1>1, InductiveInvariant, PTL

\* An accepted cancellation is what the run is returned with, whenever it came.
THEOREM CancellationWins == Spec => []CancelIsHonoured
<1>1. SafetyInv => CancelIsHonoured
  <2> SUFFICES ASSUME SafetyInv, NEW c \in Cancels, NEW s \in Starts, Accepted(c), HasBegun(s), runID[s] = runID[c]
               PROVE  /\ At(s, "returned") =>
                           result[s] = Result(runID[s], "cancelled", "confirmation" \in causes[s])
                      /\ runID[s] \notin reports
    BY DEF CancelIsHonoured
  <2>1. runID[s] \notin reports /\ (pc[s] = "returned" => ReturnedCancelled(s))
    BY DEF SafetyInv, CancelInv
  <2>2. PICK unconfirmed \in BOOLEAN : unconfirmed <=> "confirmation" \in causes[s]
    OBVIOUS
  <2>3. unconfirmed = ("confirmation" \in causes[s])
    BY <2>2, Zenon
  <2>4. result[s] \in [run : RunIDs \cup {NoRun}, state : RunStates, error : BOOLEAN]
    BY DEF SafetyInv, TypeOK, Call
  <2>5. ReturnedCancelled(s) => result[s].error = unconfirmed
    BY <2>2, <2>4 DEF ReturnedCancelled
  <2>6. ReturnedCancelled(s) => result[s] = Result(runID[s], "cancelled", unconfirmed)
    BY <2>4, <2>5 DEF ReturnedCancelled, Result
  <2> QED
    BY <2>1, <2>3, <2>6, Zenon DEF At
<1> QED
  BY <1>1, InductiveInvariant, PTL

\* When a call has returned nobody has an end of its run yet to emit.
LEMMA EndsAreShown ==
  ASSUME SafetyInv, NEW s \in Starts, HasBegun(s), At(s, "returned"), NEW n \in Final
  PROVE  Decided(runID[s], n) <=> Shown(runID[s], n)
<1>1. ASSUME NEW c \in Call, NEW i \in DOMAIN pending[c], pending[c][i] = Event(runID[s], n)
      PROVE  FALSE
  <2>1. runID[c] = runID[s] /\ (c \in Cancels => n = "cancelling")
    BY <1>1 DEF SafetyInv, PendingInv, Event
  <2>2. c \in Starts
    BY <2>1 DEF Final, Call
  <2>3. c = s
    BY <2>1, <2>2 DEF SafetyInv, RunInv
  <2> QED
    BY <1>1, <2>3 DEF At
<1> QED
  BY <1>1 DEF Decided, Pending

\* What a call of StartBenchmark returns is what its events have shown.
THEOREM ResultsMatchEvents == Spec => []ResultMatchesEvents
<1>1. SafetyInv => ResultMatchesEvents
  <2> SUFFICES ASSUME SafetyInv, NEW s \in Starts, HasBegun(s), At(s, "returned")
               PROVE  /\ Shown(runID[s], result[s].state)
                      /\ Shown(runID[s], "Completed") <=> result[s].state = "completed"
                      /\ Shown(runID[s], "Failed") <=> result[s].state = "failed"
                      /\ Shown(runID[s], "Cancelled") <=> result[s].state = "cancelled"
                      /\ result[s].error <=> Shown(runID[s], "Failed") \/ "confirmation" \in causes[s]
    BY DEF ResultMatchesEvents
  <2>1. \A n \in Final : Decided(runID[s], n) <=> Shown(runID[s], n)
    BY EndsAreShown
  <2> QED
    BY <2>1 DEF SafetyInv, ResultInv, At, Final
<1> QED
  BY <1>1, InductiveInvariant, PTL

\* The report kept for export is that of the last run shown to have completed.
THEOREM ReportIsKept == Spec => []LastReportIsKept
<1>1. SafetyInv => LastReportIsKept
  <2> SUFFICES ASSUME SafetyInv, eventMu = Free
               PROVE  reports = {r \in RunIDs : Shown(r, "Completed")
                                   /\ \A later \in (r + 1)..nextRunID : ~Shown(later, "Completed")}
    BY DEF LastReportIsKept
  <2>1. \A c \in Call : pending[c] = << >>
    BY ServiceAssumption DEF SafetyInv, TypeOK, Call
  <2>2. \A r, n : Decided(r, n) <=> Shown(r, n)
    BY <2>1 DEF Decided, Pending
  <2> QED
    BY <2>2 DEF SafetyInv, ReportInv
<1> QED
  BY <1>1, InductiveInvariant, PTL

\* Whoever listens to the events sees every run go through its states in order:
\* no run is shown after its end, and none that is cancelling goes on.
THEOREM ServiceImplementsLifecycle == Spec => ImplementsLifecycle
<1>1. Init => Lifecycle!Init
  <2> SUFFICES ASSUME Init PROVE Lifecycle!Init
    OBVIOUS
  <2>1. lastEvent = Event(NoRun, "idle") /\ ~Shown(lastEvent.run, "cancelling")
    BY DEF Init, lastEvent, Shown
  <2> QED
    BY <2>1 DEF Lifecycle!Init, Event, NoRun
<1>2. SafetyInv => TypeOK
  BY DEF SafetyInv
<1> QED
  BY <1>1, <1>2, LifecycleStep, InductiveInvariant, PTL DEF Spec, ImplementsLifecycle, Lifecycle!Spec
=============================================================================
