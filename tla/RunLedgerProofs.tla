-------------------------- MODULE RunLedgerProofs --------------------------
(***************************************************************************)
(* Theorems about RunLedger, for every command and its scripts, every      *)
(* number of goroutines, of registered files and of failing writes, with   *)
(* crashes and without.                                                    *)
(***************************************************************************)
EXTENDS RunLedger, TLAPS

Line == Event \cup {"torn"}

\* The sequences are sequences, and a goroutine's position lies in its script.
Shape ==
  /\ cmd \in Commands
  /\ pos \in [Goroutine -> Nat]
  /\ trace \in Seq(Line)
  /\ events \in Seq(Event)

\* The three writes of an emission come in their order.
LineThenRow ==
  \A p \in Proc :
    /\ stage[p] = "row" => doing[p] \in Range(trace)
    /\ stage[p] \in {"call", "done"} => doing[p] \in Range(events)

\* An event a goroutine is past is in SQLite, or its error is dropped, or its group has failed.
Accounted(e) == cmd.group[e] \in cmd.ignored \cup failed \/ e \in Range(events)

FollowsScript ==
  \A g \in Goroutine :
    /\ stage[g] # "idle" => pos[g] < Len(cmd.script[g]) /\ doing[g] = Upcoming(g)
    /\ \A i \in 1 .. pos[g] : Accounted(cmd.script[g][i])

\* What a run that ends well has earned, and when.
Earned == failed = {} /\ Owed \ {"run.finished"} \subseteq Range(events)

Unsettled == {"preparing", "starting", "running", "finishing"}

Story ==
  /\ pc = "starting" => doing[Main] = "run.started"
  /\ pc = "running" => "run.started" \in Range(events)
  /\ pc = "finishing" /\ ~runErr => Earned
  /\ Final(status) => pc \notin Unsettled

\* The inductive invariant.
IInv ==
  /\ TypeOK
  /\ Shape
  /\ LineThenRow
  /\ RowsFollowTrace
  /\ FollowsScript
  /\ Story
  /\ OkIsEarned
-----------------------------------------------------------------------------
\* The second invariant: what a command that succeeds, and a bundle, have to show.
\* A tool call whose event is past is recorded, or its error is dropped, or its group has failed.
Called(e) == cmd.group[e] \in cmd.ignored \cup failed \/ e \notin cmd.tools \/ e \in calls

CallsFollow ==
  /\ \A p \in Proc : stage[p] = "done" /\ doing[p] \in cmd.tools => doing[p] \in calls
  /\ \A g \in Goroutine : \A i \in 1 .. pos[g] : Called(cmd.script[g][i])
  /\ (pc = "finishing" /\ ~runErr) \/ status = "ok" => Owed \cap cmd.tools \subseteq calls

\* What the main goroutine says, and when it is silent.
MainSays ==
  /\ pc \in {"preparing", "running", "registering", "exporting", "sealing"} => stage[Main] = "idle"
  /\ pc = "starting" => doing[Main] = "run.started"
  /\ pc = "finishing" => doing[Main] = "run.finished"
  /\ pc = "noting" => doing[Main] = "run.export.partial"

\* What has not been said yet is not recorded.
NotYet(e) == e \notin Range(events)
Fresh ==
  /\ IsInjective(events)
  /\ \A p \in Proc : stage[p] \in {"line", "row"} => NotYet(doing[p])
  /\ \A g \in Goroutine : \A i \in 1 .. Len(cmd.script[g]) :
       i > pos[g] + 1 \/ (i = pos[g] + 1 /\ stage[g] = "idle") => NotYet(cmd.script[g][i])
  /\ pc = "preparing" => NotYet("run.started")
  /\ pc \in {"preparing", "starting", "running"} => NotYet("run.finished")
  /\ pc \in Unsettled \cup {"registering", "exporting"} => NotYet("run.export.partial")

\* A torn line is the last, and the writer knows.
Torn ==
  /\ "torn" \in Range(trace) => broken
  /\ \A i \in 1 .. Len(trace) : trace[i] = "torn" => i = Len(trace)

\* Once the run is finished and nothing has gone wrong, its row says how, and every file is
\* registered as it is or still to be.
ToRegister == {Trace, Bundle} \cup Range(Files)
AsItIs(f) == f \in DOMAIN registry /\ registry[f] = Content(f)
Settled ==
  /\ todo \in Seq(ToRegister)
  /\ pc \in {"registering", "exporting"} /\ ~errs =>
       /\ "run.finished" \in Range(events) /\ status = Outcome
       /\ \A f \in {Trace} \cup Range(Files) : f \in Range(todo) \/ AsItIs(f)
  /\ pc = "exporting" => runErr /\ ~errs /\ todo = <<>>
  /\ verdict = "success" => pc = "returned"

JInv == CallsFollow /\ MainSays /\ Fresh /\ Torn /\ Settled /\ SuccessIsComplete /\ BundleAgreesWithItself
-----------------------------------------------------------------------------
\* What a sequence that is appended to holds.
LEMMA RangeOfAppend ==
  ASSUME NEW S, NEW s \in Seq(S), NEW e \in S
  PROVE  Range(Append(s, e)) = Range(s) \cup {e} /\ Append(s, e) \in Seq(S)
<1>1. Len(Append(s, e)) = Len(s) + 1 /\ Append(s, e) \in Seq(S)
  OBVIOUS
<1>2. \A i \in 1 .. Len(s) : Append(s, e)[i] = s[i]
  OBVIOUS
<1>3. Append(s, e)[Len(s) + 1] = e
  OBVIOUS
<1>4. DOMAIN s = 1 .. Len(s) /\ DOMAIN Append(s, e) = 1 .. (Len(s) + 1)
  BY <1>1
<1>5. Len(s) \in Nat
  OBVIOUS
<1> QED
  BY <1>1, <1>2, <1>3, <1>4, <1>5 DEF Range

\* Every process has a place in the emissions.
LEMMA MainIsAProc == Main \in Proc /\ Main \notin Goroutine /\ Goroutine \subseteq Proc
BY LedgerAssumption DEF Proc

\* Main's own events are events.
LEMMA OwnEvents == Own \subseteq Event /\ None \notin Event
BY LedgerAssumption DEF Event

\* What a goroutine has yet to say is an event of its command.
LEMMA UpcomingIsAnEvent ==
  ASSUME cmd \in Commands, pos \in [Goroutine -> Nat], NEW g \in Goroutine, pos[g] < Len(cmd.script[g])
  PROVE  Upcoming(g) \in Said(cmd) /\ Upcoming(g) \in Event
<1>1. cmd.script[g] \in Seq(Said(cmd))
  BY LedgerAssumption
<1>2. pos[g] + 1 \in 1 .. Len(cmd.script[g])
  BY <1>1
<1>3. Upcoming(g) \in Said(cmd)
  BY <1>1, <1>2 DEF Upcoming
<1> QED
  BY <1>3 DEF Event
-----------------------------------------------------------------------------
\* The initial states satisfy the invariant.
LEMMA InitIInv == Init => IInv
<1> SUFFICES ASSUME Init PROVE IInv
  OBVIOUS
<1> USE DEF Init
<1>1. Range(<<>>) = {}
  BY DEF Range
<1>2. Shape
  BY DEF Shape
<1>3. \A g \in Goroutine : cmd.script[g] \in Seq(Said(cmd))
  BY LedgerAssumption
<1>4. \A g \in Goroutine : pos[g] \in 0 .. Len(cmd.script[g])
  BY <1>3
<1>5. TypeOK
  BY <1>1, <1>4, OwnEvents, MainIsAProc DEF TypeOK
<1>6. LineThenRow /\ RowsFollowTrace
  BY <1>1 DEF LineThenRow, RowsFollowTrace
<1>7. FollowsScript
  BY MainIsAProc DEF FollowsScript
<1>8. Story /\ OkIsEarned
  BY DEF Story, OkIsEarned, Final
<1> QED
  BY <1>2, <1>5, <1>6, <1>7, <1>8 DEF IInv
-----------------------------------------------------------------------------
\* A write of an emission moves its process on, adds to the trace or to the rows at most,
\* and so leaves the account of the scripts as it is.
LEMMA WriteKeepsTheStory ==
  ASSUME IInv, UNCHANGED <<control, doing, status>>, Range(events) \subseteq Range(events'),
         \A p \in Proc : stage'[p] = "idle" <=> stage[p] = "idle"
  PROVE  FollowsScript' /\ Story' /\ OkIsEarned'
<1> USE DEF control
<1>1. \A e : Accounted(e) => Accounted(e)'
  BY DEF Accounted
<1>2. FollowsScript'
  <2> SUFFICES ASSUME NEW g \in Goroutine
               PROVE  /\ stage'[g] # "idle" => pos'[g] < Len(cmd'.script[g]) /\ doing'[g] = Upcoming(g)'
                      /\ \A i \in 1 .. pos'[g] : Accounted(cmd.script[g][i])'
    BY DEF FollowsScript
  <2>1. stage'[g] # "idle" => stage[g] # "idle"
    BY MainIsAProc
  <2>2. Upcoming(g)' = Upcoming(g)
    BY DEF Upcoming
  <2> QED
    BY <1>1, <2>1, <2>2 DEF IInv, FollowsScript
<1>3. Owed' = Owed
  BY DEF Owed, Said
<1>4. Story' /\ OkIsEarned'
  BY <1>3 DEF IInv, Story, OkIsEarned, Earned, Final
<1> QED
  BY <1>2, <1>4

LEMMA WriteLineKeeps ==
  ASSUME IInv, NEW p \in Proc, WriteLine(p)
  PROVE  IInv'
<1> USE DEF IInv, WriteLine, To, control
<1>1. doing[p] \in Event
  BY DEF TypeOK
<1>2. Range(trace') = Range(trace) \cup {doing[p]} /\ trace' \in Seq(Line)
  <2>1. trace \in Seq(Line) /\ doing[p] \in Line /\ trace' = Append(trace, doing[p])
    BY <1>1 DEF Shape, Line
  <2> QED
    BY ONLY <2>1, RangeOfAppend
<1>3. stage' = [stage EXCEPT ![p] = "row"] /\ stage[p] = "line" /\ pc \notin {"returned", "crashed"}
  BY DEF Alive
<1>4. TypeOK'
  BY <1>1, <1>2, <1>3, MainIsAProc DEF TypeOK
<1>5. Shape'
  BY <1>2 DEF Shape
<1>6. LineThenRow' /\ RowsFollowTrace'
  BY <1>2, <1>3 DEF TypeOK, LineThenRow, RowsFollowTrace
<1>7. \A q \in Proc : stage'[q] = "idle" <=> stage[q] = "idle"
  BY <1>3 DEF TypeOK
<1> HIDE DEF IInv
<1>8. FollowsScript' /\ Story' /\ OkIsEarned'
  BY <1>7, WriteKeepsTheStory
<1> QED
  BY <1>4, <1>5, <1>6, <1>8 DEF IInv

LEMMA LineFailsKeeps ==
  ASSUME IInv, NEW p \in Proc, LineFails(p)
  PROVE  IInv'
<1> USE DEF IInv, LineFails, To, control, NoLineNoRow, ForGood
<1>1. trace' = trace \/ trace' = Append(trace, "torn")
  OBVIOUS
<1>2. /\ Range(trace) \subseteq Range(trace') /\ Range(trace') \subseteq Range(trace) \cup {"torn"}
      /\ trace' \in Seq(Line)
  <2>1. trace \in Seq(Line) /\ "torn" \in Line
    BY DEF Shape, Line
  <2>2. Range(Append(trace, "torn")) = Range(trace) \cup {"torn"} /\ Append(trace, "torn") \in Seq(Line)
    BY ONLY <2>1, RangeOfAppend
  <2> QED
    BY <1>1, <2>1, <2>2
<1>3. stage' = [stage EXCEPT ![p] = "error"] /\ stage[p] = "line" /\ pc \notin {"returned", "crashed"}
  BY DEF Alive
<1>4. TypeOK'
  BY <1>2, <1>3, MainIsAProc DEF TypeOK
<1>5. Shape'
  BY <1>2 DEF Shape
<1>6. LineThenRow' /\ RowsFollowTrace'
  BY <1>2, <1>3 DEF TypeOK, LineThenRow, RowsFollowTrace
<1>7. \A q \in Proc : stage'[q] = "idle" <=> stage[q] = "idle"
  BY <1>3 DEF TypeOK
<1> HIDE DEF IInv
<1>8. FollowsScript' /\ Story' /\ OkIsEarned'
  BY <1>7, WriteKeepsTheStory
<1> QED
  BY <1>4, <1>5, <1>6, <1>8 DEF IInv

LEMMA InsertEventKeeps ==
  ASSUME IInv, NEW p \in Proc, InsertEvent(p)
  PROVE  IInv'
<1> USE DEF IInv, InsertEvent, To, control
<1>1. doing[p] \in Event
  BY DEF TypeOK
<1>2. Range(events') = Range(events) \cup {doing[p]} /\ events' \in Seq(Event)
  BY <1>1, RangeOfAppend DEF Shape
<1>3. /\ stage' = [stage EXCEPT ![p] = "call"] \/ stage' = [stage EXCEPT ![p] = "done"]
      /\ stage[p] = "row" /\ pc \notin {"returned", "crashed"}
  BY DEF Alive
<1>4. TypeOK'
  BY <1>1, <1>2, <1>3, MainIsAProc DEF TypeOK
<1>5. Shape'
  BY <1>2 DEF Shape
<1>6. LineThenRow' /\ RowsFollowTrace'
  BY <1>2, <1>3 DEF TypeOK, LineThenRow, RowsFollowTrace
<1>7. \A q \in Proc : stage'[q] = "idle" <=> stage[q] = "idle"
  BY <1>3 DEF TypeOK
<1> HIDE DEF IInv
<1>8. FollowsScript' /\ Story' /\ OkIsEarned'
  BY <1>2, <1>7, WriteKeepsTheStory
<1> QED
  BY <1>4, <1>5, <1>6, <1>8 DEF IInv

LEMMA InsertToolCallKeeps ==
  ASSUME IInv, NEW p \in Proc, InsertToolCall(p)
  PROVE  IInv'
<1> USE DEF IInv, InsertToolCall, To, control
<1>1. doing[p] \in Event
  BY DEF TypeOK
<1>3. /\ stage' = [stage EXCEPT ![p] = "done"]
      /\ stage[p] = "call" /\ pc \notin {"returned", "crashed"}
  BY DEF Alive
<1>4. TypeOK'
  BY <1>1, <1>3, MainIsAProc DEF TypeOK
<1>5. Shape'
  BY DEF Shape
<1>6. LineThenRow' /\ RowsFollowTrace'
  BY <1>3 DEF TypeOK, LineThenRow, RowsFollowTrace
<1>7. \A q \in Proc : stage'[q] = "idle" <=> stage[q] = "idle"
  BY <1>3 DEF TypeOK
<1> HIDE DEF IInv
<1>8. FollowsScript' /\ Story' /\ OkIsEarned'
  BY <1>7, WriteKeepsTheStory
<1> QED
  BY <1>4, <1>5, <1>6, <1>8 DEF IInv

LEMMA InsertFailsKeeps ==
  ASSUME IInv, NEW p \in Proc, InsertFails(p)
  PROVE  IInv'
<1> USE DEF IInv, InsertFails, To, control, ledger
<1>3. /\ stage' = [stage EXCEPT ![p] = "error"]
      /\ stage[p] \in {"row", "call"} /\ pc \notin {"returned", "crashed"}
  BY DEF Alive
<1>4. TypeOK'
  BY <1>3, MainIsAProc DEF TypeOK
<1>5. Shape'
  BY DEF Shape
<1>6. LineThenRow' /\ RowsFollowTrace'
  BY <1>3 DEF TypeOK, LineThenRow, RowsFollowTrace
<1>7. \A q \in Proc : stage'[q] = "idle" <=> stage[q] = "idle"
  BY <1>3 DEF TypeOK
<1> HIDE DEF IInv
<1>8. FollowsScript' /\ Story' /\ OkIsEarned'
  BY <1>7, WriteKeepsTheStory
<1> QED
  BY <1>4, <1>5, <1>6, <1>8 DEF IInv
-----------------------------------------------------------------------------
\* A step of the command's control that records nothing keeps what is known of the rows.
LEMMA SilentStep ==
  ASSUME IInv, UNCHANGED <<cmd, trace, events, calls>>,
         \A p \in Proc : (stage'[p] = stage[p] /\ doing'[p] = doing[p]) \/ stage'[p] \in {"idle", "line"}
  PROVE  LineThenRow' /\ RowsFollowTrace'
BY DEF IInv, LineThenRow, RowsFollowTrace

\* A step of runWithStore leaves its goroutines where they are.
LEMMA CallerStep ==
  ASSUME IInv, UNCHANGED <<cmd, events, pos, failed>>,
         \A g \in Goroutine : stage'[g] = stage[g] /\ doing'[g] = doing[g]
  PROVE  FollowsScript' /\ Owed' = Owed
<1>1. \A e : Accounted(e)' = Accounted(e)
  BY DEF Accounted
<1>2. \A g : Upcoming(g)' = Upcoming(g)
  BY DEF Upcoming
<1>3. FollowsScript'
  BY <1>1, <1>2 DEF IInv, FollowsScript
<1>4. Owed' = Owed
  BY DEF Owed, Said
<1> QED
  BY <1>3, <1>4

LEMMA SpeakKeeps ==
  ASSUME IInv, NEW g \in Goroutine, Speak(g)
  PROVE  IInv'
<1> USE DEF IInv, Speak, Begin, emission, ledger
<1>1. CASE cmd.group[Upcoming(g)] \in failed
  <2>1. pos' = [pos EXCEPT ![g] = @ + 1] /\ UNCHANGED emission
    BY <1>1
  <2>2. pos[g] \in Nat /\ pos[g] + 1 <= Len(cmd.script[g]) /\ Len(cmd.script[g]) \in Nat
    BY LedgerAssumption DEF Shape
  <2>3. TypeOK' /\ Shape'
    BY <1>1, <2>1, <2>2 DEF TypeOK, Shape
  <2>4. LineThenRow' /\ RowsFollowTrace'
    BY <2>1, SilentStep
  <2>5. FollowsScript'
    <3>1. \A e : Accounted(e)' = Accounted(e)
      BY DEF Accounted
    <3>2. Accounted(cmd.script[g][pos[g] + 1])
      BY <1>1 DEF Accounted, Upcoming
    <3>3. \A h \in Goroutine : h # g => pos'[h] = pos[h] /\ Upcoming(h)' = Upcoming(h)
      BY <2>1 DEF Shape, Upcoming
    <3>4. stage'[g] = "idle" /\ pos'[g] = pos[g] + 1
      BY <2>1 DEF Shape
    <3>5. \A i \in 1 .. pos'[g] : i \in 1 .. pos[g] \/ i = pos[g] + 1
      BY <2>2, <3>4
    <3> QED
      BY <2>1, <3>1, <3>2, <3>3, <3>4, <3>5 DEF FollowsScript
  <2>6. Owed' = Owed
    BY DEF Owed, Said
  <2>7. Story' /\ OkIsEarned'
    BY <2>1, <2>6 DEF Story, OkIsEarned, Earned, Final
  <2> QED
    BY <2>3, <2>4, <2>5, <2>7
<1>2. CASE cmd.group[Upcoming(g)] \notin failed
  <2>1. /\ doing' = [doing EXCEPT ![g] = Upcoming(g)] /\ stage' = [stage EXCEPT ![g] = "line"]
        /\ UNCHANGED pos
    BY <1>2
  <2>2. Upcoming(g) \in Event /\ g \in Proc
    BY UpcomingIsAnEvent, MainIsAProc DEF Shape
  <2>3. TypeOK' /\ Shape'
    BY <2>1, <2>2, MainIsAProc, OwnEvents DEF TypeOK, Shape
  <2>4. LineThenRow' /\ RowsFollowTrace'
    <3>1. \A p \in Proc : (stage'[p] = stage[p] /\ doing'[p] = doing[p]) \/ stage'[p] \in {"idle", "line"}
      BY <2>1, <2>2 DEF TypeOK
    <3> QED
      BY <3>1, SilentStep
  <2>5. FollowsScript'
    <3>1. \A e : Accounted(e)' = Accounted(e)
      BY DEF Accounted
    <3>2. \A h \in Goroutine : Upcoming(h)' = Upcoming(h)
      BY <2>1 DEF Upcoming
    <3> QED
      BY <2>1, <2>2, <3>1, <3>2, MainIsAProc DEF FollowsScript, TypeOK
  <2>6. Owed' = Owed
    BY DEF Owed, Said
  <2>7. Story' /\ OkIsEarned'
    BY <2>1, <2>6, MainIsAProc DEF Story, OkIsEarned, Earned, Final
  <2> QED
    BY <2>3, <2>4, <2>5, <2>7
<1> QED
  BY <1>1, <1>2

LEMMA SpokenKeeps ==
  ASSUME IInv, NEW g \in Goroutine, Spoken(g)
  PROVE  IInv'
<1> USE DEF IInv, Spoken, Rest, ledger
<1>1. /\ doing' = [doing EXCEPT ![g] = None] /\ stage' = [stage EXCEPT ![g] = "idle"]
      /\ pos' = [pos EXCEPT ![g] = @ + 1] /\ g \in Proc
  BY MainIsAProc
<1>2. /\ pos[g] \in Nat /\ pos[g] + 1 <= Len(cmd.script[g]) /\ Len(cmd.script[g]) \in Nat
      /\ doing[g] = cmd.script[g][pos[g] + 1] /\ stage[g] \in {"done", "error"}
  <2>1. stage[g] \in {"done", "error"} /\ pos[g] \in Nat
    BY DEF Over, Shape
  <2>2. pos[g] < Len(cmd.script[g]) /\ doing[g] = cmd.script[g][pos[g] + 1]
    BY <2>1 DEF FollowsScript, Upcoming
  <2>3. Len(cmd.script[g]) \in Nat
    BY LedgerAssumption DEF Shape
  <2> QED
    BY <2>1, <2>2, <2>3
<1>3. TypeOK' /\ Shape'
  BY <1>1, <1>2, MainIsAProc, OwnEvents DEF TypeOK, Shape
<1>4. LineThenRow' /\ RowsFollowTrace'
  <2>1. \A p \in Proc : (stage'[p] = stage[p] /\ doing'[p] = doing[p]) \/ stage'[p] \in {"idle", "line"}
    BY <1>1 DEF TypeOK
  <2> QED
    BY <2>1, SilentStep
<1>5. FollowsScript'
  <2>1. \A e : Accounted(e) => Accounted(e)'
    BY DEF Accounted
  <2>2. \A e : e = doing[g] => Accounted(e)'
    <3>1. CASE stage[g] = "done"
      BY <1>1, <3>1 DEF Accounted, LineThenRow
    <3>2. CASE stage[g] = "error"
      <4>1. cmd.group[doing[g]] \in cmd.ignored \cup failed'
        BY <3>2
      <4> QED
        BY <4>1 DEF Accounted
    <3> QED
      BY <1>2, <3>1, <3>2
  <2>3. \A h \in Goroutine : h # g => pos'[h] = pos[h] /\ Upcoming(h)' = Upcoming(h)
    BY <1>1 DEF Shape, Upcoming
  <2>4. stage'[g] = "idle" /\ pos'[g] = pos[g] + 1
    BY <1>1 DEF Shape, TypeOK
  <2>5. \A i \in 1 .. pos'[g] : i \in 1 .. pos[g] \/ i = pos[g] + 1
    BY <1>2, <2>4
  <2>6. \A i \in 1 .. pos'[g] : Accounted(cmd.script[g][i])'
    <3>1. \A i \in 1 .. pos[g] : Accounted(cmd.script[g][i])
      BY DEF FollowsScript
    <3>2. SUFFICES ASSUME NEW i \in 1 .. pos'[g] PROVE Accounted(cmd.script[g][i])'
      OBVIOUS
    <3>3. CASE i \in 1 .. pos[g]
      BY <2>1, <3>1, <3>3
    <3>4. CASE i = pos[g] + 1
      BY <1>2, <2>2, <3>4
    <3> QED
      BY <2>5, <3>3, <3>4
  <2>7. \A h \in Goroutine : h # g => stage'[h] = stage[h] /\ doing'[h] = doing[h]
    BY <1>1, MainIsAProc DEF TypeOK
  <2> QED
    BY <2>1, <2>3, <2>4, <2>6, <2>7 DEF FollowsScript
<1>6. Story' /\ OkIsEarned'
  BY <1>1, MainIsAProc DEF Story, OkIsEarned, Final, Unsettled
<1> QED
  BY <1>3, <1>4, <1>5, <1>6

\* A step after FinishRun, or one that ends the command, which records nothing.
LEMMA LateStep ==
  ASSUME IInv, pc' \notin Unsettled, UNCHANGED <<cmd, emission, trace, status, events, calls, pos, failed, runErr>>
  PROVE  Shape' /\ LineThenRow' /\ RowsFollowTrace' /\ FollowsScript' /\ Story' /\ OkIsEarned'
<1> USE DEF emission
<1>1. Shape'
  BY DEF IInv, Shape
<1>2. LineThenRow' /\ RowsFollowTrace'
  BY SilentStep
<1>3. FollowsScript' /\ Owed' = Owed
  BY CallerStep
<1>4. Story' /\ OkIsEarned'
  BY <1>3 DEF IInv, Story, OkIsEarned, Unsettled, Final
<1> QED
  BY <1>1, <1>2, <1>3, <1>4

\* Main begins an event of the run's own, or rests.
LEMMA MainBegins ==
  ASSUME IInv, NEW e \in Own, Begin(Main, e)
  PROVE  /\ doing' \in [Proc -> Event \cup {None}]
         /\ stage' \in [Proc -> {"idle", "line", "row", "call", "done", "error"}]
         /\ \A p \in Proc : (doing'[p] = None) = (stage'[p] = "idle")
         /\ \A g \in Goroutine : stage'[g] = stage[g] /\ doing'[g] = doing[g]
         /\ doing'[Main] = e /\ stage'[Main] = "line"
BY MainIsAProc, OwnEvents DEF IInv, TypeOK, Begin

LEMMA MainRests ==
  ASSUME IInv, Rest(Main)
  PROVE  /\ doing' \in [Proc -> Event \cup {None}]
         /\ stage' \in [Proc -> {"idle", "line", "row", "call", "done", "error"}]
         /\ \A p \in Proc : (doing'[p] = None) = (stage'[p] = "idle")
         /\ \A g \in Goroutine : stage'[g] = stage[g] /\ doing'[g] = doing[g]
         /\ stage'[Main] = "idle"
BY MainIsAProc, OwnEvents DEF IInv, TypeOK, Rest

\* Only Main is touched.
LEMMA MainOnly ==
  ASSUME IInv, UNCHANGED <<cmd, trace, events, calls, pos, failed>>,
         (\E e \in Own : Begin(Main, e)) \/ Rest(Main)
  PROVE  Shape' /\ LineThenRow' /\ RowsFollowTrace' /\ FollowsScript' /\ Owed' = Owed
<1>1. Shape'
  BY DEF IInv, Shape
<1>2. \A g \in Goroutine : stage'[g] = stage[g] /\ doing'[g] = doing[g]
  BY MainBegins, MainRests
<1>3. stage'[Main] \in {"idle", "line"}
  BY MainBegins, MainRests
<1>4. LineThenRow' /\ RowsFollowTrace'
  BY <1>2, <1>3, SilentStep DEF Proc
<1>5. FollowsScript' /\ Owed' = Owed
  BY <1>2, CallerStep
<1> QED
  BY <1>1, <1>4, <1>5

LEMMA RunWithStoreKeeps ==
  ASSUME IInv, RunWithStore \/ Crash
  PROVE  IInv'
<1> USE MainIsAProc DEF Own
<1>1. CASE StartRun
  <2>1. Begin(Main, "run.started") /\ UNCHANGED <<cmd, trace, events, calls, pos, failed>> /\ pc = "preparing" /\ pc' = "starting"
    BY <1>1 DEF StartRun
  <2>2. Shape' /\ LineThenRow' /\ RowsFollowTrace' /\ FollowsScript' /\ Owed' = Owed
    BY <2>1, MainOnly
  <2>3. TypeOK'
    BY <1>1, <2>1, MainBegins DEF StartRun, IInv, TypeOK
  <2>4. Story' /\ OkIsEarned'
    BY <1>1, <2>1, MainBegins DEF StartRun, Story, OkIsEarned, Final
  <2> QED
    BY <2>2, <2>3, <2>4 DEF IInv
<1>2. CASE StartFails
  <2>1. TypeOK'
    BY <1>2 DEF StartFails, Return, emission, ledger, IInv, TypeOK
  <2> QED
    BY <1>2, <2>1, LateStep DEF StartFails, Return, emission, ledger, Unsettled, IInv
<1>3. CASE Launch
  <2>1. /\ Rest(Main) /\ UNCHANGED <<cmd, trace, events, calls, pos, failed, status, runErr>>
        /\ pc = "starting" /\ pc' = "running" /\ stage[Main] = "done"
    BY <1>3 DEF Launch, ledger
  <2>2. Shape' /\ LineThenRow' /\ RowsFollowTrace' /\ FollowsScript' /\ Owed' = Owed
    BY <2>1, MainOnly
  <2>3. TypeOK'
    BY <1>3, <2>1, MainRests DEF Launch, ledger, IInv, TypeOK
  <2>4. "run.started" \in Range(events)
    BY <2>1 DEF IInv, Story, LineThenRow
  <2>5. Story' /\ OkIsEarned'
    BY <2>1, <2>2, <2>4 DEF IInv, Story, OkIsEarned, Final, Unsettled
  <2> QED
    BY <2>2, <2>3, <2>5 DEF IInv
<1>4. CASE Abandon
  <2>1. /\ Rest(Main) /\ UNCHANGED <<cmd, trace, events, calls, pos, failed, runErr>>
        /\ pc = "starting" /\ pc' = "returned" /\ (status' = "failed" \/ status' = status)
    BY <1>4 DEF Abandon, GiveUp
  <2>2. Shape' /\ LineThenRow' /\ RowsFollowTrace' /\ FollowsScript' /\ Owed' = Owed
    BY <2>1, MainOnly
  <2>3. TypeOK'
    BY <1>4, <2>1, MainRests DEF Abandon, IInv, TypeOK
  <2>4. Story' /\ OkIsEarned'
    BY <2>1, <2>2 DEF IInv, Story, OkIsEarned, Final, Unsettled
  <2> QED
    BY <2>2, <2>3, <2>4 DEF IInv
<1>5. CASE RunnerReturns
  <2>1. /\ Begin(Main, "run.finished") /\ UNCHANGED <<cmd, trace, events, calls, pos, failed, status>>
        /\ pc = "running" /\ pc' = "finishing" /\ \A g \in Goroutine : Spent(g)
    BY <1>5 DEF RunnerReturns, ledger
  <2>2. Shape' /\ LineThenRow' /\ RowsFollowTrace' /\ FollowsScript' /\ Owed' = Owed
    BY <2>1, MainOnly
  <2>3. runErr' \in BOOLEAN /\ (~runErr' => failed = {})
    BY <1>5 DEF RunnerReturns, CommandFails
  <2>4. TypeOK'
    BY <1>5, <2>1, <2>3, MainBegins DEF RunnerReturns, ledger, IInv, TypeOK, Spent
  <2>5. ASSUME failed = {}, NEW e \in Said(cmd), cmd.group[e] \notin cmd.ignored
        PROVE  e \in Range(events)
    <3>1. PICK g \in Goroutine : e \in Range(cmd.script[g])
      BY <2>5 DEF Said
    <3>2. cmd.script[g] \in Seq(Said(cmd))
      BY LedgerAssumption DEF IInv, Shape
    <3>3. PICK i \in 1 .. Len(cmd.script[g]) : e = cmd.script[g][i]
      BY <3>1, <3>2 DEF Range
    <3>4. i \in 1 .. pos[g]
      BY <2>1, <3>3 DEF Spent
    <3>5. Accounted(e)
      BY <3>3, <3>4 DEF IInv, FollowsScript
    <3> QED
      BY <2>5, <3>5 DEF Accounted
  <2>6. failed = {} => Earned
    BY <2>1, <2>5 DEF IInv, Story, Earned, Owed
  <2>7. Story' /\ OkIsEarned'
    BY <2>1, <2>2, <2>3, <2>6 DEF IInv, Story, OkIsEarned, Earned, Final, Unsettled
  <2> QED
    BY <2>2, <2>4, <2>7 DEF IInv
<1>6. CASE FinishRun
  <2>1. /\ Rest(Main) /\ UNCHANGED <<cmd, trace, events, calls, pos, failed, runErr>>
        /\ pc = "finishing" /\ pc' = "registering"
        /\ (status' = IF runErr THEN "failed" ELSE "ok") \/ status' = status
    BY <1>6 DEF FinishRun, Outcome
  <2>2. Shape' /\ LineThenRow' /\ RowsFollowTrace' /\ FollowsScript' /\ Owed' = Owed
    BY <2>1, MainOnly
  <2>3. TypeOK'
    BY <1>6, <2>1, MainRests DEF FinishRun, IInv, TypeOK
  <2>4. Story' /\ OkIsEarned'
    BY <2>1, <2>2 DEF IInv, Story, OkIsEarned, Earned, Final, Unsettled
  <2> QED
    BY <2>2, <2>3, <2>4 DEF IInv
<1>7. CASE Register \/ RegisterFails
  <2>1. /\ UNCHANGED <<cmd, emission, trace, status, events, calls, pos, failed, runErr, pc>>
        /\ pc' \notin Unsettled
    BY <1>7 DEF Register, RegisterFails, ledger, Unsettled
  <2>2. TypeOK'
    BY <1>7, <2>1 DEF Register, RegisterFails, ledger, emission, IInv, TypeOK
  <2> QED
    BY <2>1, <2>2, LateStep DEF IInv
<1>8. CASE Settle \/ Seal
  <2>1. /\ UNCHANGED <<cmd, emission, trace, status, events, calls, pos, failed, runErr>>
        /\ pc' \notin Unsettled
    BY <1>8 DEF Settle, Seal, Return, ledger, Unsettled
  <2>2. TypeOK'
    BY <1>8, <2>1 DEF Settle, Seal, Return, Result, ledger, emission, IInv, TypeOK
  <2> QED
    BY <2>1, <2>2, LateStep DEF IInv
<1>9. CASE Export
  <2>1. /\ Begin(Main, "run.export.partial") /\ UNCHANGED <<cmd, trace, events, calls, pos, failed, status, runErr>>
        /\ pc = "exporting" /\ pc' = "noting"
    BY <1>9 DEF Export
  <2>2. Shape' /\ LineThenRow' /\ RowsFollowTrace' /\ FollowsScript' /\ Owed' = Owed
    BY <2>1, MainOnly
  <2>3. TypeOK'
    BY <1>9, <2>1, MainBegins DEF Export, IInv, TypeOK
  <2>4. Story' /\ OkIsEarned'
    BY <2>1, <2>2 DEF IInv, Story, OkIsEarned, Final, Unsettled
  <2> QED
    BY <2>2, <2>3, <2>4 DEF IInv
<1>10. CASE Noted
  <2>1. /\ Rest(Main) /\ UNCHANGED <<cmd, trace, events, calls, pos, failed, status, runErr>>
        /\ pc = "noting" /\ pc' = "sealing"
    BY <1>10 DEF Noted, ledger
  <2>2. Shape' /\ LineThenRow' /\ RowsFollowTrace' /\ FollowsScript' /\ Owed' = Owed
    BY <2>1, MainOnly
  <2>3. TypeOK'
    BY <1>10, <2>1, MainRests DEF Noted, ledger, IInv, TypeOK
  <2>4. Story' /\ OkIsEarned'
    BY <2>1, <2>2 DEF IInv, Story, OkIsEarned, Final, Unsettled
  <2> QED
    BY <2>2, <2>3, <2>4 DEF IInv
<1>11. CASE Crash
  <2>1. TypeOK'
    BY <1>11 DEF Crash, emission, ledger, IInv, TypeOK
  <2> QED
    BY <1>11, <2>1, LateStep DEF Crash, emission, ledger, Unsettled, IInv
<1> QED
  BY <1>1, <1>2, <1>3, <1>4, <1>5, <1>6, <1>7, <1>8, <1>9, <1>10, <1>11 DEF RunWithStore

\* Every step keeps the invariant.
LEMMA NextIInv == IInv /\ [Next]_vars => IInv'
<1> SUFFICES ASSUME IInv, [Next]_vars PROVE IInv'
  OBVIOUS
<1>1. CASE \E p \in Proc : Emission(p)
  BY <1>1, WriteLineKeeps, LineFailsKeeps, InsertEventKeeps, InsertToolCallKeeps, InsertFailsKeeps DEF Emission
<1>2. CASE \E g \in Goroutine : Speak(g) \/ Spoken(g)
  BY <1>2, SpeakKeeps, SpokenKeeps
<1>3. CASE RunWithStore \/ Crash
  BY <1>3, RunWithStoreKeeps
<1>4. CASE UNCHANGED vars
  <2>1. /\ UNCHANGED <<cmd, pc, doing, stage, pos, failed, runErr, errs, verdict>>
        /\ UNCHANGED <<trace, broken, status, events, calls>>
    BY <1>4 DEF vars, emission, ledger, control
  <2>2. TypeOK'
    BY <2>1 DEF IInv, TypeOK
  <2>3. Shape' /\ LineThenRow' /\ RowsFollowTrace' /\ FollowsScript' /\ Owed' = Owed
    BY <2>1, SilentStep, CallerStep DEF IInv, Shape
  <2>4. Story' /\ OkIsEarned'
    BY <2>1, <2>3 DEF IInv, Story, OkIsEarned, Earned, Final
  <2> QED
    BY <2>2, <2>3, <2>4 DEF IInv
<1> QED
  BY <1>1, <1>2, <1>3, <1>4 DEF Next, Ended
-----------------------------------------------------------------------------
(***************************************************************************)
(* The second invariant                                                    *)
(***************************************************************************)
LEMMA InitJInv == Init => JInv
<1> SUFFICES ASSUME Init PROVE JInv
  OBVIOUS
<1>1. Range(<<>>) = {} /\ IsInjective(<<>>)
  BY DEF Range, IsInjective
<1>2. Fresh
  BY <1>1 DEF Init, Fresh, NotYet
<1> QED
  BY <1>1, <1>2, MainIsAProc
     DEF Init, JInv, CallsFollow, MainSays, Torn, Settled, SuccessIsComplete, BundleAgreesWithItself

\* What a sequence that is appended to has twice.
LEMMA AppendIsInjective ==
  ASSUME NEW S, NEW s \in Seq(S), NEW e \in S, IsInjective(s), e \notin Range(s)
  PROVE  IsInjective(Append(s, e))
<1>1. /\ Len(s) \in Nat /\ DOMAIN s = 1 .. Len(s) /\ DOMAIN Append(s, e) = 1 .. (Len(s) + 1)
      /\ Append(s, e)[Len(s) + 1] = e /\ \A i \in 1 .. Len(s) : Append(s, e)[i] = s[i]
  OBVIOUS
<1>2. \A i \in 1 .. Len(s) : s[i] # e
  BY <1>1 DEF Range
<1>3. \A i, j \in 1 .. Len(s) : s[i] = s[j] => i = j
  BY <1>1 DEF IsInjective
<1> QED
  BY <1>1, <1>2, <1>3 DEF IsInjective

\* The events of a script are its goroutine's alone, each at one place.
LEMMA ScriptsAreDisjoint ==
  ASSUME cmd \in Commands, NEW g \in Goroutine, NEW i \in 1 .. Len(cmd.script[g])
  PROVE  /\ cmd.script[g][i] \in Said(cmd) /\ cmd.script[g][i] \notin Own
         /\ \A h \in Goroutine : \A j \in 1 .. Len(cmd.script[h]) :
              cmd.script[g][i] = cmd.script[h][j] => g = h /\ i = j
<1>1. \A h \in Goroutine : cmd.script[h] \in Seq(Said(cmd)) /\ IsInjective(cmd.script[h])
  BY LedgerAssumption
<1>2. \A h \in Goroutine : \A j \in 1 .. Len(cmd.script[h]) : cmd.script[h][j] \in Range(cmd.script[h])
  BY <1>1 DEF Range
<1>3. \A h \in Goroutine : g # h => Range(cmd.script[g]) \cap Range(cmd.script[h]) = {}
  BY LedgerAssumption
<1>4. cmd.script[g][i] \in Said(cmd) /\ Said(cmd) \cap Own = {}
  BY <1>1, LedgerAssumption
<1>5. \A j \in 1 .. Len(cmd.script[g]) : cmd.script[g][i] = cmd.script[g][j] => i = j
  BY <1>1 DEF IsInjective
<1> QED
  BY <1>2, <1>3, <1>4, <1>5

\* Whoever is emitting emits something of his own, and the command is not over.
LEMMA EmittersDiffer ==
  ASSUME IInv, JInv, Alive, NEW p \in Proc, stage[p] # "idle"
  PROVE  /\ pc \in {"starting", "running", "finishing", "noting"}
         /\ p = Main => doing[p] \in Own
         /\ p # Main => /\ p \in Goroutine /\ pc = "running" /\ pos[p] + 1 \in 1 .. Len(cmd.script[p])
                        /\ doing[p] = cmd.script[p][pos[p] + 1] /\ doing[p] \notin Own
         /\ \A q \in Proc : q # p /\ stage[q] # "idle" => doing[q] # doing[p]
<1>1. ASSUME NEW g \in Goroutine, stage[g] # "idle"
      PROVE  /\ pc = "running" /\ pos[g] + 1 \in 1 .. Len(cmd.script[g])
             /\ doing[g] = cmd.script[g][pos[g] + 1] /\ doing[g] \notin Own
  <2>1. pc = "running"
    BY <1>1 DEF IInv, TypeOK, Alive
  <2>2. pos[g] \in Nat /\ pos[g] < Len(cmd.script[g]) /\ doing[g] = Upcoming(g) /\ Len(cmd.script[g]) \in Nat
    BY <1>1, LedgerAssumption DEF IInv, Shape, FollowsScript
  <2>3. pos[g] + 1 \in 1 .. Len(cmd.script[g])
    BY <2>2
  <2> QED
    BY <2>1, <2>2, <2>3, ScriptsAreDisjoint DEF IInv, Shape, Upcoming
<1>2. stage[Main] # "idle" => pc \in {"starting", "finishing", "noting"} /\ doing[Main] \in Own
  BY DEF IInv, TypeOK, JInv, MainSays, Alive, Own
<1>3. ASSUME NEW g \in Goroutine, NEW h \in Goroutine, stage[g] # "idle", stage[h] # "idle", g # h
      PROVE  doing[g] # doing[h]
  <2>1. /\ pos[g] + 1 \in 1 .. Len(cmd.script[g]) /\ doing[g] = cmd.script[g][pos[g] + 1]
        /\ pos[h] + 1 \in 1 .. Len(cmd.script[h]) /\ doing[h] = cmd.script[h][pos[h] + 1]
    BY <1>1, <1>3
  <2>2. cmd \in Commands
    BY DEF IInv, Shape
  <2> QED
    BY <1>3, <2>1, <2>2, ScriptsAreDisjoint
<1> QED
  BY <1>1, <1>2, <1>3 DEF Proc

\* A write of an emission is before the files are registered, or after the bundle was made.
LEMMA WriteKeepsTheEnd ==
  ASSUME IInv, JInv, Alive, NEW p \in Proc, stage[p] # "idle",
         UNCHANGED <<control, doing, status, registry, bundle>>,
         \A q \in Proc : stage'[q] = "idle" <=> stage[q] = "idle"
  PROVE  MainSays' /\ Settled' /\ SuccessIsComplete' /\ BundleAgreesWithItself'
<1> USE DEF control
<1>1. pc \in {"starting", "running", "finishing", "noting"}
  BY EmittersDiffer
<1>2. MainSays'
  BY MainIsAProc DEF JInv, MainSays
<1>3. Settled' /\ verdict # "success"
  BY <1>1 DEF JInv, Settled
<1>4. SuccessIsComplete'
  BY <1>3 DEF SuccessIsComplete
<1>5. BundleAgreesWithItself'
  BY DEF JInv, BundleAgreesWithItself
<1> QED
  BY <1>2, <1>3, <1>4, <1>5

LEMMA WriteKeepsFresh ==
  ASSUME IInv, JInv, UNCHANGED <<control, doing, events>>,
         \A q \in Proc : (stage'[q] = "idle" <=> stage[q] = "idle")
                         /\ (stage'[q] \in {"line", "row"} => stage[q] \in {"line", "row"})
  PROVE  Fresh'
<1>1. \A e : NotYet(e)' = NotYet(e)
  BY DEF NotYet
<1> QED
  BY <1>1, MainIsAProc DEF control, JInv, Fresh

LEMMA WriteLineKeepsJ ==
  ASSUME IInv, JInv, NEW p \in Proc, WriteLine(p)
  PROVE  JInv'
<1>1. /\ Alive /\ stage[p] = "line" /\ ~broken /\ trace' = Append(trace, doing[p])
      /\ stage' = [stage EXCEPT ![p] = "row"]
      /\ UNCHANGED <<broken, status, events, calls, registry, bundle, control, doing>>
  BY DEF WriteLine, To
<1>2. doing[p] \in Event /\ trace \in Seq(Line)
  BY <1>1 DEF IInv, TypeOK, Shape
<1>3. \A q \in Proc : stage'[q] = IF q = p THEN "row" ELSE stage[q]
  BY <1>1 DEF IInv, TypeOK
<1>4. MainSays' /\ Settled' /\ SuccessIsComplete' /\ BundleAgreesWithItself' /\ Fresh'
  BY <1>1, <1>3, WriteKeepsTheEnd, WriteKeepsFresh
<1>5. CallsFollow'
  <2>1. \A e : Called(e)' = Called(e)
    BY <1>1 DEF Called, control
  <2>2. Owed' = Owed
    BY <1>1 DEF Owed, Said, control
  <2> QED
    BY <1>1, <1>3, <2>1, <2>2 DEF control, JInv, CallsFollow
<1>6. Torn'
  <2>1. doing[p] \in Line /\ doing[p] # "torn" /\ "torn" \notin Range(trace)
    BY <1>1, <1>2, LedgerAssumption DEF Line, JInv, Torn
  <2>2. Range(trace') = Range(trace) \cup {doing[p]} /\ trace' \in Seq(Line)
    BY <1>1, <1>2, <2>1, RangeOfAppend
  <2>3. "torn" \notin Range(trace')
    BY <2>1, <2>2
  <2>4. \A i \in 1 .. Len(trace') : trace'[i] # "torn"
    BY <2>2, <2>3 DEF Range
  <2> QED
    BY <2>3, <2>4 DEF Torn
<1> QED
  BY <1>4, <1>5, <1>6 DEF JInv

LEMMA LineFailsKeepsJ ==
  ASSUME IInv, JInv, NEW p \in Proc, LineFails(p)
  PROVE  JInv'
<1>1. /\ Alive /\ stage[p] = "line" /\ broken'
      /\ trace' = trace \/ (~broken /\ trace' = Append(trace, "torn"))
      /\ stage' = [stage EXCEPT ![p] = "error"]
      /\ UNCHANGED <<status, events, calls, registry, bundle, control, doing>>
  BY DEF LineFails, To, NoLineNoRow, ForGood
<1>2. trace \in Seq(Line) /\ "torn" \in Line
  BY DEF IInv, Shape, Line
<1>3. \A q \in Proc : stage'[q] = IF q = p THEN "error" ELSE stage[q]
  BY <1>1 DEF IInv, TypeOK
<1>4. MainSays' /\ Settled' /\ SuccessIsComplete' /\ BundleAgreesWithItself' /\ Fresh'
  BY <1>1, <1>3, WriteKeepsTheEnd, WriteKeepsFresh
<1>5. CallsFollow'
  <2>1. \A e : Called(e)' = Called(e)
    BY <1>1 DEF Called, control
  <2>2. Owed' = Owed
    BY <1>1 DEF Owed, Said, control
  <2> QED
    BY <1>1, <1>3, <2>1, <2>2 DEF control, JInv, CallsFollow
<1>6. Torn'
  <2>1. CASE trace' = trace
    BY <1>1, <2>1 DEF JInv, Torn
  <2>2. CASE ~broken /\ trace' = Append(trace, "torn")
    <3>1. "torn" \notin Range(trace)
      BY <2>2 DEF JInv, Torn
    <3>2. \A i \in 1 .. Len(trace) : trace[i] # "torn"
      BY <1>2, <3>1 DEF Range
    <3>3. Len(trace') = Len(trace) + 1 /\ Len(trace) \in Nat /\ \A i \in 1 .. Len(trace) : trace'[i] = trace[i]
      BY <1>2, <2>2
    <3> QED
      BY <1>1, <3>2, <3>3 DEF Torn
  <2> QED
    BY <1>1, <2>1, <2>2
<1> QED
  BY <1>4, <1>5, <1>6 DEF JInv

LEMMA InsertEventKeepsJ ==
  ASSUME IInv, JInv, NEW p \in Proc, InsertEvent(p)
  PROVE  JInv'
<1>1. /\ Alive /\ stage[p] = "row" /\ events' = Append(events, doing[p])
      /\ stage' = [stage EXCEPT ![p] = IF doing[p] \in cmd.tools THEN "call" ELSE "done"]
      /\ UNCHANGED <<trace, broken, status, calls, registry, bundle, control, doing>>
  BY DEF InsertEvent, To
<1>2. doing[p] \in Event /\ events \in Seq(Event)
  BY <1>1 DEF IInv, TypeOK, Shape
<1>3. \A q \in Proc : stage'[q] = IF q # p THEN stage[q] ELSE IF doing[p] \in cmd.tools THEN "call" ELSE "done"
  BY <1>1 DEF IInv, TypeOK
<1>4. MainSays' /\ Settled' /\ SuccessIsComplete' /\ BundleAgreesWithItself'
  BY <1>1, <1>3, WriteKeepsTheEnd
<1>5. CallsFollow'
  <2>1. \A e : Called(e)' = Called(e)
    BY <1>1 DEF Called, control
  <2>2. Owed' = Owed
    BY <1>1 DEF Owed, Said, control
  <2> QED
    BY <1>1, <1>3, <2>1, <2>2 DEF control, JInv, CallsFollow
<1>6. Torn'
  BY <1>1 DEF JInv, Torn
<1>7. Fresh'
  <2>1. doing[p] \notin Range(events)
    BY <1>1 DEF JInv, Fresh, NotYet
  <2>2. IsInjective(events')
    BY <1>1, <1>2, <2>1, AppendIsInjective DEF JInv, Fresh
  <2>3. Range(events') = Range(events) \cup {doing[p]}
    BY <1>1, <1>2, RangeOfAppend
  <2>4. \A e : e # doing[p] /\ NotYet(e) => e \notin Range(events')
    BY <2>3 DEF NotYet
  <2>5. ASSUME NEW q \in Proc, stage'[q] \in {"line", "row"} PROVE doing[q] \notin Range(events')
    <3>1. q # p /\ stage[q] \in {"line", "row"}
      BY <1>3, <2>5
    <3>2. doing[q] # doing[p]
      BY <1>1, <3>1, EmittersDiffer
    <3>3. NotYet(doing[q])
      BY <3>1 DEF JInv, Fresh
    <3> QED
      BY <2>4, <3>2, <3>3
  <2>6. ASSUME NEW g \in Goroutine, NEW i \in 1 .. Len(cmd.script[g]),
               i > pos[g] + 1 \/ (i = pos[g] + 1 /\ stage'[g] = "idle")
        PROVE  cmd.script[g][i] \notin Range(events')
    <3>1. i > pos[g] + 1 \/ (i = pos[g] + 1 /\ stage[g] = "idle")
      BY <1>3, <2>6, MainIsAProc
    <3>2. NotYet(cmd.script[g][i])
      BY <3>1 DEF JInv, Fresh
    <3>3. CASE p = Main
      <4>1. doing[p] \in Own
        BY <1>1, <3>3, EmittersDiffer
      <4>2. cmd.script[g][i] \notin Own
        BY ScriptsAreDisjoint DEF IInv, Shape
      <4> QED
        BY <2>4, <3>2, <4>1, <4>2
    <3>4. CASE p # Main
      <4>1. /\ p \in Goroutine /\ pos[p] + 1 \in 1 .. Len(cmd.script[p])
            /\ doing[p] = cmd.script[p][pos[p] + 1]
        BY <1>1, <3>4, EmittersDiffer
      <4>2. g = p => i # pos[p] + 1
        BY <1>1, <3>1 DEF IInv, Shape
      <4>3. cmd.script[g][i] # doing[p]
        BY <4>1, <4>2, ScriptsAreDisjoint DEF IInv, Shape
      <4> QED
        BY <2>4, <3>2, <4>3
    <3> QED
      BY <3>3, <3>4
  <2>7. /\ pc = "starting" => p = Main /\ doing[p] = "run.started"
        /\ pc = "running" => doing[p] \notin Own
        /\ pc = "finishing" => doing[p] = "run.finished"
        /\ pc \in {"starting", "running", "finishing", "noting"}
    BY <1>1, EmittersDiffer DEF JInv, MainSays
  <2>8. /\ pc = "preparing" => "run.started" \notin Range(events')
        /\ pc \in {"preparing", "starting", "running"} => "run.finished" \notin Range(events')
        /\ pc \in Unsettled \cup {"registering", "exporting"} => "run.export.partial" \notin Range(events')
    BY <2>4, <2>7 DEF JInv, Fresh, Own, Unsettled
  <2> QED
    BY <1>1, <2>2, <2>5, <2>6, <2>8 DEF Fresh, NotYet, control
<1> QED
  BY <1>4, <1>5, <1>6, <1>7 DEF JInv

LEMMA InsertToolCallKeepsJ ==
  ASSUME IInv, JInv, NEW p \in Proc, InsertToolCall(p)
  PROVE  JInv'
<1>1. /\ Alive /\ stage[p] = "call" /\ calls' = calls \cup {doing[p]}
      /\ stage' = [stage EXCEPT ![p] = "done"]
      /\ UNCHANGED <<trace, broken, status, events, registry, bundle, control, doing>>
  BY DEF InsertToolCall, To
<1>3. \A q \in Proc : stage'[q] = IF q = p THEN "done" ELSE stage[q]
  BY <1>1 DEF IInv, TypeOK
<1>4. MainSays' /\ Settled' /\ SuccessIsComplete' /\ BundleAgreesWithItself' /\ Fresh'
  BY <1>1, <1>3, WriteKeepsTheEnd, WriteKeepsFresh
<1>5. CallsFollow'
  <2>1. \A e : Called(e) => Called(e)'
    BY <1>1 DEF Called, control
  <2>2. Owed' = Owed
    BY <1>1 DEF Owed, Said, control
  <2>3. \A q \in Proc : stage'[q] = "done" /\ doing'[q] \in cmd'.tools => doing'[q] \in calls'
    BY <1>1, <1>3 DEF control, JInv, CallsFollow
  <2> QED
    BY <1>1, <2>1, <2>2, <2>3 DEF control, JInv, CallsFollow
<1>6. Torn'
  BY <1>1 DEF JInv, Torn
<1> QED
  BY <1>4, <1>5, <1>6 DEF JInv

LEMMA InsertFailsKeepsJ ==
  ASSUME IInv, JInv, NEW p \in Proc, InsertFails(p)
  PROVE  JInv'
<1>1. /\ Alive /\ stage[p] \in {"row", "call"} /\ stage' = [stage EXCEPT ![p] = "error"]
      /\ UNCHANGED <<trace, broken, status, events, calls, registry, bundle, control, doing>>
  BY DEF InsertFails, To, ledger
<1>3. \A q \in Proc : stage'[q] = IF q = p THEN "error" ELSE stage[q]
  BY <1>1 DEF IInv, TypeOK
<1>4. MainSays' /\ Settled' /\ SuccessIsComplete' /\ BundleAgreesWithItself' /\ Fresh'
  BY <1>1, <1>3, WriteKeepsTheEnd, WriteKeepsFresh
<1>5. CallsFollow'
  <2>1. \A e : Called(e)' = Called(e)
    BY <1>1 DEF Called, control
  <2>2. Owed' = Owed
    BY <1>1 DEF Owed, Said, control
  <2> QED
    BY <1>1, <1>3, <2>1, <2>2 DEF control, JInv, CallsFollow
<1>6. Torn'
  BY <1>1 DEF JInv, Torn
<1> QED
  BY <1>4, <1>5, <1>6 DEF JInv

\* A goroutine speaks while the command runs.
LEMMA SpeakKeepsJ ==
  ASSUME IInv, JInv, NEW g \in Goroutine, Speak(g)
  PROVE  JInv'
<1>1. /\ pc = "running" /\ stage[g] = "idle" /\ pos[g] < Len(cmd.script[g]) /\ pos[g] \in Nat
      /\ Len(cmd.script[g]) \in Nat
      /\ UNCHANGED <<cmd, trace, broken, status, events, calls, registry, bundle, pc, failed, runErr, errs, todo, verdict>>
  BY LedgerAssumption DEF Speak, ledger, IInv, Shape
<1>2. /\ stage'[Main] = stage[Main] /\ doing'[Main] = doing[Main] /\ g \in Proc
      /\ \/ /\ cmd.group[Upcoming(g)] \in failed /\ pos' = [pos EXCEPT ![g] = @ + 1] /\ UNCHANGED <<doing, stage>>
         \/ /\ stage' = [stage EXCEPT ![g] = "line"] /\ doing' = [doing EXCEPT ![g] = Upcoming(g)] /\ UNCHANGED pos
  BY MainIsAProc DEF Speak, Begin, emission, IInv, TypeOK
<1>3. MainSays' /\ Settled' /\ SuccessIsComplete' /\ BundleAgreesWithItself' /\ Torn'
  BY <1>1, <1>2 DEF JInv, MainSays, Settled, SuccessIsComplete, BundleAgreesWithItself, Torn
<1>4. \A e : Called(e)' = Called(e)
  BY <1>1 DEF Called
<1>5. Owed' = Owed
  BY <1>1 DEF Owed, Said
<1>6. \A e : NotYet(e)' = NotYet(e)
  BY <1>1 DEF NotYet
<1>7. CASE cmd.group[Upcoming(g)] \in failed /\ pos' = [pos EXCEPT ![g] = @ + 1] /\ UNCHANGED <<doing, stage>>
  <2>1. \A h \in Goroutine : pos'[h] = IF h = g THEN pos[g] + 1 ELSE pos[h]
    BY <1>7 DEF IInv, Shape
  <2>2. Called(cmd.script[g][pos[g] + 1])
    BY <1>7 DEF Called, Upcoming
  <2>3. \A h \in Goroutine : pos[h] \in Nat
    BY DEF IInv, Shape
  <2>4. \A h \in Goroutine : \A i \in 1 .. pos'[h] : Called(cmd.script[h][i])
    <3> SUFFICES ASSUME NEW h \in Goroutine, NEW i \in 1 .. pos'[h] PROVE Called(cmd.script[h][i])
      OBVIOUS
    <3>1. i \in 1 .. pos[h] \/ (h = g /\ i = pos[g] + 1)
      BY <2>1, <2>3
    <3> QED
      BY <2>2, <3>1 DEF JInv, CallsFollow
  <2>5. CallsFollow'
    BY <1>1, <1>4, <1>5, <1>7, <2>4 DEF JInv, CallsFollow
  <2>6. \A h \in Goroutine : \A i \in 1 .. Len(cmd.script[h]) :
          i > pos'[h] + 1 \/ (i = pos'[h] + 1 /\ stage[h] = "idle") => NotYet(cmd.script[h][i])
    BY <2>1, <2>3 DEF JInv, Fresh
  <2>7. Fresh'
    BY <1>1, <1>6, <1>7, <2>6 DEF JInv, Fresh
  <2> QED
    BY <1>3, <2>5, <2>7 DEF JInv
<1>8. CASE /\ stage' = [stage EXCEPT ![g] = "line"] /\ doing' = [doing EXCEPT ![g] = Upcoming(g)]
           /\ UNCHANGED pos
  <2>1. \A p \in Proc : IF p = g THEN stage'[p] = "line" /\ doing'[p] = Upcoming(g)
                                 ELSE stage'[p] = stage[p] /\ doing'[p] = doing[p]
    BY <1>8 DEF IInv, TypeOK
  <2>2. CallsFollow'
    BY <1>1, <1>4, <1>5, <1>8, <2>1 DEF JInv, CallsFollow
  <2>3. NotYet(Upcoming(g))
    <3>1. pos[g] + 1 \in 1 .. Len(cmd.script[g])
      BY <1>1
    <3> QED
      BY <1>1, <3>1 DEF JInv, Fresh, Upcoming
  <2>4. \A p \in Proc : stage'[p] \in {"line", "row"} => NotYet(doing'[p])
    BY <2>1, <2>3 DEF JInv, Fresh
  <2>5. \A h \in Goroutine : stage'[h] = "idle" => stage[h] = "idle"
    BY <2>1, MainIsAProc
  <2>6. Fresh'
    BY <1>1, <1>8, <2>4, <2>5 DEF JInv, Fresh, NotYet
  <2> QED
    BY <1>3, <2>2, <2>6 DEF JInv
<1> QED
  BY <1>2, <1>7, <1>8

LEMMA SpokenKeepsJ ==
  ASSUME IInv, JInv, NEW g \in Goroutine, Spoken(g)
  PROVE  JInv'
<1>1. /\ pc = "running" /\ stage[g] \in {"done", "error"} /\ pos[g] \in Nat
      /\ doing[g] = cmd.script[g][pos[g] + 1] /\ g \in Proc
      /\ pos' = [pos EXCEPT ![g] = @ + 1]
      /\ UNCHANGED <<cmd, trace, broken, status, events, calls, registry, bundle, pc, runErr, errs, todo, verdict>>
      /\ failed \subseteq failed'
      /\ stage[g] = "error" => cmd.group[doing[g]] \in cmd.ignored \cup failed'
  BY MainIsAProc DEF Spoken, Over, ledger, IInv, Shape, FollowsScript, Upcoming
<1>2. \A p \in Proc : IF p = g THEN stage'[p] = "idle" ELSE stage'[p] = stage[p] /\ doing'[p] = doing[p]
  BY <1>1 DEF Spoken, Rest, IInv, TypeOK
<1>3. MainSays' /\ Settled' /\ SuccessIsComplete' /\ BundleAgreesWithItself' /\ Torn'
  BY <1>1, <1>2, MainIsAProc DEF JInv, MainSays, Settled, SuccessIsComplete, BundleAgreesWithItself, Torn
<1>4. \A h \in Goroutine : pos[h] \in Nat /\ pos'[h] = IF h = g THEN pos[g] + 1 ELSE pos[h]
  BY <1>1 DEF IInv, Shape
<1>5. CallsFollow'
  <2>1. \A e : Called(e) => Called(e)'
    BY <1>1 DEF Called
  <2>2. \A e : e = doing[g] => Called(e)'
    BY <1>1 DEF Called, JInv, CallsFollow
  <2>3. ASSUME NEW h \in Goroutine, NEW i \in 1 .. pos'[h] PROVE Called(cmd.script[h][i])'
    <3>1. i \in 1 .. pos[h] \/ (h = g /\ i = pos[g] + 1)
      BY <1>4
    <3>2. CASE i \in 1 .. pos[h]
      <4>1. Called(cmd.script[h][i])
        BY <3>2 DEF JInv, CallsFollow
      <4> QED
        BY <1>1, <2>1, <4>1
    <3>3. CASE h = g /\ i = pos[g] + 1
      BY <1>1, <2>2, <3>3
    <3> QED
      BY <3>1, <3>2, <3>3
  <2>4. Owed' = Owed
    BY <1>1 DEF Owed, Said
  <2> QED
    BY <1>1, <1>2, <2>3, <2>4 DEF JInv, CallsFollow
<1>6. Fresh'
  <2>1. \A p \in Proc : stage'[p] \in {"line", "row"} => NotYet(doing'[p])
    BY <1>2 DEF JInv, Fresh
  <2>2. \A h \in Goroutine : \A i \in 1 .. Len(cmd.script[h]) :
          i > pos'[h] + 1 \/ (i = pos'[h] + 1 /\ stage'[h] = "idle") => NotYet(cmd.script[h][i])
    BY <1>1, <1>2, <1>4, MainIsAProc DEF JInv, Fresh
  <2> QED
    BY <1>1, <2>1, <2>2 DEF JInv, Fresh, NotYet
<1> QED
  BY <1>3, <1>5, <1>6 DEF JInv

\* A step of runWithStore records nothing; it may let the main goroutine say what it has not
\* said yet.
LEMMA CallerKeepsRows ==
  ASSUME IInv, JInv, UNCHANGED <<cmd, trace, broken, events, calls, pos, failed>>,
         \A g \in Goroutine : stage'[g] = stage[g] /\ doing'[g] = doing[g],
         \/ stage'[Main] = stage[Main] /\ doing'[Main] = doing[Main]
         \/ stage'[Main] = "idle"
         \/ stage'[Main] = "line" /\ NotYet(doing'[Main]),
         (pc' = "finishing" /\ ~runErr') \/ status' = "ok" => Owed \cap cmd.tools \subseteq calls,
         pc' # "preparing", pc' \in {"starting", "running"} => pc \in {"preparing", "starting", "running"},
         pc' \in Unsettled \cup {"registering", "exporting"} => pc \in Unsettled \cup {"registering", "exporting"}
  PROVE  CallsFollow' /\ Fresh' /\ Torn'
<1>1. \A e : Called(e)' = Called(e)
  BY DEF Called
<1>2. Owed' = Owed
  BY DEF Owed, Said
<1>3. \A p \in Proc : stage'[p] = "done" /\ doing'[p] \in cmd.tools => doing'[p] \in calls
  BY DEF JInv, CallsFollow, Proc
<1>4. CallsFollow'
  BY <1>1, <1>2, <1>3 DEF JInv, CallsFollow
<1>5. \A p \in Proc : stage'[p] \in {"line", "row"} => NotYet(doing'[p])
  BY DEF JInv, Fresh, Proc
<1>6. Fresh'
  BY <1>5 DEF JInv, Fresh, NotYet
<1>7. Torn'
  BY DEF JInv, Torn
<1> QED
  BY <1>4, <1>6, <1>7

\* A step of runWithStore before the run is finished, or after a failure.
LEMMA NoSuccessYet ==
  ASSUME IInv, JInv, verdict' # "success", bundle' = bundle
  PROVE  SuccessIsComplete' /\ BundleAgreesWithItself'
BY DEF JInv, SuccessIsComplete, BundleAgreesWithItself

\* The registry, once a file was added to it.
LEMMA RegisteredAsIs ==
  ASSUME NEW f, NEW x
  PROVE  /\ DOMAIN Registered(f) = DOMAIN registry \cup {f}
         /\ Registered(f)[f] = Content(f)
         /\ x \in DOMAIN registry /\ x # f => Registered(f)[x] = registry[x]
BY DEF Registered

\* What there is to register.
LEMMA FilesAreFiles == Files \in Seq(ToRegister)
<1>1. Files \in Seq(STRING)
  BY LedgerAssumption
<1>2. Len(Files) \in Nat /\ DOMAIN Files = 1 .. Len(Files) /\ Files = [i \in 1 .. Len(Files) |-> Files[i]]
  BY <1>1
<1>3. \A i \in 1 .. Len(Files) : Files[i] \in ToRegister
  BY <1>2 DEF Range, ToRegister
<1>4. [i \in 1 .. Len(Files) |-> Files[i]] \in Seq(ToRegister)
  BY ONLY <1>2, <1>3
<1> QED
  BY <1>2, <1>4

\* What is taken from the front of a sequence.
LEMMA HeadAndTail ==
  ASSUME NEW S, NEW s \in Seq(S), s # <<>>
  PROVE  Tail(s) \in Seq(S) /\ Range(s) = {Head(s)} \cup Range(Tail(s))
<1>1. /\ Tail(s) \in Seq(S) /\ Len(s) \in Nat /\ Len(s) # 0 /\ Len(Tail(s)) = Len(s) - 1 /\ Head(s) = s[1]
      /\ DOMAIN s = 1 .. Len(s) /\ DOMAIN Tail(s) = 1 .. Len(Tail(s))
      /\ \A i \in 1 .. Len(Tail(s)) : Tail(s)[i] = s[i + 1]
  OBVIOUS
<1>2. Range(Tail(s)) \subseteq Range(s) /\ Head(s) \in Range(s)
  BY <1>1 DEF Range
<1>3. ASSUME NEW i \in 1 .. Len(s), i # 1 PROVE s[i] \in Range(Tail(s))
  <2>1. i - 1 \in 1 .. Len(Tail(s)) /\ Tail(s)[i - 1] = s[(i - 1) + 1] /\ (i - 1) + 1 = i
    BY <1>1, <1>3
  <2> QED
    BY <1>1, <2>1 DEF Range
<1> QED
  BY <1>1, <1>2, <1>3 DEF Range

\* The steps before the command runs; they leave the registry and the tool calls alone.
LEMMA StartKeepsJ ==
  ASSUME IInv, JInv, StartRun \/ StartFails \/ Launch \/ Abandon
  PROVE  JInv'
<1> USE MainIsAProc
<1>1. CASE StartRun
  <2>1. /\ Begin(Main, "run.started") /\ pc = "preparing" /\ pc' = "starting" /\ status' = "running"
        /\ UNCHANGED <<cmd, trace, broken, events, calls, pos, failed, todo, verdict, bundle>>
    BY <1>1 DEF StartRun
  <2>2. NotYet("run.started") /\ "run.started" \in Own
    BY <2>1 DEF JInv, Fresh, Own
  <2>3. CallsFollow' /\ Fresh' /\ Torn'
    BY <2>1, <2>2, MainBegins, CallerKeepsRows DEF Unsettled
  <2>4. MainSays'
    BY <2>1, <2>2, MainBegins DEF MainSays
  <2>5. Settled' /\ verdict' # "success"
    BY <2>1 DEF JInv, Settled
  <2> QED
    BY <2>1, <2>3, <2>4, <2>5, NoSuccessYet DEF JInv
<1>2. CASE StartFails
  <2>1. /\ pc' = "returned" /\ verdict' = "error"
        /\ UNCHANGED <<cmd, doing, stage, trace, broken, status, events, calls, pos, failed, todo, bundle, runErr>>
    BY <1>2 DEF StartFails, Return, emission, ledger
  <2>2. CallsFollow' /\ Fresh' /\ Torn'
    BY <2>1, CallerKeepsRows DEF Unsettled, JInv, CallsFollow
  <2>3. MainSays' /\ Settled'
    BY <2>1 DEF JInv, MainSays, Settled
  <2> QED
    BY <2>1, <2>2, <2>3, NoSuccessYet DEF JInv
<1>3. CASE Launch
  <2>1. /\ Rest(Main) /\ pc = "starting" /\ pc' = "running"
        /\ UNCHANGED <<cmd, trace, broken, status, events, calls, pos, failed, todo, verdict, bundle, runErr>>
    BY <1>3 DEF Launch, ledger
  <2>2. CallsFollow' /\ Fresh' /\ Torn'
    BY <2>1, MainRests, CallerKeepsRows DEF Unsettled, JInv, CallsFollow
  <2>3. MainSays'
    BY <2>1, MainRests DEF MainSays
  <2>4. Settled' /\ verdict' # "success"
    BY <2>1 DEF JInv, Settled
  <2> QED
    BY <2>1, <2>2, <2>3, <2>4, NoSuccessYet DEF JInv
<1>4. CASE Abandon
  <2>1. /\ Rest(Main) /\ pc = "starting" /\ pc' = "returned" /\ verdict' = "error"
        /\ status' = "failed" \/ status' = status
        /\ UNCHANGED <<cmd, trace, broken, events, calls, pos, failed, todo, bundle, runErr>>
    BY <1>4 DEF Abandon, GiveUp
  <2>2. CallsFollow' /\ Fresh' /\ Torn'
    BY <2>1, MainRests, CallerKeepsRows DEF Unsettled, JInv, CallsFollow
  <2>3. MainSays' /\ Settled'
    BY <2>1 DEF JInv, MainSays, Settled
  <2> QED
    BY <2>1, <2>2, <2>3, NoSuccessYet DEF JInv
<1> QED
  BY <1>1, <1>2, <1>3, <1>4

\* A command that has not failed has recorded the calls it owes; the run is finished then, and
\* what it has recorded is registered.
LEMMA FinishKeepsJ ==
  ASSUME IInv, JInv, RunnerReturns \/ FinishRun
  PROVE  JInv'
<1> USE MainIsAProc
<1>1. CASE RunnerReturns
  <2>1. /\ Begin(Main, "run.finished") /\ pc = "running" /\ pc' = "finishing"
        /\ ~runErr' => failed = {}
        /\ \A g \in Goroutine : Spent(g)
        /\ UNCHANGED <<cmd, trace, broken, status, events, calls, pos, failed, todo, verdict, bundle>>
    BY <1>1 DEF RunnerReturns, ledger, CommandFails
  <2>2. NotYet("run.finished") /\ "run.finished" \in Own
    BY <2>1 DEF JInv, Fresh, Own
  <2>3. ASSUME failed = {}, NEW e \in Said(cmd), cmd.group[e] \notin cmd.ignored, e \in cmd.tools
        PROVE  e \in calls
    <3>1. PICK g \in Goroutine : e \in Range(cmd.script[g])
      BY <2>3 DEF Said
    <3>2. cmd.script[g] \in Seq(Said(cmd))
      BY LedgerAssumption DEF IInv, Shape
    <3>3. PICK i \in 1 .. Len(cmd.script[g]) : e = cmd.script[g][i]
      BY <3>1, <3>2 DEF Range
    <3>4. i \in 1 .. pos[g]
      BY <2>1, <3>3 DEF Spent
    <3>5. Called(e)
      BY <3>3, <3>4 DEF JInv, CallsFollow
    <3> QED
      BY <2>3, <3>5 DEF Called
  <2>4. cmd.tools \cap Own = {}
    BY LedgerAssumption DEF IInv, Shape
  <2>5. failed = {} => Owed \cap cmd.tools \subseteq calls
    BY <2>3, <2>4 DEF Owed, Own
  <2>6. CallsFollow' /\ Fresh' /\ Torn'
    BY <2>1, <2>2, <2>5, MainBegins, CallerKeepsRows DEF Unsettled, JInv, CallsFollow
  <2>7. MainSays'
    BY <2>1, <2>2, MainBegins DEF MainSays
  <2>8. Settled' /\ verdict' # "success"
    BY <2>1 DEF JInv, Settled
  <2> QED
    BY <2>1, <2>6, <2>7, <2>8, NoSuccessYet DEF JInv
<1>2. CASE FinishRun
  <2>1. /\ Rest(Main) /\ Over(Main) /\ pc = "finishing" /\ pc' = "registering"
        /\ \/ status' = Outcome /\ errs' = (stage[Main] = "error")
           \/ errs' /\ status' = status
        /\ todo' = <<Trace>> \o Files
        /\ UNCHANGED <<cmd, trace, broken, events, calls, pos, failed, verdict, bundle, runErr>>
    BY <1>2 DEF FinishRun
  <2>2. status' = "ok" => ~runErr \/ status = "ok"
    BY <2>1 DEF Outcome
  <2>3. CallsFollow' /\ Fresh' /\ Torn'
    BY <2>1, <2>2, MainRests, CallerKeepsRows DEF Unsettled, JInv, CallsFollow
  <2>4. MainSays'
    BY <2>1, MainRests DEF MainSays
  <2>5. ~errs' => "run.finished" \in Range(events) /\ status' = Outcome
    BY <2>1 DEF Over, JInv, MainSays, IInv, LineThenRow
  <2>6. todo' \in Seq(ToRegister) /\ {Trace} \cup Range(Files) \subseteq Range(todo')
    <3>1. <<Trace>> \in Seq(ToRegister) /\ Files \in Seq(ToRegister)
      BY FilesAreFiles DEF ToRegister
    <3>2. /\ todo' \in Seq(ToRegister) /\ Len(todo') = 1 + Len(Files) /\ Len(Files) \in Nat
          /\ todo'[1] = Trace /\ \A i \in 1 .. Len(Files) : todo'[i + 1] = Files[i]
      BY <2>1, <3>1
    <3>3. \A i \in 1 .. Len(Files) : i + 1 \in DOMAIN todo'
      BY <3>2
    <3>4. 1 \in DOMAIN todo'
      BY <3>2
    <3>5. DOMAIN Files = 1 .. Len(Files)
      BY <3>1
    <3> QED
      BY <3>2, <3>3, <3>4, <3>5 DEF Range
  <2>7. Settled' /\ verdict' # "success"
    BY <2>1, <2>5, <2>6 DEF JInv, Settled, Outcome
  <2> QED
    BY <2>1, <2>3, <2>4, <2>7, NoSuccessYet DEF JInv
<1> QED
  BY <1>1, <1>2

\* A file is registered as it is, or the list ends with an error.
LEMMA RegisterKeepsJ ==
  ASSUME IInv, JInv, Register \/ RegisterFails
  PROVE  JInv'
<1>1. /\ pc \in {"registering", "sealing"} /\ todo # <<>>
      /\ UNCHANGED <<cmd, doing, stage, pc, trace, broken, status, events, calls, pos, failed, verdict, bundle, runErr>>
      /\ \/ registry' = Registered(Head(todo)) /\ todo' = Tail(todo) /\ errs' = errs
         \/ errs' /\ todo' = <<>>
  BY DEF Register, RegisterFails, emission, ledger
<1>2. CallsFollow' /\ Fresh' /\ Torn'
  BY <1>1, CallerKeepsRows DEF Unsettled, JInv, CallsFollow
<1>3. MainSays'
  BY <1>1 DEF JInv, MainSays
<1>4. \A f : Content(f)' = Content(f)
  BY <1>1 DEF Content
<1>5. todo \in Seq(ToRegister) /\ Outcome' = Outcome
  BY <1>1 DEF JInv, Settled, Outcome
<1>6. todo' \in Seq(ToRegister)
  <2>1. <<>> \in Seq(ToRegister)
    OBVIOUS
  <2>2. Tail(todo) \in Seq(ToRegister)
    BY <1>1, <1>5, HeadAndTail
  <2> QED
    BY <1>1, <2>1, <2>2
<1>7. ASSUME ~errs', pc = "registering", NEW f \in {Trace} \cup Range(Files)
      PROVE  f \in Range(todo') \/ (f \in DOMAIN registry' /\ registry'[f] = Content(f))
  <2>1. registry' = Registered(Head(todo)) /\ todo' = Tail(todo) /\ ~errs
    BY <1>1, <1>7
  <2>2. f \in Range(todo) \/ AsItIs(f)
    BY <1>7, <2>1 DEF JInv, Settled
  <2>3. Range(todo) = {Head(todo)} \cup Range(todo')
    BY <1>1, <1>5, <2>1, HeadAndTail
  <2> QED
    BY <2>1, <2>2, <2>3, RegisteredAsIs DEF AsItIs
<1>8. Settled' /\ verdict' # "success"
  BY <1>1, <1>4, <1>5, <1>6, <1>7 DEF JInv, Settled, AsItIs
<1> QED
  BY <1>1, <1>2, <1>3, <1>8, NoSuccessYet DEF JInv

\* The command returns, and its evidence is complete if it says so; or it exports its failure.
LEMMA SettleKeepsJ ==
  ASSUME IInv, JInv, Settle
  PROVE  JInv'
<1>1. /\ pc = "registering" /\ todo = <<>>
      /\ \/ ToBeExported /\ pc' = "exporting" /\ verdict' = verdict
         \/ pc' = "returned" /\ verdict' = IF errs \/ runErr THEN "error" ELSE "success"
      /\ UNCHANGED <<cmd, doing, stage, trace, broken, status, events, calls, registry, bundle,
                     pos, failed, runErr, errs, todo>>
  BY DEF Settle, Return, Result, emission, ledger
<1>2. CallsFollow' /\ Fresh' /\ Torn'
  BY <1>1, CallerKeepsRows DEF Unsettled, JInv, CallsFollow
<1>3. MainSays'
  BY <1>1 DEF JInv, MainSays
<1>4. \A f : AsItIs(f)' = AsItIs(f)
  BY <1>1 DEF AsItIs, Content
<1>5. Settled'
  BY <1>1, <1>4 DEF JInv, Settled, ToBeExported, Outcome
<1>6. ASSUME verdict' = "success" PROVE SuccessIsComplete'
  <2>1. ~errs /\ ~runErr
    BY <1>1, <1>6 DEF JInv, Settled
  <2>2. status = "ok" /\ "run.finished" \in Range(events)
    BY <1>1, <2>1 DEF JInv, Settled, Outcome
  <2>3. Owed \subseteq Range(events) /\ Range(events) \subseteq Range(trace)
    BY <2>2 DEF IInv, OkIsEarned, RowsFollowTrace
  <2>4. Owed \cap cmd.tools \subseteq calls
    BY <2>2 DEF JInv, CallsFollow
  <2>5. \A f \in {Trace} \cup Range(Files) : f \in DOMAIN registry /\ registry[f] = Content(f)
    <3>1. Range(todo) = {}
      BY <1>1 DEF Range
    <3> QED
      BY <1>1, <2>1, <3>1 DEF JInv, Settled, AsItIs
  <2>6. Owed' = Owed /\ \A f : Content(f)' = Content(f)
    BY <1>1 DEF Owed, Said, Content
  <2> QED
    BY <1>1, <2>2, <2>3, <2>4, <2>5, <2>6 DEF SuccessIsComplete
<1>7. SuccessIsComplete'
  BY <1>6 DEF SuccessIsComplete
<1>8. BundleAgreesWithItself'
  BY <1>1 DEF JInv, BundleAgreesWithItself
<1> QED
  BY <1>2, <1>3, <1>5, <1>7, <1>8 DEF JInv

\* The bundle of a failed run is made while the registered trace is the trace.
LEMMA ExportKeepsJ ==
  ASSUME IInv, JInv, Export \/ Noted \/ Seal \/ Crash
  PROVE  JInv'
<1> USE MainIsAProc
<1>1. CASE Export
  <2>1. /\ Begin(Main, "run.export.partial") /\ pc = "exporting" /\ pc' = "noting"
        /\ \/ bundle' = [trace |-> trace, status |-> status, events |-> events, calls |-> calls, registry |-> registry]
           \/ bundle' = bundle
        /\ UNCHANGED <<cmd, trace, broken, status, events, calls, registry, pos, failed, runErr, todo, verdict>>
    BY <1>1 DEF Export
  <2>2. NotYet("run.export.partial") /\ "run.export.partial" \in Own
    BY <2>1 DEF JInv, Fresh, Own
  <2>3. CallsFollow' /\ Fresh' /\ Torn'
    BY <2>1, <2>2, MainBegins, CallerKeepsRows DEF Unsettled, JInv, CallsFollow
  <2>4. MainSays'
    BY <2>1, <2>2, MainBegins DEF MainSays
  <2>5. Settled' /\ verdict' # "success"
    BY <2>1 DEF JInv, Settled
  <2>6. Trace \in DOMAIN registry /\ registry[Trace] = trace /\ "run.finished" \in Range(events) /\ status = "failed"
    <3>1. Range(todo) = {}
      BY <2>1 DEF JInv, Settled, Range
    <3> QED
      BY <2>1, <3>1 DEF JInv, Settled, AsItIs, Content, Outcome
  <2>7. BundleAgreesWithItself'
    BY <2>1, <2>6 DEF IInv, RowsFollowTrace, JInv, BundleAgreesWithItself
  <2>8. SuccessIsComplete'
    BY <2>5 DEF SuccessIsComplete
  <2> QED
    BY <2>3, <2>4, <2>5, <2>7, <2>8 DEF JInv
<1>2. CASE Noted
  <2>1. /\ Rest(Main) /\ pc = "noting" /\ pc' = "sealing" /\ todo' \in {<<>>, <<Bundle>>}
        /\ UNCHANGED <<cmd, trace, broken, status, events, calls, pos, failed, verdict, bundle, runErr>>
    BY <1>2 DEF Noted, ledger
  <2>2. CallsFollow' /\ Fresh' /\ Torn'
    BY <2>1, MainRests, CallerKeepsRows DEF Unsettled, JInv, CallsFollow
  <2>3. MainSays'
    BY <2>1, MainRests DEF MainSays
  <2>4. todo' \in Seq(ToRegister)
    <3>1. Bundle \in ToRegister
      BY DEF ToRegister
    <3>2. <<>> \in Seq(ToRegister) /\ <<Bundle>> \in Seq(ToRegister)
      BY <3>1
    <3> QED
      BY <2>1, <3>2
  <2>5. Settled' /\ verdict' # "success"
    BY <2>1, <2>4 DEF JInv, Settled
  <2> QED
    BY <2>1, <2>2, <2>3, <2>5, NoSuccessYet DEF JInv
<1>3. CASE Seal \/ Crash
  <2>1. /\ pc \notin {"returned", "crashed"} /\ pc' \in {"returned", "crashed"}
        /\ verdict' = verdict \/ verdict' = "error"
        /\ UNCHANGED <<cmd, doing, stage, trace, broken, status, events, calls, pos, failed, todo, bundle, runErr>>
    BY <1>3 DEF Seal, Return, Crash, Alive, emission, ledger
  <2>2. CallsFollow' /\ Fresh' /\ Torn'
    BY <2>1, CallerKeepsRows DEF Unsettled, JInv, CallsFollow
  <2>3. MainSays' /\ Settled' /\ verdict' # "success"
    BY <2>1 DEF JInv, MainSays, Settled
  <2> QED
    BY <2>1, <2>2, <2>3, NoSuccessYet DEF JInv
<1> QED
  BY <1>1, <1>2, <1>3

\* Every step keeps the second invariant.
LEMMA NextJInv == IInv /\ JInv /\ [Next]_vars => JInv'
<1> SUFFICES ASSUME IInv, JInv, [Next]_vars PROVE JInv'
  OBVIOUS
<1>1. CASE \E p \in Proc : Emission(p)
  BY <1>1, WriteLineKeepsJ, LineFailsKeepsJ, InsertEventKeepsJ, InsertToolCallKeepsJ, InsertFailsKeepsJ DEF Emission
<1>2. CASE \E g \in Goroutine : Speak(g) \/ Spoken(g)
  BY <1>2, SpeakKeepsJ, SpokenKeepsJ
<1>3. CASE RunWithStore \/ Crash
  BY <1>3, StartKeepsJ, FinishKeepsJ, RegisterKeepsJ, SettleKeepsJ, ExportKeepsJ DEF RunWithStore
<1>4. CASE UNCHANGED vars
  <2>1. /\ UNCHANGED <<cmd, pc, doing, stage, pos, failed, runErr, errs, todo, verdict>>
        /\ UNCHANGED <<trace, broken, status, events, calls, registry, bundle>>
    BY <1>4 DEF vars, emission, ledger, control
  <2>2. CallsFollow' /\ MainSays' /\ Fresh' /\ Torn'
    BY <2>1 DEF JInv, CallsFollow, MainSays, Fresh, Torn, Called, NotYet, Owed, Said
  <2>3. Settled' /\ SuccessIsComplete' /\ BundleAgreesWithItself'
    BY <2>1 DEF JInv, Settled, SuccessIsComplete, BundleAgreesWithItself, AsItIs, Content, Outcome, Owed, Said
  <2> QED
    BY <2>2, <2>3 DEF JInv
<1> QED
  BY <1>1, <1>2, <1>3, <1>4 DEF Next, Ended
-----------------------------------------------------------------------------
\* The inductive invariant holds in every reachable state.
THEOREM SpecIInv == Spec => []IInv
BY InitIInv, NextIInv, PTL DEF Spec

\* And so does the second.
THEOREM SpecJInv == Spec => []JInv
BY InitJInv, NextJInv, SpecIInv, PTL DEF Spec

\* The variables keep their types (the state runWithStore and emit keep).
THEOREM TypeCorrect == Spec => []TypeOK
<1>1. IInv => TypeOK
  BY DEF IInv
<1> QED
  BY <1>1, SpecIInv, PTL

\* Emit before insert (main.go:1033-1063): with any number of goroutines and failing
\* writes, and wherever the process dies, no row is without its line.
THEOREM EmitBeforeInsert == Spec => []RowsFollowTrace
<1>1. IInv => RowsFollowTrace
  BY DEF IInv
<1> QED
  BY <1>1, SpecIInv, PTL

\* A run's row is "ok" only if the command succeeded and SQLite has every event it owes
\* but the last (main.go:744-766).
THEOREM OkRunsAreEarned == Spec => []OkIsEarned
<1>1. IInv => OkIsEarned
  BY DEF IInv
<1> QED
  BY <1>1, SpecIInv, PTL

\* A command that reports success has left complete evidence, whatever it emitted and from how
\* many goroutines (main.go:736-804).
THEOREM SuccessHasEvidence == Spec => []SuccessIsComplete
<1>1. JInv => SuccessIsComplete
  BY DEF JInv
<1> QED
  BY <1>1, SpecJInv, PTL

\* The bundle of a failed run names and hashes what is in it (main.go:795-800).
THEOREM BundlesAgree == Spec => []BundleAgreesWithItself
<1>1. JInv => BundleAgreesWithItself
  BY DEF JInv
<1> QED
  BY <1>1, SpecJInv, PTL

\* No event has two rows and nothing follows a torn line (trace.go:69-108).
THEOREM TracesAreSound == Spec => []TraceIsSound
<1>1. JInv => TraceIsSound
  BY DEF JInv, Fresh, Torn, TraceIsSound
<1> QED
  BY <1>1, SpecJInv, PTL

\* A final status stays (StartRun and FinishRun of store.go as runWithStore calls them).
THEOREM FinalStatusStays == Spec => StatusIsWrittenOnce
<1>1. IInv /\ [Next]_vars => [Final(status) => status' = status]_vars
  <2> SUFFICES ASSUME IInv, Next, Final(status) PROVE status' = status
    BY DEF vars, ledger
  <2>1. pc \notin Unsettled
    BY DEF IInv, Story
  <2>2. ASSUME NEW p \in Proc, Emission(p) PROVE status' = status
    BY <2>2 DEF Emission, WriteLine, LineFails, InsertEvent, InsertToolCall, InsertFails, ledger
  <2>3. ASSUME NEW g \in Goroutine, Speak(g) \/ Spoken(g) PROVE status' = status
    BY <2>3 DEF Speak, Spoken, ledger
  <2>4. CASE RunWithStore
    BY <2>1, <2>4 DEF RunWithStore, StartRun, StartFails, Launch, Abandon, RunnerReturns, FinishRun, Register,
      RegisterFails, Settle, Export, Noted, Seal, ledger, Unsettled
  <2>5. CASE Crash \/ Ended
    BY <2>5 DEF Crash, Ended, vars, ledger
  <2> QED
    BY <2>2, <2>3, <2>4, <2>5 DEF Next
<1> QED
  BY <1>1, SpecIInv, PTL DEF Spec, StatusIsWrittenOnce
=============================================================================
