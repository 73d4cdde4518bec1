----------------------------- MODULE RunLedger -----------------------------
(***************************************************************************)
(* The evidence of one run: its trace file, its rows in SQLite, its        *)
(* artifact registry and the bundle of a failed run.  runWithStore, emit,  *)
(* persistRunArtifacts and maybeAutoExportFailure in                       *)
(* src/cmd/virmux/main.go, Writer.Emit in src/internal/trace/trace.go, and *)
(* StartRun, InsertEvent, InsertToolCall, InsertArtifact and FinishRun in  *)
(* src/internal/store/store.go.                                            *)
(*                                                                         *)
(* An emission is three writes with nothing around them: the trace line,   *)
(* the event row, the tool call row.  Any write may fail and the process   *)
(* may die between any two.  The command's own work is abstract: each of   *)
(* its goroutines emits the events of its script.  The events of a group   *)
(* stop at the first one that fails, and then the command fails, unless    *)
(* the group is ignored: its errors are dropped.  An event stands for one  *)
(* emission: two of one kind are two events.                               *)
(***************************************************************************)
EXTENDS Naturals, Sequences, SequencesExt

CONSTANTS
  Goroutine,    \* the goroutines that emit while the command runs
  Commands,     \* the commands: the events each goroutine emits (script), the group of
                \* each event, the groups whose errors are dropped (ignored), and the
                \* events that carry a tool receipt (tools)
  Files,        \* the files registered after the trace, in their order
  MaxFaults,    \* failing writes in a behaviour
  ExportOnFail, \* --export-on-fail
  MayCrash,     \* whether the process may die
  Main, None    \* the process's main goroutine; no event, no file

Said(c) == UNION {Range(c.script[g]) : g \in Goroutine}
Own == {"run.started", "run.finished", "run.export.partial"}
Event == (UNION {Said(c) : c \in Commands}) \cup Own
Proc == Goroutine \cup {Main}
Trace == "trace"
Bundle == "bundle"

ASSUME LedgerAssumption ==
  /\ Main \notin Goroutine
  /\ \A c \in Commands :
       /\ c.script \in [Goroutine -> Seq(Said(c))]
       /\ c.group \in [Said(c) -> STRING]
       /\ Said(c) \cap Own = {}
       /\ c.tools \subseteq Said(c)
       /\ \A g \in Goroutine : IsInjective(c.script[g])
       /\ \A g, h \in Goroutine : g # h => Range(c.script[g]) \cap Range(c.script[h]) = {}
  /\ Files \in Seq(STRING)
  /\ None \notin Event /\ "torn" \notin Event
  /\ MaxFaults \in Nat
  /\ ExportOnFail \in BOOLEAN /\ MayCrash \in BOOLEAN

VARIABLES
  cmd,      \* the command that is run; never changes
  pc,       \* where runWithStore is
  doing,    \* the event each goroutine is emitting
  stage,    \* how far: "idle", "line", "row", "call", "done" or "error"
  pos,      \* how many events of its script each goroutine is past
  failed,   \* groups that have met an error
  runErr,   \* the command failed
  errs,     \* an error of the terminal event, of FinishRun or of the registry
  todo,     \* files still to be registered
  verdict,  \* what runWithStore returns
  trace,    \* the lines of the trace file; "torn" is part of one
  broken,   \* the trace writer has met an error: bufio keeps it for good
  status,   \* runs.status; "none" before the row exists
  events,   \* rows of events
  calls,    \* rows of tool_calls
  registry, \* rows of artifacts: the content that was hashed
  bundle,   \* what the exported bundle holds
  faults    \* failing writes so far

emission == <<doing, stage>>
ledger == <<trace, broken, status, events, calls, registry, bundle>>
control == <<cmd, pc, pos, failed, runErr, errs, todo, verdict>>
vars == <<emission, ledger, control, faults>>

Init ==
  /\ cmd \in Commands
  /\ pc = "preparing" /\ pos = [g \in Goroutine |-> 0] /\ failed = {}
  /\ doing = [p \in Proc |-> None] /\ stage = [p \in Proc |-> "idle"]
  /\ runErr = FALSE /\ errs = FALSE /\ todo = <<>> /\ verdict = "none"
  /\ trace = <<>> /\ broken = FALSE /\ status = "none"
  /\ events = <<>> /\ calls = {} /\ registry = [f \in {} |-> None] /\ bundle = None
  /\ faults = 0

Alive == pc \notin {"returned", "crashed"}

\* A write may fail.
Fault == faults < MaxFaults /\ faults' = faults + 1

(***************************************************************************)
(* emit                                                                    *)
(***************************************************************************)
Begin(p, e) ==
  /\ doing' = [doing EXCEPT ![p] = e]
  /\ stage' = [stage EXCEPT ![p] = "line"]

Rest(p) ==
  /\ doing' = [doing EXCEPT ![p] = None]
  /\ stage' = [stage EXCEPT ![p] = "idle"]

To(p, s) == stage' = [stage EXCEPT ![p] = s] /\ UNCHANGED doing

\* Writer.Emit, under its lock.
WriteLine(p) ==
  /\ Alive /\ stage[p] = "line" /\ ~broken
  /\ trace' = Append(trace, doing[p])
  /\ To(p, "row")
  /\ UNCHANGED <<broken, status, events, calls, registry, bundle, control, faults>>

\* The flush fails, and what was written of the line stays; later lines fail at once.
InsertAnyway == "row"
NoLineNoRow == "error"
TryTheNextLine == FALSE
ForGood == TRUE

LineFails(p) ==
  /\ Alive /\ stage[p] = "line"
  /\ \/ broken /\ UNCHANGED <<trace, faults>>
     \/ ~broken /\ Fault /\ trace' \in {trace, Append(trace, "torn")}
  /\ broken' = ForGood
  /\ To(p, NoLineNoRow)
  /\ UNCHANGED <<status, events, calls, registry, bundle, control>>

InsertEvent(p) ==
  /\ Alive /\ stage[p] = "row"
  /\ events' = Append(events, doing[p])
  /\ To(p, IF doing[p] \in cmd.tools THEN "call" ELSE "done")
  /\ UNCHANGED <<trace, broken, status, calls, registry, bundle, control, faults>>

InsertToolCall(p) ==
  /\ Alive /\ stage[p] = "call"
  /\ calls' = calls \cup {doing[p]}
  /\ To(p, "done")
  /\ UNCHANGED <<trace, broken, status, events, registry, bundle, control, faults>>

InsertFails(p) ==
  /\ Alive /\ stage[p] \in {"row", "call"}
  /\ Fault
  /\ To(p, "error")
  /\ UNCHANGED <<ledger, control>>

Over(p) == stage[p] \in {"done", "error"}

(***************************************************************************)
(* The command's goroutines                                                *)
(***************************************************************************)
Upcoming(g) == cmd.script[g][pos[g] + 1]
AnyTime(g) == TRUE
Spent(g) == pos[g] = Len(cmd.script[g]) /\ stage[g] = "idle"

\* A group that has failed stays silent.
Speak(g) ==
  /\ pc = "running" /\ stage[g] = "idle" /\ pos[g] < Len(cmd.script[g])
  /\ IF cmd.group[Upcoming(g)] \in failed
     THEN pos' = [pos EXCEPT ![g] = @ + 1] /\ UNCHANGED emission
     ELSE Begin(g, Upcoming(g)) /\ UNCHANGED pos
  /\ UNCHANGED <<cmd, ledger, pc, failed, runErr, errs, todo, verdict, faults>>

Spoken(g) ==
  /\ pc = "running" /\ Over(g)
  /\ Rest(g)
  /\ pos' = [pos EXCEPT ![g] = @ + 1]
  /\ failed' = IF stage[g] = "error" /\ cmd.group[doing[g]] \notin cmd.ignored
               THEN failed \cup {cmd.group[doing[g]]} ELSE failed
  /\ UNCHANGED <<cmd, ledger, pc, runErr, errs, todo, verdict, faults>>

(***************************************************************************)
(* runWithStore                                                            *)
(***************************************************************************)
Return(v) == pc' = "returned" /\ verdict' = v

StartRun ==
  /\ pc = "preparing"
  /\ status' = "running"
  /\ Begin(Main, "run.started")
  /\ pc' = "starting"
  /\ UNCHANGED <<cmd, trace, broken, events, calls, registry, bundle, pos, failed, runErr, errs, todo, verdict, faults>>

StartFails ==
  /\ pc = "preparing"
  /\ Fault
  /\ Return("error")
  /\ UNCHANGED <<cmd, emission, ledger, pos, failed, runErr, errs, todo>>

Launch ==
  /\ pc = "starting" /\ stage[Main] = "done"
  /\ Rest(Main)
  /\ pc' = "running"
  /\ UNCHANGED <<cmd, ledger, pos, failed, runErr, errs, todo, verdict, faults>>

\* run.started could not be recorded: the row is finished as well as can be.
CarryOn == "running"
GiveUp == "returned"
Abandon ==
  /\ pc = "starting" /\ stage[Main] = "error"
  /\ Rest(Main)
  /\ \/ status' = "failed" /\ UNCHANGED faults
     \/ Fault /\ UNCHANGED status
  /\ pc' = GiveUp /\ verdict' = "error"
  /\ UNCHANGED <<cmd, trace, broken, events, calls, registry, bundle, pos, failed, runErr, errs, todo>>

\* The command returns, with an error of its own or of its emissions.
DropTheErrors(own) == own
CommandFails(own) == own \/ failed # {}

RunnerReturns ==
  /\ pc = "running"
  /\ \A g \in Goroutine : Spent(g)
  /\ \E own \in BOOLEAN : runErr' = CommandFails(own)
  /\ Begin(Main, "run.finished")
  /\ pc' = "finishing"
  /\ UNCHANGED <<cmd, ledger, pos, failed, errs, todo, verdict, faults>>

\* FinishRun, whatever became of run.finished.
AlwaysOk == "ok"
Outcome == IF runErr THEN "failed" ELSE "ok"

FinishRun ==
  /\ pc = "finishing" /\ Over(Main)
  /\ Rest(Main)
  /\ \/ status' = Outcome /\ errs' = (stage[Main] = "error") /\ UNCHANGED faults
     \/ Fault /\ errs' = TRUE /\ UNCHANGED status
  /\ todo' = <<Trace>> \o Files
  /\ pc' = "registering"
  /\ UNCHANGED <<cmd, trace, broken, events, calls, registry, bundle, pos, failed, runErr, verdict>>

\* persistRunArtifacts, one file: a row with the file's hash, unless it has one.
Content(f) == IF f = Trace THEN trace ELSE f
Registered(f) == [x \in DOMAIN registry \cup {f} |-> IF x = f THEN Content(f) ELSE registry[x]]

Register ==
  /\ pc \in {"registering", "sealing"} /\ todo # <<>>
  /\ registry' = Registered(Head(todo))
  /\ todo' = Tail(todo)
  /\ UNCHANGED <<cmd, emission, trace, broken, status, events, calls, bundle, pc, pos, failed, runErr, errs, verdict, faults>>

\* A file that cannot be read or recorded ends the list.
RegisterFails ==
  /\ pc \in {"registering", "sealing"} /\ todo # <<>>
  /\ Fault
  /\ errs' = TRUE
  /\ todo' = <<>>
  /\ UNCHANGED <<cmd, emission, ledger, pc, pos, failed, runErr, verdict>>

Result == IF runErr THEN "error" ELSE "success"
EvenWithErrors == ExportOnFail /\ runErr
ToBeExported == ExportOnFail /\ runErr /\ ~errs

\* The command is over, or its failure is exported.
Settle ==
  /\ pc = "registering" /\ todo = <<>>
  /\ IF ToBeExported
     THEN pc' = "exporting" /\ UNCHANGED verdict
     ELSE Return(IF errs THEN "error" ELSE Result)
  /\ UNCHANGED <<cmd, emission, ledger, pos, failed, runErr, errs, todo, faults>>

\* exportRunBundle copies the run's directory and snapshots its rows.
Export ==
  /\ pc = "exporting"
  /\ \/ /\ bundle' = [trace |-> trace, status |-> status, events |-> events, calls |-> calls, registry |-> registry]
        /\ UNCHANGED <<cmd, errs, faults>>
     \/ Fault /\ errs' = TRUE /\ UNCHANGED bundle
  /\ Begin(Main, "run.export.partial")
  /\ pc' = "noting"
  /\ UNCHANGED <<cmd, trace, broken, status, events, calls, registry, pos, failed, runErr, todo, verdict>>

\* run.export.partial is recorded after the bundle; the bundle is registered, the trace
\* is not registered again.
Noted ==
  /\ pc = "noting" /\ Over(Main)
  /\ Rest(Main)
  /\ todo' = IF bundle = None THEN <<>> ELSE <<Bundle>>
  /\ pc' = "sealing"
  /\ UNCHANGED <<cmd, ledger, pos, failed, runErr, errs, verdict, faults>>

Seal ==
  /\ pc = "sealing" /\ todo = <<>>
  /\ Return("error")
  /\ UNCHANGED <<cmd, emission, ledger, pos, failed, runErr, errs, todo, faults>>

Crash ==
  /\ MayCrash /\ Alive
  /\ pc' = "crashed"
  /\ UNCHANGED <<cmd, emission, ledger, pos, failed, runErr, errs, todo, verdict, faults>>

-----------------------------------------------------------------------------
Emission(p) ==
  WriteLine(p) \/ LineFails(p) \/ InsertEvent(p) \/ InsertToolCall(p) \/ InsertFails(p)

RunWithStore ==
  \/ StartRun \/ StartFails \/ Launch \/ Abandon \/ RunnerReturns \/ FinishRun
  \/ Register \/ RegisterFails \/ Settle \/ Export \/ Noted \/ Seal

Ended == ~Alive /\ UNCHANGED vars

Next ==
  \/ \E p \in Proc : Emission(p)
  \/ \E g \in Goroutine : Speak(g) \/ Spoken(g)
  \/ RunWithStore \/ Crash \/ Ended

Spec == Init /\ [][Next]_vars
-----------------------------------------------------------------------------
\* The types, and that a goroutine emits nothing once the command has returned.
TypeOK ==
  /\ pc \in {"preparing", "starting", "running", "finishing", "registering", "exporting", "noting", "sealing", "returned", "crashed"}
  /\ doing \in [Proc -> Event \cup {None}]
  /\ stage \in [Proc -> {"idle", "line", "row", "call", "done", "error"}]
  /\ \A p \in Proc : (doing[p] = None) = (stage[p] = "idle")
  /\ \A g \in Goroutine : pos[g] \in 0..Len(cmd.script[g]) /\ (pc \notin {"running", "crashed"} => stage[g] = "idle")
  /\ runErr \in BOOLEAN /\ errs \in BOOLEAN /\ broken \in BOOLEAN
  /\ verdict \in {"none", "error", "success"}
  /\ status \in {"none", "running", "ok", "failed"}
  /\ Range(trace) \subseteq Event \cup {"torn"}
  /\ Range(events) \subseteq Event /\ calls \subseteq Event

\* Emit before insert (main.go:1033-1063), from every goroutine and whatever fails or
\* dies: a row is never without its line, a tool call never without its event.
RowsFollowTrace ==
  /\ Range(events) \subseteq Range(trace)
  /\ calls \subseteq Range(events)

\* The trace is only appended to, no event is recorded twice, and nothing follows a torn
\* line (trace.go:69-108).
TraceIsSound ==
  /\ IsInjective(events)
  /\ \A i \in 1..Len(trace) : trace[i] = "torn" => i = Len(trace)

\* What a command owes: its own two events, and those whose errors it looks at.
Owed == {"run.started", "run.finished"} \cup {e \in Said(cmd) : cmd.group[e] \notin cmd.ignored}

\* A command that returns success has left complete evidence of what it owes: each event
\* in the trace and in SQLite, each tool call, the row "ok", and every registered hash
\* that of the file (main.go:736-804).
SuccessIsComplete ==
  verdict = "success" =>
    /\ Owed \subseteq Range(trace) \cap Range(events)
    /\ Owed \cap cmd.tools \subseteq calls
    /\ status = "ok"
    /\ \A f \in {Trace} \cup Range(Files) : f \in DOMAIN registry /\ registry[f] = Content(f)

\* A run is "ok" in SQLite only when it was: no crash and no failing write turns a failed
\* command into a good row (main.go:744-766).
OkIsEarned ==
  status = "ok" => ~runErr /\ failed = {} /\ Owed \ {"run.finished"} \subseteq Range(events)

\* The bundle of a failed run can be checked by itself: its rows name lines of its trace,
\* and the hash registered for the trace is that of the trace in it (main.go:795-800).
BundleAgreesWithItself ==
  bundle # None =>
    /\ Range(bundle.events) \subseteq Range(bundle.trace)
    /\ "run.finished" \in Range(bundle.events)
    /\ bundle.status = "failed"
    /\ bundle.registry[Trace] = bundle.trace

\* The status of a run is written once after it started, and never after the command has
\* returned.
Final(s) == s \in {"ok", "failed"}
StatusIsWrittenOnce == [][Final(status) => status' = status]_vars

\* The registry's hash of the trace is the hash of the trace once the command is over.
RegistryIsCurrent ==
  pc = "returned" /\ Trace \in DOMAIN registry => registry[Trace] = trace

=============================================================================
