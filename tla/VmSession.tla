----------------------------- MODULE VmSession -----------------------------
(***************************************************************************)
(* One command that boots a microVM: runWithRuntime, ZygoteWithHook,       *)
(* ResumeWithHook and waitMachineWithWatchdogDeps in                       *)
(* src/internal/vm/vm.go, with what newVMRunRunner, cmdVMZygote and        *)
(* cmdVMResume in src/cmd/virmux/main.go make of the outcome.  A resume    *)
(* that fails falls back on a second session, a cold boot.                 *)
(*                                                                         *)
(* The VMM is not in this repository.  It is asked to stop with SIGTERM,   *)
(* which it may never obey; it may hang, and then does not answer its API  *)
(* socket; SIGKILL ends it.  Machine.Wait waits for the process and for    *)
(* the copying of its stdin, which the host's end of the pipe keeps open.  *)
(*                                                                         *)
(* Commands run under context.Background(): no context is cancelled.       *)
(* Time is not counted: a timer is an action that may happen whenever it   *)
(* is set.                                                                 *)
(***************************************************************************)
EXTENDS Naturals, Sequences, SequencesExt

CONSTANT Commands  \* the commands under study

ASSUME SessionAssumption == Commands \subseteq {"vm-run", "tool", "vm-zygote", "vm-resume"}

Session == {1, 2}

VARIABLES
  cmd,      \* the command; "tool" is vm-run with a vsock tool.  Never changes
  kind,     \* what the current session does: "run", "zygote" or "resume"
  cur,      \* the current session
  host,     \* where the host is
  vmm,      \* each session's VMM: "none", "healthy", "hung" or "gone"
  opened,   \* sessions that the booter has returned to the host
  asked,    \* sessions whose VMM was sent SIGTERM
  stdin,    \* sessions whose stdin pipe is open
  script,   \* the script was written to the current session's stdin
  serial,   \* what the current session's console has said
  killed,   \* the watchdog has killed
  cause,    \* the error the host holds while it stops the VMM
  waited,   \* what Machine.Wait returned: "none", "exit", "error" or "deadline"
  events,   \* what the event hook was told in each session
  tool,     \* the tool bridge succeeded
  snapshot, \* the files of the snapshot: "none", "partial" or "whole"
  latest,   \* latest.json and the agent's record: how many name the snapshot
  verdict   \* what the command returns

machine == <<vmm, opened, asked, stdin>>
console == <<script, serial>>
store   == <<snapshot, latest>>
waiting == <<killed, cause, waited>>
vars == <<cmd, kind, cur, host, machine, console, waiting, events, tool, store, verdict>>

KindOf(c) == CASE c = "vm-zygote" -> "zygote" [] c = "vm-resume" -> "resume" [] OTHER -> "run"

Init ==
  /\ cmd \in Commands
  /\ kind = KindOf(cmd)
  /\ cur = 1
  /\ host = "booting"
  /\ vmm = [s \in Session |-> "none"]
  /\ opened = {} /\ asked = {} /\ stdin = {}
  /\ script = FALSE
  /\ serial = "silent"
  /\ killed = FALSE
  /\ cause = "none"
  /\ waited = "none"
  /\ events = [s \in Session |-> <<>>]
  /\ tool = FALSE
  /\ snapshot = "none"
  /\ latest = 0
  /\ verdict = "none"

Tell(e) == events' = [events EXCEPT ![cur] = Append(@, e)]

Alive(s) == vmm[s] \in {"healthy", "hung"}

(***************************************************************************)
(* The VMM and its guest                                                   *)
(***************************************************************************)

\* The console advances: a prompt, then the script's marks.  "short" is a command that
\* exits with 0 and has not printed what is required of it.
Console ==
  /\ vmm[cur] = "healthy"
  /\ \/ serial = "silent" /\ serial' = "prompt"
     \/ serial = "prompt" /\ script /\ serial' = "started"
     \/ serial = "started" /\ serial' \in {"rc0", "rc1", "short"}
  /\ UNCHANGED <<cmd, kind, cur, host, machine, script, waiting, events, tool, store, verdict>>

Hang ==
  /\ \E s \in Session : vmm[s] = "healthy" /\ vmm' = [vmm EXCEPT ![s] = "hung"]
  /\ UNCHANGED <<cmd, kind, cur, host, opened, asked, stdin, console, waiting, events, tool, store, verdict>>

\* A VMM obeys SIGTERM, its guest powers off, or it dies.
Exit ==
  /\ \E s \in Session : Alive(s) /\ vmm' = [vmm EXCEPT ![s] = "gone"]
  /\ UNCHANGED <<cmd, kind, cur, host, opened, asked, stdin, console, waiting, events, tool, store, verdict>>

(***************************************************************************)
(* The command ends, or a resume falls back                                *)
(***************************************************************************)

\* session.close, deferred, and the command's return.
Close == stdin' = stdin \ {cur}

End(v) == host' = "returned" /\ verdict' = v

\* cmdVMResume: SmokeWithHook in a directory of its own.
FallBack ==
  /\ cur' = 2 /\ kind' = "run" /\ host' = "booting"
  /\ script' = FALSE /\ serial' = "silent"
  /\ killed' = FALSE /\ cause' = "none" /\ waited' = "none"
  /\ UNCHANGED verdict

Fail ==
  IF kind = "resume" THEN FallBack
  ELSE End("error") /\ UNCHANGED <<cur, kind, console, waiting>>

(***************************************************************************)
(* Booting                                                                 *)
(***************************************************************************)
Boot ==
  /\ host = "booting"
  /\ Tell("boot.started")
  /\ vmm' = [vmm EXCEPT ![cur] = "healthy"]
  /\ opened' = opened \cup {cur}
  /\ stdin' = stdin \cup {cur}
  /\ host' = IF kind = "run" THEN "awaiting guest" ELSE "settling"
  /\ UNCHANGED <<cmd, kind, cur, asked, console, waiting, tool, store, verdict>>

\* There is no snapshot to be found or the VMM cannot be started; or it has been, and a
\* later step of the same call fails: its FIFOs, its configuration, a snapshot that does
\* not load.  The host closes its files and its end of stdin, and leaves that VMM alone.
BootFails ==
  /\ host = "booting"
  /\ \/ (Tell("boot.started") \/ UNCHANGED events) /\ UNCHANGED vmm
     \/ Tell("boot.started") /\ vmm' = [vmm EXCEPT ![cur] = "healthy"]
  /\ Fail
  /\ UNCHANGED <<cmd, opened, asked, stdin, tool, store>>

(***************************************************************************)
(* runWithRuntime                                                          *)
(***************************************************************************)

\* Stop the VMM and wait for it, with an error in hand or none.
StopWith(e) ==
  /\ asked' = asked \cup {cur}
  /\ cause' = e
  /\ host' = "waiting"
  /\ UNCHANGED <<killed, waited>>

GuestReady ==
  /\ host = "awaiting guest"
  /\ serial # "silent"
  /\ Tell("guest.ready")
  /\ host' = "injecting"
  /\ UNCHANGED <<cmd, kind, cur, machine, console, waiting, tool, store, verdict>>

ReturnAtOnce ==
  /\ host = "awaiting guest"
  /\ Tell("exec.refused")
  /\ End("error") /\ Close
  /\ UNCHANGED <<cmd, kind, cur, vmm, opened, asked, console, waiting, tool, store>>

GuestNeverReady ==
  /\ host = "awaiting guest"
  /\ Tell("exec.refused")
  /\ StopWith("not ready")
  /\ UNCHANGED <<cmd, kind, cur, vmm, opened, stdin, console, tool, store, verdict>>

Inject ==
  /\ host = "injecting"
  /\ script' = TRUE
  /\ Tell("exec.injected")
  /\ host' = "after inject"
  /\ UNCHANGED <<cmd, kind, cur, machine, serial, waiting, tool, store, verdict>>

\* AfterInject: nothing, or the tool bridge.  Then stdin is closed.
AfterInject ==
  /\ host = "after inject"
  /\ tool' = (cmd = "tool")
  /\ Close
  /\ host' = "awaiting exec"
  /\ UNCHANGED <<cmd, kind, cur, vmm, opened, asked, console, waiting, events, store, verdict>>

AfterInjectFails ==
  /\ host = "after inject"
  /\ cmd = "tool"
  /\ StopWith("bridge")
  /\ UNCHANGED <<cmd, kind, cur, vmm, opened, stdin, console, events, tool, store, verdict>>

Completed == serial \in {"rc0", "rc1", "short"}

ExecCompletes ==
  /\ host = "awaiting exec"
  /\ Completed
  /\ StopWith("none")
  /\ UNCHANGED <<cmd, kind, cur, vmm, opened, stdin, console, events, tool, store, verdict>>

ExecNeverCompletes ==
  /\ host = "awaiting exec"
  /\ StopWith("no completion")
  /\ UNCHANGED <<cmd, kind, cur, vmm, opened, stdin, console, events, tool, store, verdict>>

(***************************************************************************)
(* waitMachineWithWatchdogDeps                                             *)
(***************************************************************************)

\* os/exec's Wait: the process is gone and its stdin is at its end.
Reaped == vmm[cur] = "gone" /\ cur \notin stdin

WaitReturns ==
  /\ host = "waiting"
  /\ Reaped
  /\ waited' \in {"exit", "error"}
  /\ host' = "observed"
  /\ UNCHANGED <<cmd, kind, cur, machine, console, killed, cause, events, tool, store, verdict>>

WaitForever ==
  /\ host = "waiting"
  /\ Reaped
  /\ waited' = "deadline"
  /\ host' = "observed"
  /\ UNCHANGED <<cmd, kind, cur, machine, console, killed, cause, events, tool, store, verdict>>

WaitExpires ==
  /\ host = "waiting"
  /\ waited' = "deadline"
  /\ host' = "observed"
  /\ UNCHANGED <<cmd, kind, cur, machine, console, killed, cause, events, tool, store, verdict>>

\* A tick late enough: the API socket does not answer, and the process, if it is there
\* still, is killed.  Once.
KillAgain == TRUE
NotYetKilled == ~killed
Unanswered == vmm[cur] # "healthy"

WatchdogTick ==
  /\ host = "waiting"
  /\ NotYetKilled
  /\ Unanswered /\ ~Reaped
  /\ vmm' = [vmm EXCEPT ![cur] = "gone"]
  /\ killed' = TRUE
  /\ Tell("watchdog.kill")
  /\ UNCHANGED <<cmd, kind, cur, host, opened, asked, stdin, console, cause, waited, tool, store, verdict>>

Observe ==
  /\ host = "observed"
  /\ Tell("exit.observed")
  /\ host' = "judging"
  /\ UNCHANGED <<cmd, kind, cur, machine, console, waiting, tool, store, verdict>>

(***************************************************************************)
(* What is made of it                                                      *)
(***************************************************************************)

\* validateSerialMarkers; the wait's error only colours its messages.  A tool that has
\* succeeded excuses the exit code of its agent.
RequiredPrinted == serial = "rc0" \/ (serial = "short" /\ cmd # "vm-resume")
Excused == tool /\ serial = "rc1"
ByTheConsole == RequiredPrinted \/ Excused
RunIsGood == cause = "none" /\ (RequiredPrinted \/ Excused)

JudgeRun ==
  /\ host = "judging" /\ kind = "run"
  /\ End(IF RunIsGood THEN "ok" ELSE "error")
  /\ Close
  /\ UNCHANGED <<cmd, kind, cur, vmm, opened, asked, console, waiting, events, tool, store>>

\* normalizeResumeWaitErr: a deadline is no error if the process is gone.
ResumeIsGood == waited = "exit" \/ (waited = "deadline" /\ vmm[cur] = "gone")

JudgeResume ==
  /\ host = "judging" /\ kind = "resume"
  /\ Close
  /\ IF ResumeIsGood THEN End("ok") /\ UNCHANGED <<cur, kind, console, waiting>> ELSE Fail
  /\ UNCHANGED <<cmd, vmm, opened, asked, events, tool, store>>

(***************************************************************************)
(* ZygoteWithHook, ResumeWithHook                                          *)
(***************************************************************************)

\* The pause for the guest is over; a resumed guest is stopped at once.
StopResumed ==
  /\ host = "settling" /\ kind = "resume"
  /\ Tell("exec.injected")
  /\ StopWith("none")
  /\ UNCHANGED <<cmd, kind, cur, vmm, opened, stdin, console, tool, store, verdict>>

\* PauseVM and CreateSnapshot need a VMM that answers.
TakeSnapshot ==
  /\ host = "settling" /\ kind = "zygote"
  /\ vmm[cur] = "healthy"
  /\ snapshot' = "whole"
  /\ StopWith("none")
  /\ UNCHANGED <<cmd, kind, cur, vmm, opened, stdin, console, events, tool, latest, verdict>>

\* Either fails: the error is returned at once.
RecordAnyway(v) == host' = "judging" /\ UNCHANGED verdict
ReturnError(v) == End(v)

SnapshotFails ==
  /\ host = "settling" /\ kind = "zygote"
  /\ snapshot' \in {"none", "partial"}
  /\ ReturnError("error")
  /\ Close
  /\ UNCHANGED <<cmd, kind, cur, vmm, opened, asked, console, waiting, events, tool, latest>>

RecordForever ==
  /\ host = "judging" /\ kind = "zygote"
  /\ latest' = latest + 1
  /\ UNCHANGED <<cmd, kind, cur, host, machine, console, waiting, events, tool, snapshot, verdict>>

\* cmdVMZygote, whatever the wait said: latest.json, then the agent's record.
RecordSnapshot ==
  /\ host = "judging" /\ kind = "zygote"
  /\ \/ /\ latest' = latest + 1
        /\ IF latest = 1 THEN End("ok") /\ Close ELSE UNCHANGED <<host, verdict, stdin>>
     \/ End("error") /\ Close /\ UNCHANGED latest
  /\ UNCHANGED <<cmd, kind, cur, vmm, opened, asked, console, waiting, events, tool, snapshot>>

-----------------------------------------------------------------------------
Host ==
  \/ Boot \/ GuestReady \/ Inject \/ AfterInject \/ ExecCompletes
  \/ WaitReturns \/ Observe \/ JudgeRun \/ JudgeResume
  \/ StopResumed \/ TakeSnapshot \/ SnapshotFails \/ RecordSnapshot

Failure == BootFails \/ AfterInjectFails
GuestTimer == GuestNeverReady
ExecTimer == ExecNeverCompletes
WaitTimer == WaitExpires

Environment == Console \/ Hang \/ Exit

Ended == host = "returned" /\ UNCHANGED vars

Next == Host \/ Failure \/ GuestTimer \/ ExecTimer \/ WaitTimer \/ WatchdogTick \/ Environment \/ Ended

Spec == Init /\ [][Next]_vars

\* The host's own steps are taken and its three timers go off: each of its waits has a
\* deadline.  The SDK's calls and AfterInject are taken to return; VsockBridge says when
\* the latter does.  Nobody owes anything in the guest or the VMM.
Fairness == WF_vars(Host) /\ WF_vars(GuestTimer) /\ WF_vars(ExecTimer) /\ WF_vars(WaitTimer)

FairSpec == Spec /\ Fairness
-----------------------------------------------------------------------------
(***************************************************************************)
(* What the session promises                                               *)
(***************************************************************************)

Kinds == {"boot.started", "guest.ready", "exec.injected", "exec.refused", "watchdog.kill", "exit.observed"}

\* Every variable has its type.
TypeOK ==
  /\ cmd \in Commands /\ kind \in {"run", "zygote", "resume"} /\ cur \in Session
  /\ host \in {"booting", "awaiting guest", "injecting", "after inject", "awaiting exec",
               "settling", "waiting", "observed", "judging", "returned"}
  /\ vmm \in [Session -> {"none", "healthy", "hung", "gone"}]
  /\ opened \subseteq Session /\ asked \subseteq Session /\ stdin \subseteq Session
  /\ script \in BOOLEAN /\ killed \in BOOLEAN /\ tool \in BOOLEAN
  /\ serial \in {"silent", "prompt", "started", "rc0", "rc1", "short"}
  /\ cause \in {"none", "not ready", "bridge", "no completion"}
  /\ waited \in {"none", "exit", "error", "deadline"}
  /\ events \in [Session -> Seq(Kinds)]
  /\ snapshot \in {"none", "partial", "whole"} /\ latest \in 0..2
  /\ verdict \in {"none", "ok", "error"}

\* A command returns ok only for what it was asked to do: a run finished its script
\* before any of its timers, with its tool's answer if it had a tool; a resumed VMM has
\* left; a snapshot is recorded in both places (runWithRuntime, newVMRunRunner,
\* ResumeWithHook, cmdVMZygote).
OkIsEarned ==
  verdict = "ok" =>
    CASE kind = "run"    -> /\ script /\ Completed /\ cause = "none"
                            /\ cmd = "tool" => tool
                            /\ serial = "rc1" => tool
      [] kind = "zygote" -> latest = 2
      [] kind = "resume" -> ~Alive(1)

\* latest.json and the agent's record never name a snapshot that was not taken whole,
\* however the session failed (ZygoteWithHook's early returns, cmdVMZygote).
RecordedSnapshotIsWhole == latest > 0 => snapshot = "whole"

\* What the hook is told in a session is one story: the boot first, the exit last, the
\* watchdog's kill once at most and only after the session has done or given up its
\* work, and nothing twice (the emitEvent calls of vm.go).
EventsTellTheStory ==
  \A s \in Session :
    LET e == events[s]
        At(k) == {i \in DOMAIN e : e[i] = k}
    IN  /\ At("boot.started") \subseteq {1}
        /\ At("exit.observed") \subseteq {Len(e)}
        /\ \A k \in ToSet(e) : \E i \in DOMAIN e : At(k) = {i}
        /\ \A i \in At("watchdog.kill") : kind # "zygote" => i > 2

\* Every session that the host was given has had its VMM asked to stop and its exit told by
\* the time the command returns; a resume's by the time it falls back.  Two VMMs are not
\* meant: that of a snapshot that failed, and one that was launched by a start that failed
\* (NoVmmIsForgotten is about both).
ExitIsObserved ==
  \A s \in opened :
    /\ host = "returned" \/ s # cur
    /\ kind = "zygote" => snapshot = "whole"
    => s \in asked /\ Last(events[s]) = "exit.observed"

\* The cleanup gate: a command does not return with a VMM it never asked to stop.  It is
\* violated: PauseVM or CreateSnapshot fails and ZygoteWithHook returns; or m.Start fails
\* after it has launched firecracker, and a resume even boots another one beside it.
NoVmmIsForgotten == host = "returned" => \A s \in Session : Alive(s) => s \in asked

\* Whatever the VMM and its guest do, or do not, the command returns: every wait has a
\* deadline (waitMachineWithWatchdogDeps, serialReadyWaiter.Wait,
\* waitForExecCompletionLine).
EveryCommandReturns == <>(host = "returned")
=============================================================================
