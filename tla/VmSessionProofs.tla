-------------------------- MODULE VmSessionProofs --------------------------
(***************************************************************************)
(* Theorems about VmSession: every command, whatever the VMM, its guest    *)
(* and the timers do.                                                      *)
(***************************************************************************)
EXTENDS VmSession, TLAPS

\* What the hook has been told, step by step.
Booted == Append(<<>>, "boot.started")
Greeted == Append(Booted, "guest.ready")
Injected == Append(Greeted, "exec.injected")
Refused == Append(Booted, "exec.refused")
Resumed == Append(Booted, "exec.injected")

\* What the hook has been told when the host begins to wait for the VMM of a session of
\* kind k, and what the watchdog's kill and the observed exit add.
Begun(k) ==
  IF k = "run" THEN {Refused, Injected}
  ELSE IF k = "resume" THEN {Resumed}
  ELSE {Booted}
Killed(k) == {Append(e, "watchdog.kill") : e \in Begun(k)}
Told(k) == {Append(e, "exit.observed") : e \in Begun(k) \cup Killed(k)}
Unbooted == {<<>>, Booted}

\* The hosts of a run, and those of the other kinds.
HostFits ==
  /\ host \in {"awaiting guest", "injecting", "after inject", "awaiting exec"} => kind = "run"
  /\ host = "settling" => kind # "run"
  /\ kind = "resume" => cur = 1
  /\ host # "returned" => verdict = "none"

\* The session that is not current: none yet, or a resume that failed.
OtherSession ==
  /\ cur = 1 => vmm[2] = "none" /\ 2 \notin opened /\ events[2] = <<>>
  /\ cur = 2 => /\ kind = "run"
                /\ \/ 1 \notin opened /\ events[1] \in Unbooted
                   \/ 1 \in asked /\ events[1] \in Told("resume")

\* The current session's story so far.
Story ==
  /\ host = "booting" => events[cur] = <<>> /\ cur \notin opened /\ vmm[cur] = "none"
  /\ host \in {"awaiting guest", "settling"} => events[cur] = Booted
  /\ host = "injecting" => events[cur] = Greeted
  /\ host \in {"after inject", "awaiting exec"}
       => events[cur] = Injected
  /\ host \in {"booting", "awaiting guest", "settling", "injecting", "after inject", "awaiting exec"} => ~killed
  /\ host \in {"waiting", "observed"} => events[cur] \in (IF killed THEN Killed(kind) ELSE Begun(kind))
  /\ host = "judging" => events[cur] \in Told(kind)
  /\ host \in {"waiting", "observed", "judging"} => cur \in asked
  /\ host = "returned" =>
       \/ cur \notin opened /\ events[cur] \in Unbooted
       \/ cur \in asked /\ events[cur] \in Told(kind)
       \/ kind = "zygote" /\ snapshot # "whole" /\ events[cur] \in Unbooted

\* What has been done when a run is waited for without an error.
WorkDone ==
  /\ host \in {"after inject", "awaiting exec"} => script
  /\ host = "awaiting exec" => (cmd = "tool" => tool)
  /\ kind = "run" /\ host \in {"waiting", "observed", "judging"} /\ cause = "none"
       => script /\ Completed /\ (cmd = "tool" => tool)
  /\ waited \in {"exit", "error"} => vmm[cur] = "gone"
  /\ host \notin {"observed", "judging", "returned"} => waited = "none"

\* What is recorded, and when.
Recorded ==
  /\ latest > 0 => kind = "zygote" /\ host \in {"judging", "returned"}
  /\ kind = "zygote" /\ host \in {"waiting", "observed", "judging"} => snapshot = "whole"
  /\ host = "judging" => latest < 2

\* What a verdict "ok" needs, kind by kind.
Earned ==
  verdict = "ok" =>
    /\ kind = "run" => script /\ Completed /\ cause = "none" /\ (cmd = "tool" \/ serial = "rc1" => tool)
    /\ kind = "zygote" => latest = 2
    /\ kind = "resume" => ~Alive(1)

\* The inductive invariant.
IInv ==
  /\ TypeOK /\ HostFits /\ OtherSession /\ Story /\ WorkDone /\ Recorded /\ Earned
  /\ RecordedSnapshotIsWhole

(***************************************************************************)
(* The types, in parts                                                     *)
(***************************************************************************)
HostTyped ==
  /\ cmd \in Commands /\ kind \in {"run", "zygote", "resume"} /\ cur \in Session
  /\ host \in {"booting", "awaiting guest", "injecting", "after inject", "awaiting exec",
               "settling", "waiting", "observed", "judging", "returned"}
  /\ verdict \in {"none", "ok", "error"}

MachineTyped ==
  /\ vmm \in [Session -> {"none", "healthy", "hung", "gone"}]
  /\ opened \subseteq Session /\ asked \subseteq Session /\ stdin \subseteq Session

WorkTyped ==
  /\ script \in BOOLEAN /\ killed \in BOOLEAN /\ tool \in BOOLEAN
  /\ serial \in {"silent", "prompt", "started", "rc0", "rc1", "short"}
  /\ cause \in {"none", "not ready", "bridge", "no completion"}
  /\ waited \in {"none", "exit", "error", "deadline"}

StoreTyped == snapshot \in {"none", "partial", "whole"} /\ latest \in {0, 1, 2}

EventsTyped == events \in [Session -> Seq(Kinds)]

LEMMA TypeParts == TypeOK <=> HostTyped /\ MachineTyped /\ WorkTyped /\ StoreTyped /\ EventsTyped
<1>1. 0 .. 2 = {0, 1, 2}
  OBVIOUS
<1> QED
  BY <1>1 DEF TypeOK, HostTyped, MachineTyped, WorkTyped, StoreTyped, EventsTyped

LEMMA TypePartsNext == TypeOK' <=> HostTyped' /\ MachineTyped' /\ WorkTyped' /\ StoreTyped' /\ EventsTyped'
<1>1. 0 .. 2 = {0, 1, 2}
  OBVIOUS
<1> QED
  BY <1>1 DEF TypeOK, HostTyped, MachineTyped, WorkTyped, StoreTyped, EventsTyped

\* What is told is told in the current session, at the end.
LEMMA TellSays ==
  ASSUME TypeOK, NEW e \in Kinds, Tell(e)
  PROVE  /\ EventsTyped' /\ events'[cur] = Append(events[cur], e)
         /\ \A s \in Session : s # cur => events'[s] = events[s]
<1>1. events \in [Session -> Seq(Kinds)] /\ cur \in Session
  BY TypeParts DEF EventsTyped, HostTyped
<1>2. Append(events[cur], e) \in Seq(Kinds)
  BY <1>1
<1> QED
  BY <1>1, <1>2 DEF Tell, EventsTyped

\* A counter of at most two.
LEMMA NoneYet == \A n \in {0, 1, 2} : (~(n > 0) => n = 0) /\ (n # 0 => n > 0) /\ (n < 2 => n + 1 \in {1, 2})
OBVIOUS

\* The two sessions.
LEMMA TwoSessions == Session = {1, 2} /\ \A s \in Session : s = 1 \/ s = 2
BY DEF Session

LEMMA InitIInv == Init => IInv
<1> SUFFICES ASSUME Init PROVE IInv
  OBVIOUS
<1> USE DEF Init
<1>1. HostTyped /\ kind \in {"run", "zygote", "resume"}
  BY SessionAssumption DEF HostTyped, KindOf, Session
<1>2. MachineTyped /\ WorkTyped /\ StoreTyped
  BY DEF MachineTyped, WorkTyped, StoreTyped
<1>3. EventsTyped
  BY DEF EventsTyped
<1>4. TypeOK
  BY <1>1, <1>2, <1>3, TypeParts
<1>5. events[1] = <<>> /\ events[2] = <<>> /\ vmm[1] = "none" /\ vmm[2] = "none"
  BY TwoSessions
<1>6. HostFits /\ OtherSession /\ Story
  BY <1>1, <1>5 DEF HostFits, OtherSession, Story
<1>7. WorkDone /\ Recorded /\ Earned /\ RecordedSnapshotIsWhole
  BY DEF WorkDone, Recorded, Earned, RecordedSnapshotIsWhole
<1> QED
  BY <1>4, <1>6, <1>7 DEF IInv

(***************************************************************************)
(* The VMM and its guest                                                   *)
(***************************************************************************)
\* What is not there does not come, and what is gone stays gone.
LEMMA VmmKeeps ==
  ASSUME IInv, Hang \/ Exit
  PROVE  IInv'
<1>1. PICK s \in Session, v \in {"hung", "gone"} :
        /\ vmm[s] \in {"healthy", "hung"} /\ (v = "hung" => vmm[s] = "healthy") /\ vmm' = [vmm EXCEPT ![s] = v]
  BY DEF Hang, Exit, Alive
<1>2. UNCHANGED <<cmd, kind, cur, host, opened, asked, stdin, script, serial, killed, cause, waited, events, tool, snapshot, latest, verdict>>
  BY DEF Hang, Exit, console, waiting, store
<1>3. /\ vmm' \in [Session -> {"none", "healthy", "hung", "gone"}]
      /\ \A x \in Session : (vmm[x] = "none" <=> vmm'[x] = "none") /\ (vmm[x] = "gone" => vmm'[x] = "gone")
  BY <1>1, TypeParts DEF IInv, MachineTyped
<1>4. HostTyped' /\ MachineTyped' /\ WorkTyped' /\ StoreTyped' /\ EventsTyped'
  <2>1. HostTyped'
    BY <1>2, <1>3, TypeParts DEF IInv, HostTyped
  <2>4. WorkTyped'
    BY <1>2, <1>3, TypeParts DEF IInv, WorkTyped
  <2>2. MachineTyped'
    BY <1>2, <1>3, TypeParts DEF IInv, MachineTyped
  <2>3. StoreTyped' /\ EventsTyped'
    BY <1>2, <1>3, TypeParts DEF IInv, StoreTyped, EventsTyped
  <2> QED
    BY <2>1, <2>2, <2>3, <2>4
<1>5. cur \in Session /\ 1 \in Session /\ 2 \in Session
  BY TypeParts, TwoSessions DEF IInv, HostTyped
<1>6. HostFits' /\ OtherSession' /\ Story'
  <2>1. HostFits'
    BY <1>2 DEF IInv, HostFits
  <2>2. OtherSession'
    BY <1>2, <1>3, <1>5 DEF IInv, OtherSession
  <2>3. Story'
    BY <1>2, <1>3, <1>5 DEF IInv, Story
  <2> QED
    BY <2>1, <2>2, <2>3
<1>7. WorkDone' /\ Recorded' /\ RecordedSnapshotIsWhole'
  BY <1>2, <1>3, <1>5 DEF IInv, WorkDone, Completed, Recorded, RecordedSnapshotIsWhole
<1>8. Earned'
  BY <1>1, <1>2, <1>3, <1>5, TypeParts DEF IInv, Earned, Completed, Alive, MachineTyped
<1> QED
  BY <1>4, <1>6, <1>7, <1>8, TypePartsNext DEF IInv

\* A script that has ended has nothing more to say.
LEMMA ConsoleKeeps ==
  ASSUME IInv, Console
  PROVE  IInv'
<1>1. /\ serial' \in {"prompt", "started", "rc0", "rc1", "short"} /\ serial \in {"silent", "prompt", "started"}
      /\ UNCHANGED <<cmd, kind, cur, host, vmm, opened, asked, stdin, script, killed, cause, waited, events, tool, snapshot, latest, verdict>>
  BY DEF Console, machine, waiting, store
<1>2. HostTyped' /\ MachineTyped' /\ WorkTyped' /\ StoreTyped' /\ EventsTyped'
  <2>1. HostTyped'
    BY <1>1, TypeParts DEF IInv, HostTyped
  <2>4. WorkTyped'
    BY <1>1, TypeParts DEF IInv, WorkTyped
  <2>2. MachineTyped'
    BY <1>1, TypeParts DEF IInv, MachineTyped
  <2>3. StoreTyped' /\ EventsTyped'
    BY <1>1, TypeParts DEF IInv, StoreTyped, EventsTyped
  <2> QED
    BY <2>1, <2>2, <2>3, <2>4
<1>3. HostFits' /\ OtherSession' /\ Story'
  <2>1. HostFits'
    BY <1>1 DEF IInv, HostFits
  <2>2. OtherSession'
    BY <1>1 DEF IInv, OtherSession
  <2>3. Story'
    BY <1>1 DEF IInv, Story
  <2> QED
    BY <2>1, <2>2, <2>3
<1>4. WorkDone' /\ Recorded' /\ RecordedSnapshotIsWhole'
  BY <1>1 DEF IInv, WorkDone, Completed, Recorded, RecordedSnapshotIsWhole
<1>5. Earned'
  BY <1>1 DEF IInv, Earned, Completed, Alive
<1> QED
  BY <1>2, <1>3, <1>4, <1>5, TypePartsNext DEF IInv

(***************************************************************************)
(* The host's steps within a session                                       *)
(***************************************************************************)
\* The other session is not disturbed.
LEMMA OtherStays ==
  ASSUME IInv, UNCHANGED <<kind, cur>>, asked \subseteq asked', opened' \subseteq opened \cup {cur},
         \A s \in Session : s # cur => vmm'[s] = vmm[s] /\ events'[s] = events[s]
  PROVE  OtherSession'
<1>1. 1 \in Session /\ 2 \in Session
  BY TwoSessions
<1> QED
  BY <1>1 DEF IInv, OtherSession

LEMMA BootKeeps ==
  ASSUME IInv, Boot
  PROVE  IInv'
<1>1. /\ host = "booting" /\ Tell("boot.started") /\ vmm' = [vmm EXCEPT ![cur] = "healthy"]
      /\ opened' = opened \cup {cur} /\ stdin' = stdin \cup {cur} /\ host' = (IF kind = "run" THEN "awaiting guest" ELSE "settling")
      /\ UNCHANGED <<cmd, kind, cur, asked, script, serial, killed, cause, waited, tool, snapshot, latest, verdict>>
  BY DEF Boot, console, waiting, store
<1>2. cur \in Session /\ vmm \in [Session -> {"none", "healthy", "hung", "gone"}] /\ events[cur] = <<>>
  BY <1>1, TypeParts DEF IInv, HostTyped, MachineTyped, Story
<1>3. /\ EventsTyped' /\ events'[cur] = Booted
      /\ \A s \in Session : s # cur => events'[s] = events[s]
  <2>1. "boot.started" \in Kinds
    BY DEF Kinds
  <2> QED
    BY <1>1, <1>2, <2>1, TellSays DEF IInv, Booted
<1>4. HostTyped'
  BY <1>1, TypeParts DEF IInv, HostTyped
<1>5. MachineTyped'
  BY <1>1, <1>2, TypeParts DEF IInv, MachineTyped
<1>6. WorkTyped'
  BY <1>1, TypeParts DEF IInv, WorkTyped
<1>7. StoreTyped'
  BY <1>1, TypeParts DEF IInv, StoreTyped
<1>8. HostFits'
  BY <1>1 DEF IInv, HostFits
<1>9. OtherSession'
  BY <1>1, <1>2, <1>3, OtherStays
<1>10. Story'
  BY <1>1, <1>3 DEF IInv, Story
<1>11. WorkDone' /\ Recorded' /\ Earned' /\ RecordedSnapshotIsWhole'
  BY <1>1 DEF IInv, HostFits, WorkDone, Recorded, Earned, RecordedSnapshotIsWhole
<1> QED
  BY <1>3, <1>4, <1>5, <1>6, <1>7, <1>8, <1>9, <1>10, <1>11, TypePartsNext DEF IInv

\* What the host's steps of a run have in common: they tell e, or nothing, and neither boot
\* nor kill.
LEMMA GuestStep ==
  ASSUME IInv, NEW e \in Kinds, Tell(e) \/ events' = events,
         NEW h \in {"injecting", "after inject", "awaiting exec", "waiting", "observed", "judging"},
         host' = h, host \notin {"booting", "returned"},
         UNCHANGED <<cmd, kind, cur, vmm, opened, verdict>>, asked \subseteq asked', asked' \subseteq Session, stdin' \subseteq Session
  PROVE  /\ HostTyped' /\ MachineTyped' /\ EventsTyped' /\ OtherSession' /\ Earned' /\ cur \in Session
         /\ Tell(e) => events'[cur] = Append(events[cur], e)
<1>1. cur \in Session /\ HostTyped' /\ MachineTyped'
  <2>1. HostTyped'
    BY TypeParts DEF IInv, HostTyped
  <2>2. MachineTyped' /\ cur \in Session
    BY TypeParts DEF IInv, MachineTyped, HostTyped
  <2> QED
    BY <2>1, <2>2
<1>2. /\ Tell(e) => events'[cur] = Append(events[cur], e)
      /\ EventsTyped' /\ \A s \in Session : s # cur => events'[s] = events[s]
  <2>1. CASE Tell(e)
    BY <2>1, TellSays DEF IInv
  <2>2. CASE events' = events
    <3>1. Tell(e) => events'[cur] = Append(events[cur], e)
      BY TellSays DEF IInv
    <3> QED
      BY <2>2, <3>1, TypeParts DEF IInv, EventsTyped
  <2> QED
    BY <2>1, <2>2
<1>3. OtherSession'
  BY <1>2, OtherStays
<1>4. Earned'
  BY DEF IInv, HostFits, Earned
<1> QED
  BY <1>1, <1>2, <1>3, <1>4

\* From the prompt to the end of the bridge.
LEMMA InjectKeeps ==
  ASSUME IInv, GuestReady \/ Inject \/ AfterInject
  PROVE  IInv'
<1>1. UNCHANGED <<cmd, kind, cur, vmm, opened, asked, serial, killed, cause, waited, snapshot, latest, verdict>>
      /\ stdin' \subseteq Session
  BY TypeParts DEF GuestReady, Inject, AfterInject, Close, machine, console, waiting, store, IInv, MachineTyped
<1>2. CASE GuestReady
  <2>1. /\ host = "awaiting guest" /\ host' = "injecting" /\ Tell("guest.ready") /\ UNCHANGED <<script, tool>>
    BY <1>2 DEF GuestReady, console
  <2>2. "guest.ready" \in Kinds /\ asked \subseteq Session
    BY TypeParts DEF Kinds, IInv, MachineTyped
  <2>3. /\ HostTyped' /\ MachineTyped' /\ EventsTyped' /\ OtherSession' /\ Earned'
        /\ events'[cur] = Append(events[cur], "guest.ready")
    BY <1>1, <2>1, <2>2, GuestStep
  <2>4. events'[cur] = Greeted
    BY <2>1, <2>3 DEF IInv, Story, Greeted
  <2>5. WorkTyped'
    BY <1>1, <2>1, TypeParts DEF IInv, WorkTyped
  <2>6. StoreTyped'
    BY <1>1, TypeParts DEF IInv, StoreTyped
  <2>7. HostFits' /\ Recorded' /\ RecordedSnapshotIsWhole'
    BY <1>1, <2>1 DEF IInv, HostFits, Recorded, RecordedSnapshotIsWhole
  <2>8. Story'
    BY <1>1, <2>1, <2>4 DEF IInv, Story
  <2>9. WorkDone'
    BY <1>1, <2>1 DEF IInv, WorkDone
  <2> QED
    BY <2>3, <2>5, <2>6, <2>7, <2>8, <2>9, TypePartsNext DEF IInv
<1>3. CASE Inject
  <2>1. /\ host = "injecting" /\ host' = "after inject" /\ Tell("exec.injected") /\ script' = TRUE /\ tool' = tool
    BY <1>3 DEF Inject
  <2>2. "exec.injected" \in Kinds /\ asked \subseteq Session
    BY TypeParts DEF Kinds, IInv, MachineTyped
  <2>3. /\ HostTyped' /\ MachineTyped' /\ EventsTyped' /\ OtherSession' /\ Earned'
        /\ events'[cur] = Append(events[cur], "exec.injected")
    BY <1>1, <2>1, <2>2, GuestStep
  <2>4. events'[cur] = Injected
    BY <2>1, <2>3 DEF IInv, Story, Injected
  <2>5. WorkTyped'
    BY <1>1, <2>1, TypeParts DEF IInv, WorkTyped
  <2>6. StoreTyped'
    BY <1>1, TypeParts DEF IInv, StoreTyped
  <2>7. HostFits' /\ Recorded' /\ RecordedSnapshotIsWhole'
    BY <1>1, <2>1 DEF IInv, HostFits, Recorded, RecordedSnapshotIsWhole
  <2>8. Story'
    BY <1>1, <2>1, <2>4 DEF IInv, Story
  <2>9. WorkDone'
    BY <1>1, <2>1 DEF IInv, WorkDone
  <2> QED
    BY <2>3, <2>5, <2>6, <2>7, <2>8, <2>9, TypePartsNext DEF IInv
<1>4. CASE AfterInject
  <2>1. /\ host = "after inject" /\ host' = "awaiting exec" /\ tool' = (cmd = "tool") /\ UNCHANGED <<script, events>>
    BY <1>4 DEF AfterInject, console
  <2>2. "exec.injected" \in Kinds /\ asked \subseteq Session
    BY TypeParts DEF Kinds, IInv, MachineTyped
  <2>3. HostTyped' /\ MachineTyped' /\ EventsTyped' /\ OtherSession' /\ Earned'
    BY <1>1, <2>1, <2>2, GuestStep
  <2>5. WorkTyped'
    <3>1. tool' \in BOOLEAN
      BY <2>1
    <3> QED
      BY <1>1, <2>1, <3>1, TypeParts DEF IInv, WorkTyped
  <2>6. StoreTyped'
    BY <1>1, TypeParts DEF IInv, StoreTyped
  <2>7. HostFits' /\ Recorded' /\ RecordedSnapshotIsWhole'
    BY <1>1, <2>1 DEF IInv, HostFits, Recorded, RecordedSnapshotIsWhole
  <2>8. Story'
    BY <1>1, <2>1 DEF IInv, Story
  <2>9. WorkDone'
    BY <1>1, <2>1 DEF IInv, WorkDone
  <2> QED
    BY <2>3, <2>5, <2>6, <2>7, <2>8, <2>9, TypePartsNext DEF IInv
<1> QED
  BY <1>2, <1>3, <1>4

\* The host stops the VMM, with the story of its kind begun.
LEMMA StopKeeps ==
  ASSUME IInv, NEW x \in {"none", "not ready", "bridge", "no completion"}, StopWith(x),
         NEW e \in Kinds, Tell(e) \/ events' = events, host \notin {"booting", "returned", "waiting", "observed", "judging"},
         UNCHANGED <<cmd, kind, cur, vmm, opened, stdin, script, serial, tool, latest, verdict>>,
         events'[cur] \in Begun(kind), StoreTyped', kind = "zygote" => snapshot' = "whole",
         kind = "run" /\ x = "none" => script /\ Completed /\ (cmd = "tool" => tool)
  PROVE  IInv'
<1>1. host' = "waiting" /\ cause' = x /\ asked' = asked \cup {cur} /\ UNCHANGED <<killed, waited>>
  BY DEF StopWith
<1>2. ~killed /\ waited = "none" /\ latest = 0 /\ cur \in Session
  <2>1. ~killed
    BY TypeParts DEF IInv, Story, HostTyped
  <2>2. waited = "none"
    BY DEF IInv, WorkDone
  <2>3. latest \in {0, 1, 2} /\ cur \in Session
    BY TypeParts DEF IInv, StoreTyped, HostTyped
  <2>4. ~(latest > 0)
    BY DEF IInv, Recorded
  <2>5. latest = 0
    BY <2>3, <2>4, NoneYet
  <2> QED
    BY <2>1, <2>2, <2>3, <2>5
<1>3. asked' \subseteq Session /\ stdin' \subseteq Session
  BY <1>1, <1>2, TypeParts DEF IInv, MachineTyped
<1>4. HostTyped' /\ MachineTyped' /\ EventsTyped' /\ OtherSession' /\ Earned'
  BY <1>1, <1>3, GuestStep
<1>5. WorkTyped'
  BY <1>1, TypeParts DEF IInv, WorkTyped
<1>6. HostFits' /\ Recorded' /\ RecordedSnapshotIsWhole'
  BY <1>1, <1>2 DEF IInv, HostFits, Recorded, RecordedSnapshotIsWhole
<1>7. Story'
  BY <1>1, <1>2 DEF Story
<1>8. WorkDone'
  BY <1>1, <1>2 DEF WorkDone, Completed
<1> QED
  BY <1>4, <1>5, <1>6, <1>7, <1>8, TypePartsNext DEF IInv

\* The stories with which a wait begins.
LEMMA Stories ==
  /\ Begun("run") = {Refused, Injected}
  /\ Begun("resume") = {Resumed}
  /\ Begun("zygote") = {Booted}
BY DEF Begun

\* A session is stopped because its work is done, or one of its timers went off.
LEMMA StopsKeep ==
  ASSUME IInv,
         \/ GuestNeverReady \/ AfterInjectFails \/ ExecCompletes \/ ExecNeverCompletes
         \/ StopResumed \/ TakeSnapshot
  PROVE  IInv'
<1>1. /\ UNCHANGED <<cmd, kind, cur, vmm, opened, stdin, script, serial, tool, latest, verdict>>
      /\ host \in {"awaiting guest", "after inject", "awaiting exec", "settling"}
  BY DEF GuestNeverReady, AfterInjectFails, ExecCompletes, ExecNeverCompletes, StopResumed, TakeSnapshot, console, store
<1>2. /\ host \in {"awaiting guest", "settling"} => events[cur] = Booted
      /\ host \in {"after inject", "awaiting exec"} => events[cur] = Injected
      /\ host \in {"awaiting guest", "after inject", "awaiting exec"} => kind = "run"
  BY DEF IInv, Story, HostFits
<1>3. {"exec.refused", "exec.injected"} \subseteq Kinds
  BY DEF Kinds
<1>4. StoreTyped'
  BY TypeParts DEF IInv, StoreTyped, GuestNeverReady, AfterInjectFails, ExecCompletes, ExecNeverCompletes, StopResumed, TakeSnapshot, store
<1>5. CASE GuestNeverReady
  <2>1. StopWith("not ready") /\ Tell("exec.refused") /\ host = "awaiting guest"
    BY <1>5 DEF GuestNeverReady
  <2>2. events'[cur] \in Begun(kind)
    BY <1>2, <1>3, <2>1, TellSays, Stories DEF IInv, Refused, Resumed
  <2> QED
    BY <1>1, <1>2, <1>3, <1>4, <2>1, <2>2, StopKeeps
<1>6. CASE AfterInjectFails
  <2>1. StopWith("bridge") /\ events' = events /\ host = "after inject"
    BY <1>6 DEF AfterInjectFails
  <2>2. events'[cur] \in Begun(kind)
    BY <1>2, <2>1, Stories
  <2> QED
    BY <1>1, <1>2, <1>3, <1>4, <2>1, <2>2, StopKeeps
<1>7. CASE ExecCompletes
  <2>1. StopWith("none") /\ events' = events /\ host = "awaiting exec" /\ Completed
    BY <1>7 DEF ExecCompletes
  <2>2. events'[cur] \in Begun(kind)
    BY <1>2, <2>1, Stories
  <2>3. script /\ (cmd = "tool" => tool)
    BY <2>1 DEF IInv, WorkDone
  <2> QED
    BY <1>1, <1>2, <1>3, <1>4, <2>1, <2>2, <2>3, StopKeeps
<1>8. CASE ExecNeverCompletes
  <2>1. StopWith("no completion") /\ events' = events /\ host = "awaiting exec"
    BY <1>8 DEF ExecNeverCompletes
  <2>2. events'[cur] \in Begun(kind)
    BY <1>2, <2>1, Stories
  <2> QED
    BY <1>1, <1>2, <1>3, <1>4, <2>1, <2>2, StopKeeps
<1>9. CASE StopResumed
  <2>1. StopWith("none") /\ Tell("exec.injected") /\ host = "settling" /\ kind = "resume"
    BY <1>9 DEF StopResumed
  <2>2. events'[cur] \in Begun(kind)
    BY <1>2, <1>3, <2>1, TellSays, Stories DEF IInv, Refused, Resumed
  <2> QED
    BY <1>1, <1>2, <1>3, <1>4, <2>1, <2>2, StopKeeps
<1>10. CASE TakeSnapshot
  <2>1. StopWith("none") /\ events' = events /\ host = "settling" /\ kind = "zygote" /\ snapshot' = "whole"
    BY <1>10 DEF TakeSnapshot
  <2>2. events'[cur] \in Begun(kind)
    BY <1>2, <2>1, Stories
  <2> QED
    BY <1>1, <1>2, <1>3, <1>4, <2>1, <2>2, StopKeeps
<1> QED
  BY <1>5, <1>6, <1>7, <1>8, <1>9, <1>10

(***************************************************************************)
(* The wait                                                                *)
(***************************************************************************)
\* However the wait ends, the exit is told and the VMM has been asked to stop.
LEMMA WaitKeeps ==
  ASSUME IInv, WaitReturns \/ WaitExpires \/ Observe
  PROVE  IInv'
<1>1. UNCHANGED <<cmd, kind, cur, vmm, opened, asked, stdin, script, serial, killed, cause, tool, snapshot, latest, verdict>>
  BY DEF WaitReturns, WaitExpires, Observe, machine, console, waiting, store
<1>2. /\ "exit.observed" \in Kinds /\ asked' \subseteq Session /\ stdin' \subseteq Session /\ cur \in Session
      /\ events \in [Session -> Seq(Kinds)]
  BY <1>1, TypeParts DEF Kinds, IInv, MachineTyped, HostTyped, EventsTyped
<1>3. StoreTyped'
  BY <1>1, TypeParts DEF IInv, StoreTyped
<1>4. CASE WaitReturns \/ WaitExpires
  <2>1. /\ host = "waiting" /\ host' = "observed" /\ events' = events
        /\ waited' \in {"exit", "error", "deadline"} /\ (waited' # "deadline" => vmm[cur] = "gone")
    BY <1>4 DEF WaitReturns, WaitExpires, Reaped
  <2>2. HostTyped' /\ MachineTyped' /\ EventsTyped' /\ OtherSession' /\ Earned'
    BY <1>1, <1>2, <2>1, GuestStep
  <2>3. WorkTyped'
    BY <1>1, <2>1, TypeParts DEF IInv, WorkTyped
  <2>4. HostFits' /\ Recorded' /\ RecordedSnapshotIsWhole'
    <3>1. HostFits'
      BY <1>1, <2>1 DEF IInv, HostFits
    <3>2. Recorded' /\ RecordedSnapshotIsWhole'
      BY <1>1, <2>1 DEF IInv, Recorded, RecordedSnapshotIsWhole
    <3> QED
      BY <3>1, <3>2
  <2>5. Story'
    BY <1>1, <2>1 DEF IInv, Story
  <2>6. WorkDone'
    BY <1>1, <2>1 DEF IInv, WorkDone, Completed
  <2> QED
    BY <1>3, <2>2, <2>3, <2>4, <2>5, <2>6, TypePartsNext DEF IInv
<1>5. CASE Observe
  <2>1. host = "observed" /\ host' = "judging" /\ Tell("exit.observed") /\ waited' = waited
    BY <1>5 DEF Observe, waiting
  <2>2. /\ HostTyped' /\ MachineTyped' /\ EventsTyped' /\ OtherSession' /\ Earned'
        /\ events'[cur] = Append(events[cur], "exit.observed")
    BY <1>1, <1>2, <2>1, GuestStep
  <2>3. WorkTyped'
    BY <1>1, <2>1, TypeParts DEF IInv, WorkTyped
  <2>4. HostFits' /\ Recorded' /\ RecordedSnapshotIsWhole'
    <3>1. HostFits'
      BY <1>1, <2>1 DEF IInv, HostFits
    <3>2. ~(latest > 0) /\ (kind = "zygote" => snapshot = "whole")
      BY <2>1 DEF IInv, Recorded
    <3>3. latest \in {0, 1, 2}
      BY TypeParts DEF IInv, StoreTyped
    <3>4. latest = 0
      BY <3>2, <3>3, NoneYet
    <3>5. Recorded' /\ RecordedSnapshotIsWhole'
      BY <1>1, <3>2, <3>4 DEF Recorded, RecordedSnapshotIsWhole
    <3> QED
      BY <3>1, <3>5
  <2>5. events'[cur] \in Told(kind)
    BY <2>1, <2>2 DEF IInv, Story, Told
  <2>6. Story'
    BY <1>1, <2>1, <2>5 DEF IInv, Story
  <2>7. WorkDone'
    BY <1>1, <2>1 DEF IInv, WorkDone, Completed
  <2> QED
    BY <1>3, <2>2, <2>3, <2>4, <2>6, <2>7, TypePartsNext DEF IInv
<1> QED
  BY <1>4, <1>5

\* The kill is the one thing that a wait adds.
LEMMA WatchdogKeeps ==
  ASSUME IInv, WatchdogTick
  PROVE  IInv'
<1>1. /\ host = "waiting" /\ ~killed /\ killed' = TRUE /\ Tell("watchdog.kill") /\ vmm' = [vmm EXCEPT ![cur] = "gone"]
      /\ UNCHANGED <<cmd, kind, cur, host, opened, asked, stdin, script, serial, cause, waited, tool, snapshot, latest, verdict>>
  BY DEF WatchdogTick, NotYetKilled, console, store
<1>2. cur \in Session /\ vmm \in [Session -> {"none", "healthy", "hung", "gone"}] /\ "watchdog.kill" \in Kinds
  BY TypeParts DEF Kinds, IInv, MachineTyped, HostTyped
<1>3. /\ EventsTyped' /\ events'[cur] = Append(events[cur], "watchdog.kill")
      /\ \A s \in Session : s # cur => events'[s] = events[s]
  BY <1>1, <1>2, TellSays DEF IInv
<1>4. vmm'[cur] = "gone" /\ \A s \in Session : s # cur => vmm'[s] = vmm[s]
  BY <1>1, <1>2
<1>5. HostTyped'
  BY <1>1, TypeParts DEF IInv, HostTyped
<1>6. MachineTyped'
  BY <1>1, <1>2, TypeParts DEF IInv, MachineTyped
<1>7. WorkTyped'
  BY <1>1, TypeParts DEF IInv, WorkTyped
<1>8. StoreTyped'
  BY <1>1, TypeParts DEF IInv, StoreTyped
<1>9. OtherSession'
  BY <1>1, <1>3, <1>4, OtherStays
<1>10. events[cur] \in Begun(kind)
  BY <1>1 DEF IInv, Story
<1>11. events'[cur] \in Killed(kind)
  BY <1>3, <1>10 DEF Killed
<1>12. Story'
  BY <1>1, <1>11 DEF IInv, Story
<1>13. HostFits' /\ Recorded' /\ RecordedSnapshotIsWhole'
  BY <1>1 DEF IInv, HostFits, Recorded, RecordedSnapshotIsWhole
<1>14. WorkDone'
  BY <1>1 DEF IInv, WorkDone, Completed
<1>15. Earned'
  BY <1>1 DEF IInv, HostFits, Earned
<1> QED
  BY <1>3, <1>5, <1>6, <1>7, <1>8, <1>9, <1>12, <1>13, <1>14, <1>15, TypePartsNext DEF IInv

(***************************************************************************)
(* The command ends, or a resume falls back                                *)
(***************************************************************************)
\* The command returns, with the session's story at an end.
LEMMA EndKeeps ==
  ASSUME IInv, NEW v \in {"ok", "error"}, End(v), host # "returned",
         UNCHANGED <<cmd, kind, cur, opened, asked, script, serial, killed, cause, waited, tool>>, stdin' \subseteq Session,
         vmm' = vmm \/ (waited = "none" /\ vmm' = [vmm EXCEPT ![cur] = "healthy"]),
         EventsTyped', \A s \in Session : s # cur => events'[s] = events[s],
         StoreTyped', RecordedSnapshotIsWhole', latest' > 0 => kind = "zygote", Earned',
         \/ cur \notin opened /\ events'[cur] \in Unbooted
         \/ cur \in asked /\ events'[cur] \in Told(kind)
         \/ kind = "zygote" /\ snapshot' # "whole" /\ events'[cur] \in Unbooted
  PROVE  IInv'
<1>1. host' = "returned" /\ verdict' = v
  BY DEF End
<1>2. HostTyped'
  BY <1>1, TypeParts DEF IInv, HostTyped
<1>3. /\ MachineTyped' /\ (waited # "none" => vmm'[cur] = vmm[cur])
      /\ \A x \in Session : x # cur => vmm'[x] = vmm[x]
  BY TypeParts DEF IInv, MachineTyped, HostTyped
<1>4. WorkTyped'
  BY TypeParts DEF IInv, WorkTyped
<1>5. OtherSession'
  BY <1>3, OtherStays
<1>6. HostFits' /\ Recorded'
  BY <1>1 DEF IInv, HostFits, Recorded
<1>7. Story'
  BY <1>1 DEF Story
<1>8. WorkDone'
  BY <1>1, <1>3 DEF IInv, WorkDone, Completed
<1> QED
  BY <1>2, <1>3, <1>4, <1>5, <1>6, <1>7, <1>8, TypePartsNext DEF IInv

\* A second session begins as the first did.
LEMMA FallBackKeeps ==
  ASSUME IInv, kind = "resume", host # "returned", FallBack, UNCHANGED <<cmd, opened, asked, tool, snapshot, latest>>,
         vmm' = vmm \/ vmm' = [vmm EXCEPT ![1] = "healthy"],
         stdin' \subseteq Session, EventsTyped', events'[2] = events[2],
         \/ 1 \notin opened /\ events'[1] \in Unbooted
         \/ 1 \in asked /\ events'[1] \in Told("resume")
  PROVE  IInv'
<1>1. /\ cur' = 2 /\ kind' = "run" /\ host' = "booting" /\ script' = FALSE /\ serial' = "silent"
      /\ killed' = FALSE /\ cause' = "none" /\ waited' = "none" /\ verdict' = verdict
  BY DEF FallBack
<1>2. HostTyped'
  BY <1>1, TwoSessions, TypeParts DEF IInv, HostTyped
<1>3. MachineTyped'
  BY TypeParts DEF IInv, MachineTyped
<1>4. WorkTyped'
  BY <1>1, TypeParts DEF IInv, WorkTyped
<1>5. StoreTyped'
  BY TypeParts DEF IInv, StoreTyped
<1>6. vmm'[2] = "none" /\ 2 \notin opened /\ events[2] = <<>>
  BY TwoSessions, TypeParts DEF IInv, HostFits, OtherSession, MachineTyped
<1>7. OtherSession'
  BY <1>1 DEF OtherSession
<1>8. Story'
  BY <1>1, <1>6 DEF Story
<1>9. verdict = "none" /\ ~(latest > 0)
  BY DEF IInv, HostFits, Recorded
<1>10. HostFits' /\ Recorded' /\ RecordedSnapshotIsWhole'
  BY <1>1, <1>9 DEF HostFits, Recorded, RecordedSnapshotIsWhole
<1>11. WorkDone' /\ Earned'
  BY <1>1, <1>9 DEF WorkDone, Earned
<1> QED
  BY <1>2, <1>3, <1>4, <1>5, <1>7, <1>8, <1>10, <1>11, TypePartsNext DEF IInv

LEMMA BootFailsKeeps ==
  ASSUME IInv, BootFails
  PROVE  IInv'
<1>1. /\ host = "booting" /\ Fail /\ (Tell("boot.started") \/ events' = events)
      /\ vmm' = vmm \/ vmm' = [vmm EXCEPT ![cur] = "healthy"]
      /\ UNCHANGED <<cmd, opened, asked, stdin, tool, snapshot, latest>>
  BY DEF BootFails, store
<1>2. cur \in Session /\ events[cur] = <<>> /\ cur \notin opened /\ "boot.started" \in Kinds
      /\ verdict = "none" /\ waited = "none"
  BY <1>1, TypeParts DEF Kinds, IInv, HostTyped, Story, HostFits, WorkDone
<1>3. /\ EventsTyped' /\ events'[cur] \in Unbooted
      /\ \A s \in Session : s # cur => events'[s] = events[s]
  <2>1. CASE Tell("boot.started")
    BY <1>2, <2>1, TellSays DEF IInv, Booted, Unbooted
  <2>2. CASE events' = events
    BY <1>2, <2>2, TypeParts DEF IInv, EventsTyped, Unbooted
  <2> QED
    BY <1>1, <2>1, <2>2
<1>4. stdin' \subseteq Session /\ StoreTyped'
  <2>1. stdin' \subseteq Session
    BY <1>1, TypeParts DEF IInv, MachineTyped
  <2>2. StoreTyped'
    BY <1>1, TypeParts DEF IInv, StoreTyped
  <2> QED
    BY <2>1, <2>2
<1>5. ~(latest > 0)
  BY <1>1 DEF IInv, Recorded
<1>6. CASE kind = "resume"
  <2>1. cur = 1 /\ 2 \in Session /\ FallBack
    BY <1>1, <1>6, TwoSessions DEF IInv, HostFits, Fail
  <2>2. events'[2] = events[2] /\ 1 \notin opened /\ events'[1] \in Unbooted
    BY <1>2, <1>3, <2>1
  <2> QED
    BY <1>1, <1>3, <1>4, <1>6, <2>1, <2>2, FallBackKeeps
<1>7. CASE kind # "resume"
  <2>1. End("error") /\ UNCHANGED <<cur, kind, script, serial, killed, cause, waited>>
    BY <1>1, <1>7 DEF Fail, console, waiting
  <2>2. RecordedSnapshotIsWhole' /\ Earned'
    BY <1>1, <1>5, <2>1 DEF RecordedSnapshotIsWhole, Earned, End
  <2> QED
    BY <1>1, <1>2, <1>3, <1>4, <1>5, <2>1, <2>2, EndKeeps
<1> QED
  BY <1>6, <1>7

\* A run is judged by its console, and a resume by the end of its VMM.
LEMMA JudgesKeep ==
  ASSUME IInv, JudgeRun \/ JudgeResume
  PROVE  IInv'
<1>1. /\ host = "judging" /\ kind # "zygote"
      /\ UNCHANGED <<cmd, vmm, opened, asked, events, tool, snapshot, latest>> /\ stdin' = stdin \ {cur}
  BY DEF JudgeRun, JudgeResume, Close, store
<1>2. /\ cur \in asked /\ events[cur] \in Told(kind) /\ ~(latest > 0) /\ stdin' \subseteq Session
      /\ verdict = "none"
  <2>1. ~(latest > 0)
    BY <1>1 DEF IInv, Recorded
  <2>2. stdin' \subseteq Session
    BY <1>1, TypeParts DEF IInv, MachineTyped
  <2> QED
    BY <1>1, <2>1, <2>2 DEF IInv, Story, HostFits
<1>3. EventsTyped' /\ StoreTyped'
  <2>1. EventsTyped'
    BY <1>1, TypeParts DEF IInv, EventsTyped
  <2>2. StoreTyped'
    BY <1>1, TypeParts DEF IInv, StoreTyped
  <2> QED
    BY <2>1, <2>2
<1>4. RecordedSnapshotIsWhole'
  BY <1>1, <1>2 DEF RecordedSnapshotIsWhole
<1>5. CASE JudgeRun
  <2>1. /\ kind = "run" /\ End(IF RunIsGood THEN "ok" ELSE "error")
        /\ UNCHANGED <<kind, cur, script, serial, killed, cause, waited>>
    BY <1>5 DEF JudgeRun, console, waiting
  <2>2. PICK v \in {"ok", "error"} : End(v) /\ (v = "ok" => RunIsGood)
    BY <2>1
  <2>3. verdict' = v
    BY <2>2 DEF End
  <2>4. v = "ok" => script /\ Completed /\ cause = "none" /\ (cmd = "tool" \/ serial = "rc1" => tool)
    <3>1. v = "ok" => cause = "none" /\ (serial = "rc1" => tool)
      BY <2>2 DEF RunIsGood, RequiredPrinted, Excused
    <3>2. cause = "none" => script /\ Completed /\ (cmd = "tool" => tool)
      BY <1>1, <2>1 DEF IInv, WorkDone
    <3> QED
      BY <3>1, <3>2
  <2>5. Earned'
    BY <1>1, <2>1, <2>3, <2>4 DEF Earned, Completed
  <2> QED
    BY <1>1, <1>2, <1>3, <1>4, <2>1, <2>2, <2>5, EndKeeps
<1>6. CASE JudgeResume
  <2>1. kind = "resume" /\ cur = 1
    BY <1>6 DEF JudgeResume, IInv, HostFits
  <2>2. CASE ResumeIsGood
    <3>1. End("ok") /\ UNCHANGED <<kind, cur, script, serial, killed, cause, waited>>
      BY <1>6, <2>2 DEF JudgeResume, console, waiting
    <3>2. vmm[1] = "gone"
      BY <2>1, <2>2 DEF IInv, WorkDone, ResumeIsGood
    <3>3. Earned'
      BY <1>1, <2>1, <3>1, <3>2 DEF Earned, Alive
    <3> QED
      BY <1>1, <1>2, <1>3, <1>4, <3>1, <3>3, EndKeeps
  <2>3. CASE ~ResumeIsGood
    <3>1. FallBack
      BY <1>6, <2>1, <2>3 DEF JudgeResume, Fail
    <3> QED
      BY <1>1, <1>2, <1>3, <2>1, <3>1, FallBackKeeps
  <2> QED
    BY <2>2, <2>3
<1> QED
  BY <1>5, <1>6

\* Nothing is recorded of a snapshot that failed, and of one that was taken both records
\* or an error.
LEMMA SnapshotsKeep ==
  ASSUME IInv, SnapshotFails \/ RecordSnapshot
  PROVE  IInv'
<1>1. kind = "zygote" /\ UNCHANGED <<cmd, kind, cur, vmm, opened, asked, script, serial, killed, cause, waited, events, tool>>
  BY DEF SnapshotFails, RecordSnapshot, console, waiting
<1>2. stdin' \subseteq Session
  BY TypeParts DEF SnapshotFails, RecordSnapshot, Close, IInv, MachineTyped
<1>3. EventsTyped'
  BY <1>1, TypeParts DEF IInv, EventsTyped
<1>4. latest \in {0, 1, 2} /\ snapshot \in {"none", "partial", "whole"}
  BY TypeParts DEF IInv, StoreTyped
<1>5. CASE SnapshotFails
  <2>1. host = "settling" /\ snapshot' \in {"none", "partial"} /\ End("error") /\ latest' = latest
    BY <1>5 DEF SnapshotFails, ReturnError
  <2>2. StoreTyped'
    BY <1>4, <2>1 DEF StoreTyped
  <2>3. ~(latest > 0) /\ verdict' = "error"
    BY <2>1 DEF IInv, Recorded, End
  <2>4. RecordedSnapshotIsWhole' /\ Earned'
    BY <2>1, <2>3 DEF RecordedSnapshotIsWhole, Earned
  <2>5. events'[cur] \in Unbooted /\ snapshot' # "whole"
    BY <1>1, <2>1 DEF IInv, Story, Unbooted
  <2> QED
    BY <1>1, <1>2, <1>3, <2>1, <2>2, <2>3, <2>4, <2>5, EndKeeps
<1>6. CASE RecordSnapshot
  <2>1. host = "judging" /\ snapshot' = snapshot /\ snapshot = "whole" /\ latest < 2
    BY <1>6 DEF RecordSnapshot, IInv, Recorded
  <2>2. cur \in asked /\ events[cur] \in Told(kind) /\ verdict = "none"
    BY <2>1 DEF IInv, Story, HostFits
  <2>3. latest' \in {0, 1, 2}
    BY <1>4, <1>6, <2>1, NoneYet DEF RecordSnapshot
  <2>4. StoreTyped' /\ RecordedSnapshotIsWhole'
    BY <1>4, <2>1, <2>3 DEF StoreTyped, RecordedSnapshotIsWhole
  <2>5. CASE End("error")
    <3>1. Earned'
      BY <2>5 DEF End, Earned
    <3> QED
      BY <1>1, <1>2, <1>3, <2>1, <2>2, <2>4, <2>5, <3>1, EndKeeps
  <2>6. CASE latest' = latest + 1 /\ latest = 1 /\ End("ok")
    <3>1. Earned'
      BY <1>1, <2>6 DEF End, Earned
    <3> QED
      BY <1>1, <1>2, <1>3, <2>1, <2>2, <2>4, <2>6, <3>1, EndKeeps
  <2>7. CASE latest' = latest + 1 /\ latest # 1 /\ host' = host /\ verdict' = verdict
    <3>1. latest = 0 /\ latest' = 1
      BY <1>4, <2>1, <2>7
    <3>2. HostTyped'
      BY <1>1, <2>7, TypeParts DEF IInv, HostTyped
    <3>3. MachineTyped'
      BY <1>1, <1>2, TypeParts DEF IInv, MachineTyped
    <3>4. WorkTyped'
      BY <1>1, TypeParts DEF IInv, WorkTyped
    <3>5. OtherSession'
      BY <1>1, OtherStays
    <3>6. HostFits' /\ WorkDone' /\ Earned'
      BY <1>1, <2>2, <2>7 DEF IInv, HostFits, WorkDone, Completed, Earned
    <3>7. Story'
      BY <1>1, <2>1, <2>7 DEF IInv, Story
    <3>8. Recorded'
      BY <1>1, <2>1, <2>7, <3>1 DEF Recorded
    <3> QED
      BY <1>3, <2>4, <3>2, <3>3, <3>4, <3>5, <3>6, <3>7, <3>8, TypePartsNext DEF IInv
  <2> QED
    BY <1>6, <2>5, <2>6, <2>7 DEF RecordSnapshot
<1> QED
  BY <1>5, <1>6

LEMMA NextIInv ==
  ASSUME IInv, [Next]_vars
  PROVE  IInv'
<1>1. CASE Host
  BY <1>1, BootKeeps, InjectKeeps, StopsKeep, WaitKeeps, JudgesKeep, SnapshotsKeep DEF Host
<1>2. CASE Failure \/ GuestTimer \/ ExecTimer \/ WaitTimer \/ WatchdogTick
  BY <1>2, BootFailsKeeps, StopsKeep, WaitKeeps, WatchdogKeeps DEF Failure, GuestTimer, ExecTimer, WaitTimer
<1>3. CASE Environment
  BY <1>3, VmmKeeps, ConsoleKeeps DEF Environment
<1>4. CASE UNCHANGED vars
  <2>1. UNCHANGED <<cmd, kind, cur, host, vmm, opened, asked, stdin, script, serial, killed, cause, waited, events, tool, snapshot, latest, verdict>>
    BY <1>4 DEF vars, machine, console, waiting, store
  <2>2. HostTyped'
    BY <2>1, TypeParts DEF IInv, HostTyped
  <2>3. MachineTyped'
    BY <2>1, TypeParts DEF IInv, MachineTyped
  <2>4. WorkTyped'
    BY <2>1, TypeParts DEF IInv, WorkTyped
  <2>5. StoreTyped' /\ EventsTyped'
    BY <2>1, TypeParts DEF IInv, StoreTyped, EventsTyped
  <2>6. HostFits' /\ OtherSession' /\ Story'
    <3>1. HostFits'
      BY <2>1 DEF IInv, HostFits
    <3>2. OtherSession'
      BY <2>1 DEF IInv, OtherSession
    <3>3. Story'
      BY <2>1 DEF IInv, Story
    <3> QED
      BY <3>1, <3>2, <3>3
  <2>7. WorkDone' /\ Recorded' /\ RecordedSnapshotIsWhole'
    BY <2>1 DEF IInv, WorkDone, Completed, Recorded, RecordedSnapshotIsWhole
  <2>8. Earned'
    BY <2>1 DEF IInv, Earned, Completed, Alive
  <2> QED
    BY <2>2, <2>3, <2>4, <2>5, <2>6, <2>7, <2>8, TypePartsNext DEF IInv
<1> QED
  BY <1>1, <1>2, <1>3, <1>4 DEF Next, Ended

LEMMA SpecIInv == Spec => []IInv
<1>1. Init => IInv
  BY InitIInv
<1>2. IInv /\ [Next]_vars => IInv'
  BY NextIInv
<1> QED
  BY <1>1, <1>2, PTL DEF Spec

(***************************************************************************)
(* What the hook is told                                                   *)
(***************************************************************************)
\* e is a tale of n words, all of them among W, told in a session of kind k: none of them
\* twice, the boot first, the exit last and the kill, but for a snapshot's, third or later.
Tale(k, e, W, n) ==
  /\ W \subseteq Kinds /\ n \in Nat
  /\ e \in Seq(Kinds) /\ Len(e) = n
  /\ \A i \in 1..n :
       /\ e[i] \in W
       /\ e[i] = "boot.started" => i = 1
       /\ e[i] = "exit.observed" => i = n
       /\ e[i] = "watchdog.kill" /\ k # "zygote" => i > 2
       /\ \A j \in 1..n : e[i] = e[j] => i = j

\* A tale goes on with a new word, until the exit.
LEMMA TaleGoesOn ==
  ASSUME NEW k, NEW e, NEW W, NEW n, Tale(k, e, W, n), NEW w \in Kinds \ W, "exit.observed" \notin W,
         w = "boot.started" => n = 0, w = "watchdog.kill" /\ k # "zygote" => n > 1
  PROVE  Tale(k, Append(e, w), W \cup {w}, n + 1)
<1>1. /\ Append(e, w) \in Seq(Kinds) /\ Len(Append(e, w)) = n + 1 /\ n \in Nat
      /\ \A i \in 1..n : Append(e, w)[i] = e[i] /\ e[i] \in W
      /\ Append(e, w)[n + 1] = w
  BY DEF Tale
<1>2. \A i \in 1..n+1 : i \in 1..n \/ i = n + 1
  BY <1>1
<1>3. SUFFICES ASSUME NEW i \in 1..n+1
               PROVE  /\ Append(e, w)[i] \in W \cup {w}
                      /\ Append(e, w)[i] = "boot.started" => i = 1
                      /\ Append(e, w)[i] = "exit.observed" => i = n + 1
                      /\ Append(e, w)[i] = "watchdog.kill" /\ k # "zygote" => i > 2
                      /\ \A j \in 1..n+1 : Append(e, w)[i] = Append(e, w)[j] => i = j
  BY <1>1 DEF Tale
<1>4. CASE i \in 1..n
  <2>1. Append(e, w)[i] = e[i] /\ e[i] \in W
    BY <1>1, <1>4
  <2>2. \A j \in 1..n+1 : Append(e, w)[i] = Append(e, w)[j] => i = j
    BY <1>1, <1>2, <1>4, <2>1 DEF Tale
  <2> QED
    BY <1>4, <2>1, <2>2 DEF Tale
<1>5. CASE i = n + 1
  <2>1. \A j \in 1..n+1 : Append(e, w)[i] = Append(e, w)[j] => i = j
    BY <1>1, <1>2, <1>5
  <2> QED
    BY <1>1, <1>5, <2>1
<1> QED
  BY <1>2, <1>4, <1>5

Stages(k) == Unbooted \cup {Booted, Greeted, Injected} \cup Begun(k) \cup Killed(k) \cup Told(k)

\* Every stage of every kind of session is a tale.
LEMMA StagesAreTales ==
  ASSUME NEW k \in {"run", "zygote", "resume"}, NEW e \in Stages(k)
  PROVE  \E W, n : Tale(k, e, W, n)
<1> DEFINE B == {"boot.started"}
<1> DEFINE I == {"boot.started", "guest.ready", "exec.injected"}
<1>0. Tale(k, <<>>, {}, 0)
  BY DEF Tale
<1>1. Tale(k, Booted, B, 1)
  <2>1. Tale(k, Append(<<>>, "boot.started"), {} \cup {"boot.started"}, 0 + 1)
    BY <1>0, TaleGoesOn DEF Kinds
  <2>2. {} \cup {"boot.started"} = B /\ 0 + 1 = 1
    OBVIOUS
  <2> QED
    BY <2>1, <2>2 DEF Booted
<1>2. Tale(k, Greeted, {"boot.started", "guest.ready"}, 2)
  <2>1. Tale(k, Append(Booted, "guest.ready"), B \cup {"guest.ready"}, 1 + 1)
    BY <1>1, TaleGoesOn DEF Kinds
  <2>2. B \cup {"guest.ready"} = {"boot.started", "guest.ready"} /\ 1 + 1 = 2
    OBVIOUS
  <2> QED
    BY <2>1, <2>2 DEF Greeted
<1>3. Tale(k, Injected, I, 3)
  <2>1. Tale(k, Append(Greeted, "exec.injected"), {"boot.started", "guest.ready"} \cup {"exec.injected"}, 2 + 1)
    BY <1>2, TaleGoesOn DEF Kinds
  <2>2. {"boot.started", "guest.ready"} \cup {"exec.injected"} = I /\ 2 + 1 = 3
    OBVIOUS
  <2> QED
    BY <2>1, <2>2 DEF Injected
<1>4. Tale(k, Refused, {"boot.started", "exec.refused"}, 2)
  <2>1. Tale(k, Append(Booted, "exec.refused"), B \cup {"exec.refused"}, 1 + 1)
    BY <1>1, TaleGoesOn DEF Kinds
  <2>2. B \cup {"exec.refused"} = {"boot.started", "exec.refused"} /\ 1 + 1 = 2
    OBVIOUS
  <2> QED
    BY <2>1, <2>2 DEF Refused
<1>5. Tale(k, Resumed, {"boot.started", "exec.injected"}, 2)
  <2>1. Tale(k, Append(Booted, "exec.injected"), B \cup {"exec.injected"}, 1 + 1)
    BY <1>1, TaleGoesOn DEF Kinds
  <2>2. B \cup {"exec.injected"} = {"boot.started", "exec.injected"} /\ 1 + 1 = 2
    OBVIOUS
  <2> QED
    BY <2>1, <2>2 DEF Resumed
<1>6. \A b \in Begun(k) : \E W, n : /\ Tale(k, b, W, n) /\ (k # "zygote" => n > 1)
                                    /\ "watchdog.kill" \notin W /\ "exit.observed" \notin W
  <2>1. CASE k = "run"
    <3>1. \A b \in Begun(k) : b = Refused \/ b = Injected
      BY <2>1, Stories
    <3> QED
      BY <1>3, <1>4, <3>1
  <2>2. CASE k = "resume"
    <3>1. \A b \in Begun(k) : b = Resumed
      BY <2>2, Stories
    <3> QED
      BY <1>5, <3>1
  <2>3. CASE k = "zygote"
    <3>1. \A b \in Begun(k) : b = Booted
      BY <2>3, Stories
    <3> QED
      BY <1>1, <2>3, <3>1
  <2> QED
    BY <2>1, <2>2, <2>3
<1>7. \A d \in Begun(k) \cup Killed(k) : \E W, n : Tale(k, d, W, n) /\ "exit.observed" \notin W
  <2>1. SUFFICES ASSUME NEW b \in Begun(k)
                 PROVE  \E W, n : Tale(k, Append(b, "watchdog.kill"), W, n) /\ "exit.observed" \notin W
    BY <1>6 DEF Killed
  <2>2. PICK W, n : /\ Tale(k, b, W, n) /\ (k # "zygote" => n > 1)
                    /\ "watchdog.kill" \notin W /\ "exit.observed" \notin W
    BY <1>6
  <2>3. "watchdog.kill" \in Kinds \ W
    BY <2>2 DEF Kinds
  <2>4. Tale(k, Append(b, "watchdog.kill"), W \cup {"watchdog.kill"}, n + 1)
    BY <2>2, <2>3, TaleGoesOn
  <2> QED
    BY <2>2, <2>4
<1>8. \A d \in Begun(k) \cup Killed(k) : \E W, n : Tale(k, Append(d, "exit.observed"), W, n)
  <2>1. TAKE d \in Begun(k) \cup Killed(k)
  <2>2. PICK W, n : Tale(k, d, W, n) /\ "exit.observed" \notin W
    BY <1>7
  <2>3. "exit.observed" \in Kinds \ W
    BY <2>2 DEF Kinds
  <2>4. Tale(k, Append(d, "exit.observed"), W \cup {"exit.observed"}, n + 1)
    BY <2>2, <2>3, TaleGoesOn
  <2> QED
    BY <2>4
<1>9. \/ e \in {<<>>, Booted, Greeted, Injected} \/ e \in Begun(k) \cup Killed(k)
      \/ \E d \in Begun(k) \cup Killed(k) : e = Append(d, "exit.observed")
  BY DEF Stages, Unbooted, Told
<1> QED
  BY <1>0, <1>1, <1>2, <1>3, <1>7, <1>8, <1>9

\* Where the stories of the two sessions stand.
LEMMA StoriesAreStages ==
  ASSUME IInv, NEW s \in Session
  PROVE  \E k \in {"run", "zygote", "resume"} :
            events[s] \in Stages(k) /\ (k = "zygote" => kind = "zygote")
<1>1. /\ kind \in {"run", "zygote", "resume"} /\ cur \in Session
      /\ host \in {"booting", "awaiting guest", "injecting", "after inject", "awaiting exec",
                   "settling", "waiting", "observed", "judging", "returned"}
  BY TypeParts DEF IInv, HostTyped
<1>2. CASE s = cur
  <2>1. events[cur] \in Stages(kind)
    BY <1>1 DEF IInv, Story, Stages, Unbooted
  <2> QED
    BY <1>1, <1>2, <2>1
<1>3. CASE s # cur
  <2>1. (s = 2 /\ cur = 1) \/ (s = 1 /\ cur = 2)
    BY <1>1, <1>3, TwoSessions
  <2>2. events[s] \in Stages("resume")
    BY <2>1 DEF IInv, OtherSession, Stages, Unbooted
  <2> QED
    BY <2>2
<1> QED
  BY <1>2, <1>3

LEMMA StoryIsTold == IInv => EventsTellTheStory
<1> SUFFICES ASSUME IInv, NEW s \in Session
             PROVE  LET e == events[s]
                        At(k) == {i \in DOMAIN e : e[i] = k}
                    IN  /\ At("boot.started") \subseteq {1}
                        /\ At("exit.observed") \subseteq {Len(e)}
                        /\ \A k \in ToSet(e) : \E i \in DOMAIN e : At(k) = {i}
                        /\ \A i \in At("watchdog.kill") : kind # "zygote" => i > 2
  BY DEF EventsTellTheStory
<1> DEFINE e == events[s]
<1> DEFINE At(k) == {i \in DOMAIN e : e[i] = k}
<1>1. PICK k \in {"run", "zygote", "resume"} : e \in Stages(k) /\ (k = "zygote" => kind = "zygote")
  BY StoriesAreStages
<1>2. PICK W, n : Tale(k, e, W, n)
  BY <1>1, StagesAreTales
<1>3. DOMAIN e = 1..n /\ Len(e) = n
  BY <1>2 DEF Tale
<1>4. \A i \in 1..n : /\ e[i] = "boot.started" => i = 1
                      /\ e[i] = "exit.observed" => i = n
                      /\ e[i] = "watchdog.kill" /\ k # "zygote" => i > 2
                      /\ \A j \in 1..n : e[i] = e[j] => i = j
  BY <1>2 DEF Tale
<1>5. \A x \in ToSet(e) : \E i \in DOMAIN e : At(x) = {i}
  <2>1. TAKE x \in ToSet(e)
  <2>2. PICK i \in DOMAIN e : e[i] = x
    BY <2>1 DEF ToSet
  <2>3. At(x) = {i}
    BY <1>3, <1>4, <2>2
  <2> QED
    BY <2>2, <2>3
<1>6. /\ At("boot.started") \subseteq {1} /\ At("exit.observed") \subseteq {Len(e)}
      /\ \A i \in At("watchdog.kill") : kind # "zygote" => i > 2
  BY <1>1, <1>3, <1>4
<1> QED
  BY <1>5, <1>6

\* A story that was told to its end ends with the exit.
LEMMA ToldToTheEnd ==
  ASSUME NEW k \in {"run", "zygote", "resume"}, NEW e \in Told(k)
  PROVE  Last(e) = "exit.observed"
<1>1. PICK d \in Begun(k) \cup Killed(k) : e = Append(d, "exit.observed")
  BY DEF Told
<1>2. PICK W, n : Tale(k, d, W, n)
  BY <1>1, StagesAreTales DEF Stages
<1>3. d \in Seq(Kinds) /\ "exit.observed" \in Kinds
  BY <1>2 DEF Tale, Kinds
<1> QED
  BY <1>1, <1>3 DEF Last

LEMMA ExitIsTold == IInv => ExitIsObserved
<1> SUFFICES ASSUME IInv, NEW s \in opened, host = "returned" \/ s # cur, kind = "zygote" => snapshot = "whole"
             PROVE  s \in asked /\ Last(events[s]) = "exit.observed"
  BY DEF ExitIsObserved
<1>1. kind \in {"run", "zygote", "resume"} /\ cur \in Session /\ s \in Session
  BY TypeParts DEF IInv, HostTyped, MachineTyped
<1>2. CASE s = cur
  <2>1. cur \in asked /\ events[cur] \in Told(kind)
    BY <1>2 DEF IInv, Story
  <2> QED
    BY <1>1, <1>2, <2>1, ToldToTheEnd
<1>3. CASE s # cur
  <2>1. s = 1 /\ cur = 2
    BY <1>1, <1>3, TwoSessions DEF IInv, OtherSession
  <2>2. 1 \in asked /\ events[1] \in Told("resume")
    BY <2>1 DEF IInv, OtherSession
  <2> QED
    BY <2>1, <2>2, ToldToTheEnd
<1> QED
  BY <1>2, <1>3

-----------------------------------------------------------------------------
(***************************************************************************)
(* Theorems                                                                *)
(***************************************************************************)

\* The variables keep their types, whatever is told in a session: vm.go, main.go.
THEOREM TypeCorrect == Spec => []TypeOK
<1>1. IInv => TypeOK
  BY DEF IInv
<1> QED
  BY <1>1, SpecIInv, PTL

\* A command returns ok only for what it was asked to do (runWithRuntime, newVMRunRunner,
\* ResumeWithHook, cmdVMZygote).
THEOREM OkMeansDone == Spec => []OkIsEarned
<1>1. IInv => OkIsEarned
  <2> SUFFICES ASSUME IInv, verdict = "ok"
               PROVE  CASE kind = "run"    -> /\ script /\ Completed /\ cause = "none"
                                              /\ cmd = "tool" => tool
                                              /\ serial = "rc1" => tool
                        [] kind = "zygote" -> latest = 2
                        [] kind = "resume" -> ~Alive(1)
    BY DEF OkIsEarned
  <2>1. kind \in {"run", "zygote", "resume"}
    BY TypeParts DEF IInv, HostTyped
  <2>2. CASE kind = "run"
    BY <2>2 DEF IInv, Earned
  <2>3. CASE kind = "zygote"
    BY <2>3 DEF IInv, Earned
  <2>4. CASE kind = "resume"
    BY <2>4 DEF IInv, Earned
  <2> QED
    BY <2>1, <2>2, <2>3, <2>4
<1> QED
  BY <1>1, SpecIInv, PTL

\* Nothing names a snapshot that was not taken whole (ZygoteWithHook, cmdVMZygote).
THEOREM OnlyWholeSnapshotsAreNamed == Spec => []RecordedSnapshotIsWhole
<1>1. IInv => RecordedSnapshotIsWhole
  BY DEF IInv
<1> QED
  BY <1>1, SpecIInv, PTL

\* The hook is told one story in each session: the boot first, the exit last, nothing twice
\* and no kill before the work is done or given up (the emitEvent calls of vm.go).
THEOREM HookHearsOneStory == Spec => []EventsTellTheStory
BY StoryIsTold, SpecIInv, PTL

\* No session that the host was given is left without its VMM asked to stop and its exit told,
\* but for that of a snapshot that failed (waitMachineWithWatchdogDeps, cmdVMResume).  Of a
\* VMM that a failed start has launched nothing is said: the host never holds it.
THEOREM NoExitIsMissed == Spec => []ExitIsObserved
BY ExitIsTold, SpecIInv, PTL

=============================================================================
