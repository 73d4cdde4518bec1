---------------------------- MODULE MCRunLedger ----------------------------
(***************************************************************************)
(* Instances of RunLedger for TLC.                                         *)
(***************************************************************************)
EXTENDS RunLedger

CONSTANTS g1, g2

FileList == <<"meta", "serial">>

\* vm-run with a tool: hook events of the VM around those of the tool bridge, all from
\* one goroutine.
VmScript == [g \in Goroutine |->
  IF g = g1 THEN <<"vm.guest.ready", "vm.agent.ready", "vm.tool.result", "vm.exit.observed">> ELSE <<>>]
Tooling == {"vm.agent.ready", "vm.tool.result"}
VmRun ==
  [script |-> VmScript,
   group |-> [e \in Range(VmScript[g1]) |-> IF e \in Tooling THEN "tool" ELSE "hook"],
   ignored |-> {}, tools |-> {"vm.tool.result"}]

\* Two tracks of a research run, whose emissions nobody looks at.
TrackScript == [g \in Goroutine |-> IF g = g1 THEN <<"a.started", "a.done">> ELSE <<"b.started", "b.done">>]
ResearchRun ==
  [script |-> TrackScript,
   group |-> [e \in Range(TrackScript[g1]) \cup Range(TrackScript[g2]) |-> "research"],
   ignored |-> {"research"}, tools |-> {}]

BothCommands == {VmRun, ResearchRun}
OnlyVmRun == {VmRun}
=============================================================================
