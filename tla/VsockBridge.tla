---------------------------- MODULE VsockBridge ----------------------------
(***************************************************************************)
(* How the host reaches the tool agent in the guest: runAgentdTool in      *)
(* src/cmd/virmux/main.go over DialWithRetry, Dial and                     *)
(* sendConnectAndReadAck in src/internal/transport/vsock/vsock.go, and the *)
(* agent's main in src/cmd/virmux-agentd/main.go with ServeConn in         *)
(* src/internal/agentd/server/server.go.  Between them is Firecracker's    *)
(* vsock device, which is not in this repository: a Unix socket on the     *)
(* host, on which "CONNECT port" is answered once the guest's kernel has   *)
(* taken the connection.                                                   *)
(*                                                                         *)
(* The agent accepts one connection in its life.  The guest's kernel takes *)
(* more: they wait in the listener's queue until the agent exits.          *)
(*                                                                         *)
(* Time is not counted: a timer is an action that may happen whenever it   *)
(* is set.                                                                 *)
(***************************************************************************)
EXTENDS Naturals, Sequences

CONSTANTS
  MaxAttempts, \* RetryPolicy.MaxAttempts
  Requests     \* requests made on the connection: the tool, then the files it left

ASSUME BridgeAssumption == MaxAttempts \in Nat \ {0} /\ Requests \in Nat \ {0}

Attempt == 1..MaxAttempts

VARIABLES
  host,     \* where runAgentdTool is
  attempt,  \* the attempt of DialWithRetry, which names its connection too
  asked,    \* requests sent
  verdict,  \* what runAgentdTool returns
  expired,  \* the deadline of toolCtx has passed
  uds,      \* the VMM's Unix socket exists
  conn,     \* each connection: "none", "open" (CONNECT sent), "linked" or "closed"
  toHost,   \* what each connection holds for the host
  toAgent,  \* what each connection holds for the agent
  backlog,  \* linked connections the agent has not accepted
  agent,    \* "booting", "listening", "greeting", "serving" or "exited"
  served    \* the connection the agent accepted, 0 before

hostVars == <<host, attempt, asked, verdict>>
guestVars == <<backlog, agent, served>>
vars == <<hostVars, expired, uds, conn, toHost, toAgent, guestVars>>

Init ==
  /\ host = "dialing" /\ attempt = 1 /\ asked = 0 /\ verdict = "none"
  /\ expired = FALSE
  /\ uds = FALSE
  /\ conn = [k \in Attempt |-> "none"]
  /\ toHost = [k \in Attempt |-> <<>>]
  /\ toAgent = [k \in Attempt |-> <<>>]
  /\ backlog = <<>> /\ agent = "booting" /\ served = 0

AtEnd(k) == conn[k] = "closed" /\ toHost[k] = <<>>

(***************************************************************************)
(* The host                                                                *)
(***************************************************************************)

\* DialWithRetry after a failed attempt that may be repeated.
TryAgainForever == "sleeping"
RetryOrGiveUp == IF attempt = MaxAttempts THEN "failed" ELSE "sleeping"

Retry ==
  /\ host' = RetryOrGiveUp
  /\ verdict' = IF host' = "failed" THEN "exhausted" ELSE verdict
  /\ UNCHANGED <<attempt, asked>>

\* Leave runAgentdTool; the deferred Close runs.
Leave(v) ==
  /\ host' = IF v = "ok" THEN "done" ELSE "failed"
  /\ verdict' = v
  /\ conn' = [conn EXCEPT ![attempt] = "closed"]
  /\ UNCHANGED <<attempt, asked>>

\* The dial of the Unix socket, and CONNECT on it.
Connect ==
  /\ host = "dialing"
  /\ uds /\ ~expired
  /\ conn' = [conn EXCEPT ![attempt] = "open"]
  /\ host' = "acking"
  /\ UNCHANGED <<attempt, asked, verdict, expired, uds, toHost, toAgent, guestVars>>

\* No socket yet, or no time left: both may be repeated (vsock.go:153, 166).
ConnectFails ==
  /\ host = "dialing"
  /\ ~uds \/ expired
  /\ Retry
  /\ UNCHANGED <<expired, uds, conn, toHost, toAgent, guestVars>>

\* The ack comes in one read of a bufio.Reader that is then dropped, with
\* whatever else had arrived.  The agent's banner comes next.
NoHandshake == "ready"
Handshake == "banner"

ReadAck ==
  /\ host = "acking"
  /\ toHost[attempt] # <<>>
  /\ IF Head(toHost[attempt]) = "OK"
     THEN /\ host' = Handshake
          /\ toHost' = [toHost EXCEPT ![attempt] = <<>>]
          /\ UNCHANGED <<attempt, asked, verdict, conn>>
     ELSE Leave("bad ack") /\ UNCHANGED toHost
  /\ UNCHANGED <<expired, uds, toAgent, guestVars>>

\* The two seconds of an attempt are over, or the stream ends: close and repeat.
KeepTheConnection == conn
HungUp == [conn EXCEPT ![attempt] = "closed"]

AckFails ==
  /\ host = "acking"
  /\ conn' = HungUp
  /\ Retry
  /\ UNCHANGED <<expired, uds, toHost, toAgent, guestVars>>

SameAttempt == attempt
NextAttempt == attempt + 1

WakeUp ==
  /\ host = "sleeping"
  /\ attempt' = NextAttempt
  /\ host' = "dialing"
  /\ UNCHANGED <<asked, verdict, expired, uds, conn, toHost, toAgent, guestVars>>

GiveUpSleeping ==
  /\ host = "sleeping"
  /\ expired
  /\ host' = "failed"
  /\ verdict' = "deadline"
  /\ UNCHANGED <<attempt, asked, expired, uds, conn, toHost, toAgent, guestVars>>

\* reader.ReadString for the banner: no deadline is set on the connection.
ReadBanner ==
  /\ host = "banner"
  /\ toHost[attempt] # <<>>
  /\ IF Head(toHost[attempt]) = "READY"
     THEN /\ toHost' = [toHost EXCEPT ![attempt] = Tail(@)]
          /\ host' = "ready"
          /\ UNCHANGED <<attempt, asked, verdict, conn>>
     ELSE Leave("bad banner") /\ UNCHANGED toHost
  /\ UNCHANGED <<expired, uds, toAgent, guestVars>>

NoBanner ==
  /\ host = "banner"
  /\ AtEnd(attempt)
  /\ Leave("end of stream")
  /\ UNCHANGED <<expired, uds, toHost, toAgent, guestVars>>

\* vm.agent.ready is emitted, then the request goes out.
Ask ==
  /\ host = "ready"
  /\ conn[attempt] = "linked"
  /\ toAgent' = [toAgent EXCEPT ![attempt] = Append(@, "request")]
  /\ asked' = asked + 1
  /\ host' = "calling"
  /\ UNCHANGED <<attempt, verdict, expired, uds, conn, toHost, guestVars>>

\* vm.agent.ready or vm.tool.result could not be recorded, or a write failed.
Abort ==
  /\ host = "ready"
  /\ Leave("error")
  /\ UNCHANGED <<expired, uds, toHost, toAgent, guestVars>>

\* Client.Call returns; another request follows, or the result is recorded.
TakeResponse ==
  /\ host = "calling"
  /\ toHost[attempt] # <<>>
  /\ toHost' = [toHost EXCEPT ![attempt] = Tail(@)]
  /\ IF asked < Requests
     THEN host' = "ready" /\ UNCHANGED <<attempt, asked, verdict, conn>>
     ELSE Leave("ok")
  /\ UNCHANGED <<expired, uds, toAgent, guestVars>>

CallFails ==
  /\ host = "calling"
  /\ expired \/ AtEnd(attempt)
  /\ Leave(IF expired THEN "deadline" ELSE "end of stream")
  /\ UNCHANGED <<expired, uds, toHost, toAgent, guestVars>>

Deadline ==
  /\ ~expired
  /\ expired' = TRUE
  /\ UNCHANGED <<hostVars, uds, conn, toHost, toAgent, guestVars>>

(***************************************************************************)
(* The VMM and the guest's kernel                                          *)
(***************************************************************************)
CreateSocket ==
  /\ ~uds
  /\ uds' = TRUE
  /\ UNCHANGED <<hostVars, expired, conn, toHost, toAgent, guestVars>>

\* The agent's listener takes the connection; accepted or not, it is acknowledged.
Link(k) ==
  /\ conn[k] = "open"
  /\ agent \notin {"booting", "exited"}
  /\ conn' = [conn EXCEPT ![k] = "linked"]
  /\ toHost' = [toHost EXCEPT ![k] = Append(@, "OK")]
  /\ backlog' = Append(backlog, k)
  /\ UNCHANGED <<hostVars, expired, uds, toAgent, agent, served>>

\* Nobody listens: the VMM closes the connection.
Refuse(k) ==
  /\ conn[k] = "open"
  /\ agent \in {"booting", "exited"}
  /\ conn' = [conn EXCEPT ![k] = "closed"]
  /\ UNCHANGED <<hostVars, expired, uds, toHost, toAgent, guestVars>>

\* Something other than OK.
AnswerOddly(k) ==
  /\ conn[k] = "open"
  /\ toHost[k] = <<>>
  /\ toHost' = [toHost EXCEPT ![k] = <<"NOPE">>]
  /\ UNCHANGED <<hostVars, expired, uds, conn, toAgent, guestVars>>

(***************************************************************************)
(* The agent                                                               *)
(***************************************************************************)
Listen ==
  /\ agent = "booting"
  /\ agent' = "listening"
  /\ UNCHANGED <<hostVars, expired, uds, conn, toHost, toAgent, backlog, served>>

Accept ==
  /\ agent = "listening"
  /\ backlog # <<>>
  /\ served' = Head(backlog)
  /\ backlog' = Tail(backlog)
  /\ agent' = "greeting"
  /\ UNCHANGED <<hostVars, expired, uds, conn, toHost, toAgent>>

\* The process ends, and with it every connection its listener or it held.
Exit ==
  /\ agent' = "exited"
  /\ conn' = [k \in Attempt |-> IF conn[k] = "linked" THEN "closed" ELSE conn[k]]
  /\ backlog' = <<>>
  /\ UNCHANGED <<hostVars, expired, uds, toHost, toAgent, served>>

Greet ==
  /\ agent = "greeting"
  /\ conn[served] = "linked"
  /\ toHost' = [toHost EXCEPT ![served] = Append(@, "READY")]
  /\ agent' = "serving"
  /\ UNCHANGED <<hostVars, expired, uds, conn, toAgent, backlog, served>>

Respond ==
  /\ agent = "serving"
  /\ toAgent[served] # <<>>
  /\ conn[served] = "linked"
  /\ toAgent' = [toAgent EXCEPT ![served] = Tail(@)]
  /\ toHost' = [toHost EXCEPT ![served] = Append(@, "response")]
  /\ UNCHANGED <<hostVars, expired, uds, conn, guestVars>>

\* The host has closed the connection: ServeConn returns, and main with it.
IgnoreTheEnd == FALSE
HostIsGone == agent \in {"greeting", "serving"} /\ conn[served] = "closed"

SeeEnd ==
  /\ HostIsGone
  /\ Exit

\* The guest stops, or a request, a response or the tool ends ServeConn.
Crash ==
  /\ agent # "exited"
  /\ Exit

\* AfterInject has returned: the VMM is stopped (vm.go:905, 917).
StopVMM ==
  /\ host \in {"done", "failed"}
  /\ agent # "exited"
  /\ Exit

-----------------------------------------------------------------------------
Dial == Connect \/ ConnectFails \/ ReadAck \/ AckFails \/ WakeUp \/ GiveUpSleeping
Converse == ReadBanner \/ NoBanner \/ Ask \/ Abort \/ TakeResponse \/ CallFails
Vmm == CreateSocket \/ \E k \in Attempt : Link(k) \/ Refuse(k)
Agent == Listen \/ Accept \/ Greet \/ Respond \/ SeeEnd

\* The run is over.
Finished == host \in {"done", "failed"} /\ agent = "exited" /\ UNCHANGED vars

Next ==
  \/ Dial \/ Converse \/ Deadline
  \/ Vmm \/ \E k \in Attempt : AnswerOddly(k)
  \/ Agent \/ Crash \/ StopVMM
  \/ Finished

Spec == Init /\ [][Next]_vars

\* Goroutines, the VMM and the guest run; the deadline passes.  Nobody owes a crash or an
\* odd answer.
Fairness ==
  /\ WF_vars(Dial) /\ WF_vars(Converse) /\ WF_vars(Deadline)
  /\ WF_vars(Vmm) /\ WF_vars(Agent) /\ WF_vars(StopVMM)

FairSpec == Spec /\ Fairness
-----------------------------------------------------------------------------
\* The types.  The agent serves at most the connections that were made.
TypeOK ==
  /\ host \in {"dialing", "acking", "sleeping", "banner", "ready", "calling", "done", "failed"}
  /\ attempt \in Attempt
  /\ asked \in 0..Requests
  /\ verdict \in {"none", "ok", "exhausted", "bad ack", "bad banner", "deadline",
                  "end of stream", "error"}
  /\ expired \in BOOLEAN /\ uds \in BOOLEAN
  /\ conn \in [Attempt -> {"none", "open", "linked", "closed"}]
  /\ toHost \in [Attempt -> Seq({"OK", "NOPE", "READY", "response"})]
  /\ toAgent \in [Attempt -> Seq({"request"})]
  /\ backlog \in Seq(Attempt)
  /\ agent \in {"booting", "listening", "greeting", "serving", "exited"}
  /\ served \in 0..attempt

\* A result is the result of the agent's only conversation: whatever attempts timed out
\* before, and whatever the listener's queue acknowledged, the host speaks with the agent
\* on the connection the agent accepted (main.go:209-243, agentd main.go:37).
SpeaksWithTheAgent ==
  host \in {"ready", "calling", "done"} => served = attempt

\* Every connection of an attempt that failed is closed when the next one starts, and
\* none stays open when the bridge returns (vsock.go:54, main.go:208).
NoConnectionIsLeft ==
  \A k \in Attempt :
    k < attempt \/ host \in {"sleeping", "done", "failed"} => conn[k] \in {"none", "closed"}

\* The dial is bounded, by its attempts if not by its deadline (vsock.go:77-95).
DialReturns == host = "dialing" ~> host \in {"banner", "done", "failed"}

\* While the banner is still to be written or to be read, the host gets past it, with no
\* help from the deadline: an agent that serves another connection exits, which ends
\* this one (main.go:209-213).
BannerWaitEnds ==
  host = "banner" /\ ~(agent = "serving" /\ served = attempt /\ toHost[attempt] = <<>>)
    ~> host # "banner"

\* Neither of the two waits of the host that has no request under way lasts for ever.
BridgeMakesProgress == DialReturns /\ BannerWaitEnds

\* The bridge returns, at the latest some time after the deadline it was given
\* (main.go:170: toolCtx).
BridgeReturns == <>(host \in {"done", "failed"})
=============================================================================
