------------------------------ MODULE RpcMux ------------------------------
(***************************************************************************)
(* The request multiplexer between the host and the tool agent in the      *)
(* guest: Client.Call and Client.readLoop in                               *)
(* src/internal/transport/rpc/mux.go, the frames of frame.go in the same   *)
(* directory, and the agent's loop ServeConn in                            *)
(* src/internal/agentd/server/server.go, joined by one byte stream in each *)
(* direction.                                                              *)
(*                                                                         *)
(* A frame is two writes, a length and a body.  Callers share no lock      *)
(* around the two, so a stream towards the agent is a sequence of such     *)
(* parts.  The agent alone writes in the other direction, and a response   *)
(* is one element there.                                                   *)
(***************************************************************************)
EXTENDS Naturals, Sequences

CONSTANTS
  Call,       \* the calls made on one client, each by a goroutine of its own
  ReqId,      \* request ids
  Assignments, \* the ids the calls may carry, as functions from a call to its id
  Impatient,  \* the calls whose context may end
  CanHangUp,  \* whether the agent may stop on its own, or fail to send a response
  None        \* no call: nil

\* What a call returns without a response.
Results == {"none", "in use", "write error", "stopped", "timeout"}

ASSUME MuxAssumption ==
  /\ Assignments \subseteq [Call -> ReqId]
  /\ Impatient \subseteq Call
  /\ None \notin Call
  /\ Call \cap (Results \cup {"reading", "gone"}) = {}
  /\ CanHangUp \in BOOLEAN

VARIABLES
  idOf,       \* the id each call carries; never changes
  at,         \* where each call is
  result,     \* what each call returns
  pending,    \* the client's map from an id to the call that awaits it
  inbox,      \* each call's channel of one response; a response is named by its request
  frames,     \* parts of frames on their way to the agent
  toClient,   \* responses on their way to the client
  serving,    \* the agent's loop: the call it serves, "reading" or "gone"
  reader,     \* readLoop: "reading", "matching", "sending" or "gone"
  inHand,     \* the response readLoop has read
  target,     \* the channel readLoop found for it
  stopped     \* stopCh is closed

muxVars == <<idOf, at, result, pending, inbox, frames, toClient, serving, reader, inHand, target, stopped>>

Under(c) == at[c] \notin {"idle", "returned"}

\* Every call has an id of its own.
Distinct == \A c, d \in Call : idOf[c] = idOf[d] => c = d

MuxInit ==
  /\ idOf \in Assignments
  /\ at = [c \in Call |-> "idle"]
  /\ result = [c \in Call |-> "none"]
  /\ pending = [i \in ReqId |-> None]
  /\ inbox = [c \in Call |-> None]
  /\ frames = <<>>
  /\ toClient = <<>>
  /\ serving = "reading"
  /\ reader = "reading"
  /\ inHand = None
  /\ target = None
  /\ stopped = FALSE

(***************************************************************************)
(* Client.Call                                                             *)
(***************************************************************************)

\* The id is looked up and claimed under the lock; a claimed id is refused.
RefuseNothing(c) == TRUE
IsFree(c) == pending[idOf[c]] = None

Start(c) ==
  /\ at[c] = "idle"
  /\ IF IsFree(c)
     THEN /\ pending' = [pending EXCEPT ![idOf[c]] = c]
          /\ at' = [at EXCEPT ![c] = "claimed"]
          /\ UNCHANGED result
     ELSE /\ at' = [at EXCEPT ![c] = "returned"]
          /\ result' = [result EXCEPT ![c] = "in use"]
          /\ UNCHANGED pending
  /\ UNCHANGED <<idOf, inbox, frames, toClient, serving, reader, inHand, target, stopped>>

\* Leave the body of Call with a result; the deferred delete is still to come.
Conclude(c, r) ==
  /\ at' = [at EXCEPT ![c] = "leaving"]
  /\ result' = [result EXCEPT ![c] = r]

\* The two writes of WriteFrame.
WriteHead(c) ==
  /\ at[c] = "claimed"
  /\ frames' = Append(frames, <<"head", c>>)
  /\ at' = [at EXCEPT ![c] = "writing"]
  /\ UNCHANGED <<idOf, result, pending, inbox, toClient, serving, reader, inHand, target, stopped>>

WriteBody(c) ==
  /\ at[c] = "writing"
  /\ frames' = Append(frames, <<"body", c>>)
  /\ at' = [at EXCEPT ![c] = "waiting"]
  /\ UNCHANGED <<idOf, result, pending, inbox, toClient, serving, reader, inHand, target, stopped>>

\* A write fails once the agent has gone.
WriteFails(c) ==
  /\ at[c] \in {"claimed", "writing"}
  /\ serving = "gone"
  /\ Conclude(c, "write error")
  /\ UNCHANGED <<idOf, pending, inbox, frames, toClient, serving, reader, inHand, target, stopped>>

\* The three branches of the select; any that is ready may be taken.
Receive(c) ==
  /\ at[c] = "waiting"
  /\ inbox[c] # None
  /\ Conclude(c, inbox[c])
  /\ inbox' = [inbox EXCEPT ![c] = None]
  /\ UNCHANGED <<idOf, pending, frames, toClient, serving, reader, inHand, target, stopped>>

SeeStop(c) ==
  /\ at[c] = "waiting"
  /\ stopped
  /\ Conclude(c, "stopped")
  /\ UNCHANGED <<idOf, pending, inbox, frames, toClient, serving, reader, inHand, target, stopped>>

TimeOut(c) ==
  /\ at[c] = "waiting"
  /\ c \in Impatient
  /\ Conclude(c, "timeout")
  /\ UNCHANGED <<idOf, pending, inbox, frames, toClient, serving, reader, inHand, target, stopped>>

\* The deferred delete goes by id.
Unclaimed(c) == [pending EXCEPT ![idOf[c]] = None]

Finish(c) ==
  /\ at[c] = "leaving"
  /\ pending' = Unclaimed(c)
  /\ at' = [at EXCEPT ![c] = "returned"]
  /\ UNCHANGED <<idOf, result, inbox, frames, toClient, serving, reader, inHand, target, stopped>>

\* Client.Close, by whoever holds the client; once.
CloseClient ==
  /\ ~stopped
  /\ stopped' = TRUE
  /\ UNCHANGED <<idOf, at, result, pending, inbox, frames, toClient, serving, reader, inHand, target>>

(***************************************************************************)
(* Client.readLoop                                                         *)
(***************************************************************************)

\* stopCh is looked at before every frame.
ReaderStops ==
  /\ reader = "reading"
  /\ stopped
  /\ reader' = "gone"
  /\ UNCHANGED <<idOf, at, result, pending, inbox, frames, toClient, serving, inHand, target, stopped>>

ReadResponse ==
  /\ reader = "reading"
  /\ ~stopped
  /\ toClient # <<>>
  /\ inHand' = Head(toClient)
  /\ toClient' = Tail(toClient)
  /\ reader' = "matching"
  /\ UNCHANGED <<idOf, at, result, pending, inbox, frames, serving, target, stopped>>

\* End of the stream: the client is closed for every call.
LeaveCallersWaiting == stopped
StopAll == TRUE

ReadEnd ==
  /\ reader = "reading"
  /\ toClient = <<>>
  /\ serving = "gone"
  /\ stopped' = StopAll
  /\ reader' = "gone"
  /\ UNCHANGED <<idOf, at, result, pending, inbox, frames, toClient, serving, inHand, target>>

\* The channel is looked up under the lock and used after it.
MatchAnyWaiter(r) ==
  IF \E c \in Call : at[c] = "waiting" THEN CHOOSE c \in Call : at[c] = "waiting" ELSE None
Match(r) == pending[idOf[r]]

\* Nobody waits for the id: the response is dropped.
SendAnyway(ch) == "sending"
NilChecked(ch) == IF ch = None THEN "reading" ELSE "sending"

MatchResponse ==
  /\ reader = "matching"
  /\ target' = Match(inHand)
  /\ reader' = NilChecked(target')
  /\ inHand' = IF target' = None THEN None ELSE inHand
  /\ UNCHANGED <<idOf, at, result, pending, inbox, frames, toClient, serving, stopped>>

\* The channel holds one response, whether or not its call still waits.
OnlyToAWaiter == inbox[target] = None /\ at[target] = "waiting"
HasRoom == inbox[target] = None

SendResponse ==
  /\ reader = "sending"
  /\ HasRoom
  /\ inbox' = [inbox EXCEPT ![target] = inHand]
  /\ reader' = "reading"
  /\ inHand' = None
  /\ target' = None
  /\ UNCHANGED <<idOf, at, result, pending, frames, toClient, serving, stopped>>

(***************************************************************************)
(* The agent: one request at a time, in the order it reads them.           *)
(***************************************************************************)

ReadRequest ==
  /\ serving = "reading"
  /\ Len(frames) >= 2
  /\ frames[2] = <<"body", frames[1][2]>>
  /\ serving' = frames[1][2]
  /\ frames' = Tail(Tail(frames))
  /\ UNCHANGED <<idOf, at, result, pending, inbox, toClient, reader, inHand, target, stopped>>

\* The bytes after a length begin with the length of another frame: no JSON starts
\* like that, and ServeConn returns.
ReadGarbage ==
  /\ serving = "reading"
  /\ Len(frames) >= 3
  /\ frames[2][1] = "head"
  /\ serving' = "gone"
  /\ UNCHANGED <<idOf, at, result, pending, inbox, frames, toClient, reader, inHand, target, stopped>>

Answer ==
  /\ serving \in Call
  /\ toClient' = Append(toClient, serving)
  /\ serving' = "reading"
  /\ UNCHANGED <<idOf, at, result, pending, inbox, frames, reader, inHand, target, stopped>>

\* The guest stops, or the response exceeds MaxFrameBytes and ServeConn returns.
HangUp ==
  /\ CanHangUp
  /\ serving # "gone"
  /\ serving' = "gone"
  /\ UNCHANGED <<idOf, at, result, pending, inbox, frames, toClient, reader, inHand, target, stopped>>

-----------------------------------------------------------------------------
CallStep(c) ==
  \/ WriteHead(c) \/ WriteBody(c) \/ WriteFails(c)
  \/ Receive(c) \/ SeeStop(c) \/ Finish(c)

Reader == ReaderStops \/ ReadResponse \/ ReadEnd \/ MatchResponse \/ SendResponse

ServeConn == ReadRequest \/ ReadGarbage \/ Answer

\* No call is under way and nobody owes a step: a client may stay like this.
Quiet == (\A c \in Call : ~Under(c)) /\ UNCHANGED muxVars

MuxNext ==
  \/ \E c \in Call : Start(c) \/ CallStep(c) \/ TimeOut(c)
  \/ CloseClient \/ Reader \/ ServeConn \/ HangUp \/ Quiet

MuxSpec == MuxInit /\ [][MuxNext]_muxVars

\* Goroutines that can run do, and the agent, while it lives, answers what it has read.
\* Nobody owes a call, a timeout, a close or a hang-up.
MuxFairness ==
  /\ \A c \in Call : WF_muxVars(CallStep(c))
  /\ WF_muxVars(Reader)
  /\ WF_muxVars(ServeConn)

FairMuxSpec == MuxSpec /\ MuxFairness
-----------------------------------------------------------------------------
\* The types; readLoop sends only to a channel it found (mux.go:112).
MuxTypeOK ==
  /\ (reader = "sending") = (target # None)
  /\ idOf \in Assignments
  /\ at \in [Call -> {"idle", "claimed", "writing", "waiting", "leaving", "returned"}]
  /\ result \in [Call -> Results \cup Call]
  /\ pending \in [ReqId -> Call \cup {None}]
  /\ inbox \in [Call -> Call \cup {None}]
  /\ frames \in Seq({"head", "body"} \X Call)
  /\ toClient \in Seq(Call)
  /\ serving \in {"reading", "gone"} \cup Call
  /\ reader \in {"reading", "matching", "sending", "gone"}
  /\ inHand \in Call \cup {None}
  /\ target \in Call \cup {None}
  /\ stopped \in BOOLEAN

\* A call under way owns the entry of its id, and no other call is in the map: the delete
\* by id (mux.go:63-67) never removes the entry of another call, whatever the order of
\* timeouts, refusals and reuses of an id.
OwnsItsEntry ==
  /\ \A c \in Call : Under(c) => pending[idOf[c]] = c
  /\ \A i \in ReqId : pending[i] # None => Under(pending[i])

\* Where ids are not reused, what a call returns is the response to its own request, in
\* every interleaving of calls, timeouts and late responses (mux.go:109-114).
OwnResponse ==
  Distinct => \A c \in Call : result[c] \in Call => result[c] = c

\* Where ids are not reused, readLoop, which every call depends on, is never held up by
\* the channel of a call that has gone (mux.go:112-114).
ReaderMovesOn == Distinct => []<>(reader # "sending")

\* Where ids are not reused, every call that starts returns, without a deadline of its
\* own: by its response, or by the end of the stream when the agent has gone or could
\* not read a request (mux.go:53-88).
EveryCallReturns == Distinct => \A c \in Call : at[c] = "claimed" ~> at[c] = "returned"

\* Calls made at the same time reach the agent as they were sent: the agent never reads a
\* length from one call and a body from another.
FramesArriveWhole ==
  Len(frames) >= 2 => frames[2] = <<"body", frames[1][2]>>
=============================================================================
