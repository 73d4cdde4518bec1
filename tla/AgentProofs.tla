---------------------------- MODULE AgentProofs ----------------------------
(***************************************************************************)
(* Theorems about the host's conversation with the tool agent: VsockBridge *)
(* (Part I), for any number of attempts and requests, and whatever times   *)
(* out, is refused or crashes; RpcMux (Part II), for every number of calls,*)
(* every assignment of ids to them and any set of calls whose context may  *)
(* end.  The two parts have nothing in common but this module.             *)
(***************************************************************************)
EXTENDS VsockBridge, RpcMux, TLAPS

-----------------------------------------------------------------------------
(***************************************************************************)
(* PART I: VsockBridge                                                     *)
(***************************************************************************)
Message == {"OK", "NOPE", "READY", "response"}
ToHost(k, m) == \E i \in 1 .. Len(toHost[k]) : toHost[k][i] = m

\* Connections are made one after the other, and the one that is tried is the only one that
\* may be open.
OneAtATime ==
  \A k \in Attempt :
    /\ k > attempt => conn[k] = "none"
    /\ k < attempt \/ host \in {"sleeping", "done", "failed"} => conn[k] \in {"none", "closed"}
    /\ k = attempt /\ host = "dialing" => conn[k] = "none"
    /\ conn[k] = "none" => toHost[k] = <<>>

\* What waits to be accepted was connected, and nothing was accepted before the agent did.
Queue ==
  /\ \A i \in 1 .. Len(backlog) : backlog[i] <= attempt
  /\ agent \in {"booting", "listening"} => served = 0
  /\ agent \in {"greeting", "serving"} => served # 0

\* The agent's words are on the connection it accepted, and only there.
OwnWords ==
  \A k \in Attempt : ToHost(k, "READY") \/ ToHost(k, "response") => served = k

\* Where the host is against its attempts and requests.
Progress ==
  /\ host = "sleeping" => attempt < MaxAttempts
  /\ host \in {"dialing", "acking", "sleeping", "banner", "ready"} => asked < Requests

\* The inductive invariant.
IInv == TypeOK /\ OneAtATime /\ Queue /\ OwnWords /\ Progress /\ SpeaksWithTheAgent

(***************************************************************************)
(* Lemmas about streams                                                    *)
(***************************************************************************)
LEMMA AppendSays ==
  ASSUME NEW S, NEW s \in Seq(S), NEW e \in S
  PROVE  /\ Append(s, e) \in Seq(S)
         /\ \A m : (\E i \in 1 .. Len(Append(s, e)) : Append(s, e)[i] = m)
                     => m = e \/ \E i \in 1 .. Len(s) : s[i] = m
<1>1. /\ Append(s, e) \in Seq(S) /\ Len(Append(s, e)) = Len(s) + 1 /\ Len(s) \in Nat
      /\ Append(s, e)[Len(s) + 1] = e /\ \A i \in 1 .. Len(s) : Append(s, e)[i] = s[i]
  OBVIOUS
<1>2. \A i \in 1 .. (Len(s) + 1) : i = Len(s) + 1 \/ i \in 1 .. Len(s)
  BY <1>1
<1> QED
  BY <1>1, <1>2

LEMMA TailSays ==
  ASSUME NEW S, NEW s \in Seq(S), s # <<>>
  PROVE  /\ Tail(s) \in Seq(S) /\ Head(s) \in S
         /\ \E i \in 1 .. Len(s) : s[i] = Head(s)
         /\ \A m : (\E i \in 1 .. Len(Tail(s)) : Tail(s)[i] = m) => \E i \in 1 .. Len(s) : s[i] = m
<1>1. /\ Tail(s) \in Seq(S) /\ Len(s) \in Nat /\ Len(s) # 0 /\ Len(Tail(s)) = Len(s) - 1 /\ Head(s) = s[1]
      /\ \A i \in 1 .. Len(Tail(s)) : Tail(s)[i] = s[i + 1]
  OBVIOUS
<1>2. 1 \in 1 .. Len(s) /\ \A i \in 1 .. Len(Tail(s)) : i + 1 \in 1 .. Len(s)
  BY <1>1
<1> QED
  BY <1>1, <1>2

(***************************************************************************)
(* What the types say                                                      *)
(***************************************************************************)
LEMMA AttemptsAreNumbers ==
  /\ MaxAttempts \in Nat /\ 1 \in Attempt
  /\ \A k : k \in Attempt <=> k \in Nat /\ k # 0 /\ k <= MaxAttempts
BY BridgeAssumption DEF Attempt

\* The attempt that is made, and the connection that is served.
LEMMA Numbers ==
  ASSUME TypeOK
  PROVE  /\ attempt \in Attempt /\ attempt \in Nat /\ attempt <= MaxAttempts /\ MaxAttempts \in Nat
         /\ served \in Nat /\ served <= attempt /\ (served # 0 => served \in Attempt)
         /\ \A k \in Attempt : k \in Nat /\ k # 0
<1>1. attempt \in Attempt /\ served \in 0 .. attempt
  BY DEF TypeOK
<1>2. attempt \in Nat /\ attempt <= MaxAttempts
  BY <1>1, AttemptsAreNumbers
<1>3. served \in Nat /\ served <= attempt
  BY <1>1, <1>2
<1>4. served # 0 => served \in Attempt
  BY <1>2, <1>3, AttemptsAreNumbers
<1> QED
  BY <1>1, <1>2, <1>3, <1>4, AttemptsAreNumbers

\* The conversation's part of the types, and the connections' part.
HostTyped ==
  /\ host \in {"dialing", "acking", "sleeping", "banner", "ready", "calling", "done", "failed"}
  /\ verdict \in {"none", "ok", "exhausted", "bad ack", "bad banner", "deadline", "end of stream", "error"}
  /\ expired \in BOOLEAN /\ uds \in BOOLEAN
  /\ agent \in {"booting", "listening", "greeting", "serving", "exited"}

CountsTyped == attempt \in Attempt /\ asked \in 0 .. Requests /\ served \in 0 .. attempt

ConnsTyped == conn \in [Attempt -> {"none", "open", "linked", "closed"}]

StreamsTyped ==
  /\ toHost \in [Attempt -> Seq(Message)] /\ toAgent \in [Attempt -> Seq({"request"})]
  /\ backlog \in Seq(Attempt)

LEMMA TypeParts == TypeOK <=> HostTyped /\ CountsTyped /\ ConnsTyped /\ StreamsTyped
BY DEF TypeOK, HostTyped, CountsTyped, ConnsTyped, StreamsTyped, Message

LEMMA TypePartsNext == TypeOK' <=> HostTyped' /\ CountsTyped' /\ ConnsTyped' /\ StreamsTyped'
BY DEF TypeOK, HostTyped, CountsTyped, ConnsTyped, StreamsTyped, Message

(***************************************************************************)
(* The invariant                                                           *)
(***************************************************************************)
LEMMA InitIInv == Init => IInv
<1>1. 1 \in Attempt /\ MaxAttempts \in Nat /\ Requests \in Nat \ {0}
  BY BridgeAssumption DEF Attempt
<1>2. Init => HostTyped /\ ConnsTyped
  BY DEF Init, HostTyped, ConnsTyped
<1>3. Init => CountsTyped
  BY <1>1 DEF Init, CountsTyped
<1>4. Init => StreamsTyped
  BY DEF Init, StreamsTyped, Message
<1>5. Init => TypeOK
  BY <1>2, <1>3, <1>4, TypeParts
<1> QED
  BY <1>1, <1>5 DEF Init, IInv, OneAtATime, Queue, OwnWords, ToHost, Progress, SpeaksWithTheAgent

\* A step that leaves the streams to the host alone.
LEMMA SilentKeepsWords ==
  ASSUME IInv, toHost' = toHost, served' = served
  PROVE  OwnWords'
BY DEF IInv, OwnWords, ToHost

\* The connection that was tried is closed, and no other is open.
LEMMA FailedIsClosed ==
  ASSUME IInv, conn' = [conn EXCEPT ![attempt] = "closed"], attempt' = attempt,
         host' # "dialing", \A k \in Attempt : k # attempt => toHost'[k] = toHost[k]
  PROVE  OneAtATime'
<1>1. attempt \in Attempt /\ attempt \in Nat /\ \A k \in Attempt : k \in Nat
  BY Numbers DEF IInv
<1>2. conn'[attempt] = "closed" /\ \A k \in Attempt : k # attempt => conn'[k] = conn[k]
  BY <1>1, TypeParts DEF IInv, ConnsTyped
<1> SUFFICES ASSUME NEW k \in Attempt
    PROVE  /\ k > attempt => conn'[k] = "none"
           /\ k < attempt \/ host' \in {"sleeping", "done", "failed"} => conn'[k] \in {"none", "closed"}
           /\ conn'[k] = "none" => toHost'[k] = <<>>
  BY DEF OneAtATime
<1>3. CASE k = attempt
  BY <1>1, <1>2, <1>3
<1>4. CASE k # attempt
  <2>1. /\ k > attempt => conn[k] = "none"
        /\ k < attempt => conn[k] \in {"none", "closed"}
        /\ conn[k] = "none" => toHost[k] = <<>>
    BY DEF IInv, OneAtATime
  <2>2. k < attempt \/ k > attempt
    BY <1>1, <1>4
  <2> QED
    BY <1>2, <1>4, <2>1, <2>2
<1> QED
  BY <1>3, <1>4

\* An attempt that fails before it is acknowledged.
LEMMA RetryKeeps ==
  ASSUME IInv, ConnectFails \/ AckFails
  PROVE  IInv'
<1>1. /\ host \in {"dialing", "acking"} /\ host' = IF attempt = MaxAttempts THEN "failed" ELSE "sleeping"
      /\ verdict' = IF host' = "failed" THEN "exhausted" ELSE verdict
      /\ conn' = conn \/ conn' = [conn EXCEPT ![attempt] = "closed"]
      /\ host = "acking" => conn' = [conn EXCEPT ![attempt] = "closed"]
      /\ UNCHANGED <<attempt, asked, expired, uds, toHost, toAgent, backlog, agent, served>>
  BY DEF ConnectFails, AckFails, Retry, RetryOrGiveUp, HungUp, guestVars
<1>2. attempt \in Attempt /\ attempt \in Nat /\ MaxAttempts \in Nat /\ attempt <= MaxAttempts
  BY Numbers DEF IInv
<1>3. TypeOK'
  <2>1. HostTyped' /\ ConnsTyped'
    BY <1>1, TypeParts DEF IInv, HostTyped, ConnsTyped
  <2>2. CountsTyped' /\ StreamsTyped'
    BY <1>1, TypeParts DEF IInv, CountsTyped, StreamsTyped
  <2> QED
    BY <2>1, <2>2, TypePartsNext
<1>4. OneAtATime'
  BY <1>1, <1>2, TypeParts DEF IInv, ConnsTyped, OneAtATime
<1>5. Queue' /\ Progress' /\ SpeaksWithTheAgent'
  BY <1>1, <1>2 DEF IInv, Queue, Progress, SpeaksWithTheAgent
<1> QED
  BY <1>1, <1>3, <1>4, <1>5, SilentKeepsWords DEF IInv

\* The other steps of a dial.
LEMMA DialKeeps ==
  ASSUME IInv, Connect \/ ReadAck \/ WakeUp \/ GiveUpSleeping
  PROVE  IInv'
<1>0. attempt \in Attempt /\ attempt \in Nat /\ MaxAttempts \in Nat /\ attempt <= MaxAttempts
  BY Numbers DEF IInv
<1>1. CASE Connect
  <2> USE <1>1 DEF Connect, guestVars
  <2>1. HostTyped' /\ CountsTyped' /\ ConnsTyped' /\ StreamsTyped'
    BY TypeParts DEF IInv, HostTyped, CountsTyped, ConnsTyped, StreamsTyped
  <2>3. OneAtATime'
    BY <1>0, TypeParts DEF IInv, ConnsTyped, OneAtATime
  <2>2. Queue' /\ Progress' /\ SpeaksWithTheAgent'
    BY DEF IInv, Queue, Progress, SpeaksWithTheAgent
  <2> QED
    BY <2>1, <2>2, <2>3, TypePartsNext, SilentKeepsWords DEF IInv
<1>2. CASE ReadAck
  <2>1. /\ host = "acking"
        /\ \/ host' = "banner" /\ toHost' = [toHost EXCEPT ![attempt] = <<>>] /\ verdict' = verdict /\ conn' = conn
           \/ host' = "failed" /\ toHost' = toHost /\ verdict' = "bad ack" /\ conn' = [conn EXCEPT ![attempt] = "closed"]
        /\ UNCHANGED <<attempt, asked, expired, uds, toAgent, backlog, agent, served>>
    BY <1>2 DEF ReadAck, Handshake, Leave, guestVars
  <2>2. \A k \in Attempt : toHost'[k] = toHost[k] \/ toHost'[k] = <<>>
    BY <2>1, TypeParts DEF IInv, StreamsTyped
  <2>3. StreamsTyped'
    <3>1. toHost \in [Attempt -> Seq(Message)] /\ << >> \in Seq(Message)
      BY TypeParts DEF IInv, StreamsTyped
    <3>2. [toHost EXCEPT ![attempt] = <<>>] \in [Attempt -> Seq(Message)]
      BY <3>1
    <3> QED
      BY <2>1, <3>1, <3>2, TypeParts DEF IInv, StreamsTyped
  <2>4. TypeOK'
    <3>1. HostTyped' /\ CountsTyped' /\ ConnsTyped'
      BY <2>1, TypeParts DEF IInv, HostTyped, CountsTyped, ConnsTyped
    <3> QED
      BY <2>3, <3>1, TypePartsNext
  <2>5. OneAtATime'
    <3>1. CASE host' = "banner"
      BY <1>0, <2>1, <2>2, <3>1 DEF IInv, OneAtATime
    <3>2. CASE host' = "failed"
      BY <1>0, <2>1, <3>2, FailedIsClosed
    <3> QED
      BY <2>1, <3>1, <3>2
  <2>6. Queue' /\ Progress' /\ SpeaksWithTheAgent'
    BY <2>1 DEF IInv, Queue, Progress, SpeaksWithTheAgent
  <2>7. OwnWords'
    <3>1. \A k \in Attempt : \A m : ToHost(k, m)' => ToHost(k, m)
      BY <2>2 DEF ToHost
    <3> QED
      BY <2>1, <3>1 DEF IInv, OwnWords
  <2> QED
    BY <2>4, <2>5, <2>6, <2>7 DEF IInv
<1>3. CASE WakeUp
  <2>1. attempt' = attempt + 1 /\ host = "sleeping" /\ host' = "dialing" /\ attempt < MaxAttempts
        /\ UNCHANGED <<asked, verdict, expired, uds, conn, toHost, toAgent, backlog, agent, served>>
    BY <1>3 DEF WakeUp, NextAttempt, guestVars, IInv, Progress
  <2>2. attempt' \in Attempt
    BY <1>0, <2>1, AttemptsAreNumbers
  <2>3. TypeOK'
    <3>1. HostTyped' /\ ConnsTyped' /\ StreamsTyped'
      BY <2>1, TypeParts DEF IInv, HostTyped, ConnsTyped, StreamsTyped
    <3>2. served' \in 0 .. attempt'
      BY <1>0, <2>1, Numbers DEF IInv
    <3>3. CountsTyped'
      BY <2>1, <2>2, <3>2, TypeParts DEF IInv, CountsTyped
    <3> QED
      BY <3>1, <3>3, TypePartsNext
  <2>6. OneAtATime'
    <3> SUFFICES ASSUME NEW k \in Attempt
                 PROVE  /\ k > attempt' => conn'[k] = "none"
                        /\ k < attempt' => conn'[k] \in {"none", "closed"}
                        /\ k = attempt' => conn'[k] = "none"
                        /\ conn'[k] = "none" => toHost'[k] = <<>>
      BY <2>1 DEF OneAtATime
    <3>1. k \in Nat /\ attempt \in Nat
      BY <1>0, AttemptsAreNumbers
    <3>2. /\ k > attempt => conn[k] = "none"
          /\ conn[k] \in {"none", "closed"}
          /\ conn[k] = "none" => toHost[k] = <<>>
      BY <2>1 DEF IInv, OneAtATime
    <3>4. (k > attempt' \/ k = attempt') => k > attempt
      BY <2>1, <3>1
    <3> QED
      BY <2>1, <3>2, <3>4
  <2>4. Queue'
    <3>1. \A i \in 1 .. Len(backlog) : backlog[i] \in Attempt
      BY TypeParts DEF IInv, StreamsTyped
    <3>2. \A i \in 1 .. Len(backlog) : backlog[i] \in Nat /\ backlog[i] <= attempt
      BY <3>1, AttemptsAreNumbers DEF IInv, Queue
    <3> QED
      BY <1>0, <2>1, <3>2 DEF IInv, Queue
  <2>5. Progress' /\ SpeaksWithTheAgent'
    BY <2>1 DEF IInv, Progress, SpeaksWithTheAgent
  <2> QED
    BY <2>1, <2>3, <2>4, <2>5, <2>6, SilentKeepsWords DEF IInv
<1>4. CASE GiveUpSleeping
  <2> USE <1>4 DEF GiveUpSleeping, guestVars
  <2>1. TypeOK' /\ OneAtATime'
    BY DEF IInv, TypeOK, OneAtATime
  <2>2. Queue' /\ Progress' /\ SpeaksWithTheAgent'
    BY DEF IInv, Queue, Progress, SpeaksWithTheAgent
  <2> QED
    BY <2>1, <2>2, SilentKeepsWords DEF IInv
<1> QED
  BY <1>1, <1>2, <1>3, <1>4

\* The host leaves the bridge, and closes its connection.
LEMMA LeaveKeeps ==
  ASSUME IInv, NEW v \in {"ok", "bad banner", "deadline", "end of stream", "error"}, Leave(v),
         UNCHANGED <<expired, uds, toAgent, backlog, agent, served>>,
         v = "ok" => served = attempt, OwnWords',
         toHost' \in [Attempt -> Seq(Message)], \A k \in Attempt : k # attempt => toHost'[k] = toHost[k]
  PROVE  IInv'
<1>1. /\ host' \in {"done", "failed"}
      /\ host' = "done" => v = "ok"
      /\ verdict' = v /\ conn' = [conn EXCEPT ![attempt] = "closed"] /\ attempt' = attempt /\ asked' = asked
  BY DEF Leave
<1>2. attempt \in Attempt /\ attempt \in Nat /\ \A k \in Attempt : k \in Nat
  BY Numbers DEF IInv
<1>3. TypeOK'
  <2>1. HostTyped' /\ CountsTyped' /\ ConnsTyped'
    BY <1>1, TypeParts DEF IInv, HostTyped, CountsTyped, ConnsTyped
  <2>2. StreamsTyped'
    BY TypeParts DEF IInv, StreamsTyped
  <2> QED
    BY <2>1, <2>2, TypePartsNext
<1>4. OneAtATime'
  BY <1>1, FailedIsClosed
<1>5. Queue' /\ Progress'
  BY <1>1 DEF IInv, Queue, Progress
<1>6. SpeaksWithTheAgent'
  BY <1>1 DEF SpeaksWithTheAgent
<1> QED
  BY <1>3, <1>4, <1>5, <1>6 DEF IInv

\* A connection that has something for the host was made.
LEMMA HeardIsConnected ==
  ASSUME IInv, toHost[attempt] # <<>>
  PROVE  conn[attempt] # "none"
BY DEF IInv, TypeOK, OneAtATime

\* The conversation.  The banner can only be the agent's.
LEMMA ReadBannerKeeps == ASSUME IInv, ReadBanner PROVE IInv'
<1>1. /\ host = "banner" /\ toHost[attempt] # <<>> /\ attempt \in Attempt
      /\ toHost \in [Attempt -> Seq(Message)] /\ toHost[attempt] \in Seq(Message)
      /\ UNCHANGED <<expired, uds, toAgent, backlog, agent, served>>
  BY DEF ReadBanner, guestVars, IInv, TypeOK, Message
<1>2. CASE Head(toHost[attempt]) = "READY"
  <2>1. /\ toHost' = [toHost EXCEPT ![attempt] = Tail(toHost[attempt])] /\ host' = "ready"
        /\ UNCHANGED <<attempt, asked, verdict, conn>>
    BY <1>2 DEF ReadBanner
  <2>2. served = attempt
    <3>1. ToHost(attempt, "READY")
      BY <1>1, <1>2, TailSays DEF ToHost
    <3> QED
      BY <1>1, <3>1 DEF IInv, OwnWords
  <2>3. toHost' \in [Attempt -> Seq(Message)]
    BY <1>1, <2>1, TailSays
  <2>4. \A k \in Attempt : k # attempt => toHost'[k] = toHost[k]
    BY <1>1, <2>1
  <2>5. OwnWords'
    BY <1>1, <2>2, <2>4 DEF IInv, OwnWords, ToHost
  <2>6. conn[attempt] # "none"
    BY <1>1, HeardIsConnected
  <2>7. TypeOK'
    BY <1>1, <2>1, <2>3 DEF IInv, TypeOK, Message
  <2>8. OneAtATime'
    BY <1>1, <2>1, <2>4, <2>6 DEF IInv, OneAtATime
  <2>9. Queue' /\ Progress' /\ SpeaksWithTheAgent'
    BY <1>1, <2>1, <2>2 DEF IInv, Queue, Progress, SpeaksWithTheAgent
  <2> QED
    BY <2>5, <2>7, <2>8, <2>9 DEF IInv
<1>3. CASE Head(toHost[attempt]) # "READY"
  <2>1. Leave("bad banner") /\ toHost' = toHost
    BY <1>3 DEF ReadBanner
  <2>2. OwnWords'
    BY <1>1, <2>1, SilentKeepsWords
  <2> QED
    BY <1>1, <2>1, <2>2, LeaveKeeps
<1> QED
  BY <1>2, <1>3

LEMMA AskKeeps == ASSUME IInv, Ask PROVE IInv'
<1> USE DEF Ask, guestVars
<1>0. attempt \in Attempt /\ asked \in Nat /\ Requests \in Nat /\ asked < Requests
  <2>1. asked \in 0 .. Requests /\ attempt \in Attempt /\ asked < Requests
    BY TypeParts DEF IInv, CountsTyped, Progress
  <2> QED
    BY <2>1, BridgeAssumption
<1>1. toAgent' \in [Attempt -> Seq({"request"})]
  <2>1. toAgent[attempt] \in Seq({"request"})
    BY <1>0 DEF IInv, TypeOK
  <2>2. Append(toAgent[attempt], "request") \in Seq({"request"})
    BY <2>1
  <2> QED
    BY <1>0, <2>2 DEF IInv, TypeOK
<1>2. TypeOK'
  <2>1. HostTyped' /\ ConnsTyped' /\ StreamsTyped'
    BY <1>1, TypeParts DEF IInv, HostTyped, ConnsTyped, StreamsTyped
  <2>2. asked' \in 0 .. Requests
    BY <1>0
  <2>3. CountsTyped'
    BY <2>2, TypeParts DEF IInv, CountsTyped
  <2> QED
    BY <2>1, <2>3, TypePartsNext
<1>3. OneAtATime'
  BY DEF IInv, OneAtATime
<1>4. Queue' /\ Progress' /\ SpeaksWithTheAgent'
  BY DEF IInv, Queue, Progress, SpeaksWithTheAgent
<1> QED
  BY <1>2, <1>3, <1>4, SilentKeepsWords DEF IInv

LEMMA ConverseKeeps ==
  ASSUME IInv, NoBanner \/ Abort \/ CallFails
  PROVE  IInv'
<1>1. PICK v \in {"deadline", "end of stream", "error"} : Leave(v)
  BY DEF NoBanner, Abort, CallFails
<1>2. /\ UNCHANGED <<expired, uds, toHost, toAgent, backlog, agent, served>>
      /\ host \in {"banner", "ready", "calling"}
  BY DEF NoBanner, Abort, CallFails, guestVars
<1>3. OwnWords'
  BY <1>2, SilentKeepsWords
<1>4. attempt \in Attempt /\ toHost \in [Attempt -> Seq(Message)]
  BY TypeParts DEF IInv, CountsTyped, StreamsTyped
<1> QED
  BY <1>1, <1>2, <1>3, <1>4, LeaveKeeps

LEMMA TakeResponseKeeps == ASSUME IInv, TakeResponse PROVE IInv'
<1>1. /\ host = "calling" /\ toHost[attempt] # <<>> /\ attempt \in Attempt /\ served = attempt
      /\ toHost \in [Attempt -> Seq(Message)] /\ toHost[attempt] \in Seq(Message)
      /\ toHost' = [toHost EXCEPT ![attempt] = Tail(toHost[attempt])]
      /\ UNCHANGED <<expired, uds, toAgent, backlog, agent, served>>
  BY DEF TakeResponse, guestVars, IInv, TypeOK, Message, SpeaksWithTheAgent
<1>2. toHost' \in [Attempt -> Seq(Message)] /\ \A k \in Attempt : k # attempt => toHost'[k] = toHost[k]
  BY <1>1, TailSays
<1>3. OwnWords'
  BY <1>1, <1>2 DEF IInv, OwnWords, ToHost
<1>4. conn[attempt] # "none"
  BY <1>1, HeardIsConnected
<1>5. CASE asked < Requests
  <2>1. host' = "ready" /\ UNCHANGED <<attempt, asked, verdict, conn>>
    BY <1>5 DEF TakeResponse
  <2>2. TypeOK'
    BY <1>1, <1>2, <2>1 DEF IInv, TypeOK, Message
  <2>3. OneAtATime'
    BY <1>1, <1>2, <1>4, <2>1 DEF IInv, OneAtATime
  <2>4. Queue' /\ Progress' /\ SpeaksWithTheAgent'
    BY <1>1, <1>5, <2>1 DEF IInv, Queue, Progress, SpeaksWithTheAgent
  <2> QED
    BY <1>3, <2>2, <2>3, <2>4 DEF IInv
<1>6. CASE ~(asked < Requests)
  BY <1>1, <1>2, <1>3, <1>6, LeaveKeeps DEF TakeResponse
<1> QED
  BY <1>5, <1>6

\* The VMM takes, refuses or answers the connection that is being tried.
LEMMA VmmKeeps ==
  ASSUME IInv, NEW k \in Attempt, Link(k) \/ Refuse(k) \/ AnswerOddly(k)
  PROVE  IInv'
<1>1. /\ conn[k] = "open" /\ k = attempt /\ host \notin {"sleeping", "done", "failed", "dialing"} /\ k \in Nat
      /\ UNCHANGED <<host, attempt, asked, verdict, expired, uds, toAgent, agent, served>>
  <2>1. conn[k] = "open" /\ UNCHANGED <<host, attempt, asked, verdict, expired, uds, toAgent, agent, served>>
    BY DEF Link, Refuse, AnswerOddly, hostVars, guestVars
  <2>2. k \in Nat /\ attempt \in Nat
    BY Numbers DEF IInv
  <2>3. ~(k > attempt) /\ ~(k < attempt) /\ host \notin {"sleeping", "done", "failed"}
    BY <2>1, <2>2 DEF IInv, OneAtATime
  <2>4. k = attempt
    BY <2>2, <2>3
  <2>5. host # "dialing"
    BY <2>1, <2>4 DEF IInv, OneAtATime
  <2> QED
    BY <2>1, <2>2, <2>3, <2>4, <2>5
<1>2. PICK m \in {"OK", "NOPE"}, c \in {"open", "linked", "closed"} :
        /\ conn' = [conn EXCEPT ![k] = c]
        /\ toHost' = toHost \/ toHost' = [toHost EXCEPT ![k] = Append(toHost[k], m)]
        /\ backlog' = backlog \/ backlog' = Append(backlog, k)
  <2>1. CASE Link(k)
    BY <2>1 DEF Link
  <2>2. CASE Refuse(k)
    BY <2>2 DEF Refuse, guestVars
  <2>3. CASE AnswerOddly(k)
    <3>1. toHost' = [toHost EXCEPT ![k] = <<"NOPE">>] /\ toHost[k] = <<>> /\ conn' = conn /\ backlog' = backlog
      BY <2>3 DEF AnswerOddly, guestVars
    <3>2. <<"NOPE">> = Append(toHost[k], "NOPE") /\ conn' = [conn EXCEPT ![k] = "open"]
      <4>1. conn \in [Attempt -> {"none", "open", "linked", "closed"}]
        BY TypeParts DEF IInv, ConnsTyped
      <4>2. conn' = [conn EXCEPT ![k] = "open"]
        BY <1>1, <3>1, <4>1
      <4>3. <<"NOPE">> = Append(toHost[k], "NOPE")
        BY <3>1
      <4> QED
        BY <4>2, <4>3
    <3> QED
      BY <3>1, <3>2
  <2> QED
    BY <2>1, <2>2, <2>3
<1>3. /\ toHost' \in [Attempt -> Seq(Message)]
      /\ \A j \in Attempt : j # k => toHost'[j] = toHost[j]
      /\ ToHost(k, "READY")' => ToHost(k, "READY")
      /\ ToHost(k, "response")' => ToHost(k, "response")
  <2>1. toHost \in [Attempt -> Seq(Message)] /\ toHost[k] \in Seq(Message) /\ m \in Message
    BY DEF IInv, TypeOK, Message
  <2>2. CASE toHost' = toHost
    BY <2>1, <2>2 DEF ToHost
  <2>3. CASE toHost' = [toHost EXCEPT ![k] = Append(toHost[k], m)]
    <3>1. toHost'[k] = Append(toHost[k], m) /\ \A j \in Attempt : j # k => toHost'[j] = toHost[j]
      BY <2>1, <2>3
    <3>2. toHost' \in [Attempt -> Seq(Message)]
      BY <2>1, <2>3, AppendSays
    <3>3. m # "READY" /\ m # "response"
      OBVIOUS
    <3>4. \A w : (\E i \in 1 .. Len(toHost'[k]) : toHost'[k][i] = w)
                 => w = m \/ \E i \in 1 .. Len(toHost[k]) : toHost[k][i] = w
      BY <2>1, <3>1, AppendSays
    <3>5. \A w : ToHost(k, w)' => w = m \/ ToHost(k, w)
      BY <3>4 DEF ToHost
    <3>6. (ToHost(k, "READY")' => ToHost(k, "READY")) /\ (ToHost(k, "response")' => ToHost(k, "response"))
      BY <3>3, <3>5
    <3> QED
      BY <3>1, <3>2, <3>6
  <2> QED
    BY <1>2, <2>2, <2>3
<1>4. backlog' \in Seq(Attempt) /\ \A i \in 1 .. Len(backlog') : backlog'[i] <= attempt
  <2>1. backlog \in Seq(Attempt) /\ \A i \in 1 .. Len(backlog) : backlog[i] <= attempt
    BY DEF IInv, TypeOK, Queue
  <2>2. CASE backlog' = backlog
    BY <2>1, <2>2
  <2>3. CASE backlog' = Append(backlog, k)
    BY <1>1, <2>1, <2>3, AppendSays
  <2> QED
    BY <1>2, <2>2, <2>3
<1>5. TypeOK'
  <2>1. HostTyped' /\ CountsTyped'
    BY <1>1, TypeParts DEF IInv, HostTyped, CountsTyped
  <2>2. ConnsTyped'
    BY <1>2, TypeParts DEF IInv, ConnsTyped
  <2>3. StreamsTyped'
    BY <1>1, <1>3, <1>4, TypeParts DEF IInv, StreamsTyped
  <2> QED
    BY <2>1, <2>2, <2>3, TypePartsNext
<1>6. OneAtATime'
  <2>1. conn \in [Attempt -> {"none", "open", "linked", "closed"}]
    BY TypeParts DEF IInv, ConnsTyped
  <2>2. \A j \in Attempt : j # k => conn'[j] = conn[j]
    BY <1>2, <2>1
  <2>3. conn'[k] # "none"
    BY <1>2, <2>1
  <2>4. attempt \in Nat /\ k = attempt /\ host \notin {"sleeping", "done", "failed", "dialing"}
    BY <1>1, Numbers DEF IInv
  <2> SUFFICES ASSUME NEW j \in Attempt
               PROVE  /\ j > attempt => conn'[j] = "none"
                      /\ j < attempt => conn'[j] \in {"none", "closed"}
                      /\ conn'[j] = "none" => toHost'[j] = <<>>
    BY <1>1, <2>4 DEF OneAtATime
  <2>5. CASE j = k
    BY <2>3, <2>4, <2>5
  <2>6. CASE j # k
    BY <1>3, <2>2, <2>6 DEF IInv, OneAtATime
  <2> QED
    BY <2>5, <2>6
<1>7. Queue' /\ Progress' /\ SpeaksWithTheAgent'
  BY <1>1, <1>4 DEF IInv, Queue, Progress, SpeaksWithTheAgent
<1>8. OwnWords'
  <2> SUFFICES ASSUME NEW j \in Attempt PROVE (ToHost(j, "READY") \/ ToHost(j, "response"))' => served = j
    BY <1>1 DEF OwnWords
  <2>1. CASE j = k
    BY <1>3, <2>1 DEF IInv, OwnWords
  <2>2. CASE j # k
    BY <1>3, <2>2 DEF IInv, OwnWords, ToHost
  <2> QED
    BY <2>1, <2>2
<1> QED
  BY <1>5, <1>6, <1>7, <1>8 DEF IInv

\* The agent accepts once, and speaks on what it has accepted.
LEMMA AgentKeeps ==
  ASSUME IInv, Listen \/ Accept \/ Greet \/ Respond
  PROVE  IInv'
<1>1. CASE Listen
  <2> USE <1>1 DEF Listen, hostVars
  <2>1. TypeOK'
    <3>1. HostTyped' /\ CountsTyped' /\ ConnsTyped'
      BY TypeParts DEF IInv, HostTyped, CountsTyped, ConnsTyped
    <3>2. StreamsTyped'
      BY TypeParts DEF IInv, StreamsTyped
    <3> QED
      BY <3>1, <3>2, TypePartsNext
  <2>2. OneAtATime'
    BY DEF IInv, OneAtATime
  <2>3. Queue' /\ Progress' /\ SpeaksWithTheAgent'
    BY DEF IInv, Queue, Progress, SpeaksWithTheAgent
  <2> QED
    BY <2>1, <2>2, <2>3, SilentKeepsWords DEF IInv
<1>2. CASE Accept
  <2>1. /\ agent = "listening" /\ agent' = "greeting" /\ served = 0 /\ backlog # <<>> /\ backlog \in Seq(Attempt)
        /\ served' = Head(backlog) /\ backlog' = Tail(backlog)
        /\ UNCHANGED <<host, attempt, asked, verdict, expired, uds, conn, toHost, toAgent>>
    BY <1>2 DEF Accept, hostVars, IInv, TypeOK, Queue
  <2>2. backlog' \in Seq(Attempt) /\ served' \in Attempt /\ attempt \in Attempt
    BY <2>1, TailSays DEF IInv, TypeOK
  <2>3. /\ served' <= attempt /\ served' # 0 /\ served' \in 0 .. attempt
        /\ \A i \in 1 .. Len(backlog') : backlog'[i] <= attempt
    <3>1. \A i \in 1 .. Len(backlog) : backlog[i] <= attempt
      BY DEF IInv, Queue
    <3>2. served' <= attempt /\ \A i \in 1 .. Len(backlog') : backlog'[i] <= attempt
      BY <2>1, <3>1, TailSays
    <3>3. served' \in Nat /\ served' # 0 /\ attempt \in Nat
      BY <2>2, AttemptsAreNumbers
    <3> QED
      BY <3>2, <3>3
  <2>4. TypeOK' /\ OneAtATime' /\ Queue' /\ Progress'
    BY <2>1, <2>2, <2>3 DEF IInv, TypeOK, OneAtATime, Queue, Progress
  <2>5. SpeaksWithTheAgent'
    BY <2>1, <2>2 DEF IInv, SpeaksWithTheAgent, Attempt
  <2>6. \A k \in Attempt : k # 0
    BY DEF Attempt
  <2>7. OwnWords'
    BY <2>1, <2>6 DEF IInv, OwnWords, ToHost
  <2> QED
    BY <2>4, <2>5, <2>7 DEF IInv
<1>3. CASE Greet \/ Respond
  <2>1. PICK m \in {"READY", "response"} :
          /\ agent \in {"greeting", "serving"} /\ agent' = "serving"
          /\ conn[served] = "linked" /\ toHost' = [toHost EXCEPT ![served] = Append(toHost[served], m)]
          /\ toAgent' = toAgent \/ (toAgent[served] # <<>> /\ toAgent' = [toAgent EXCEPT ![served] = Tail(toAgent[served])])
          /\ UNCHANGED <<host, attempt, asked, verdict, expired, uds, conn, backlog, served>>
    BY <1>3 DEF Greet, Respond, hostVars, guestVars
  <2>2. served \in Attempt
    BY <2>1, Numbers DEF IInv, Queue
  <2>3. toHost[served] \in Seq(Message) /\ m \in Message /\ toHost \in [Attempt -> Seq(Message)]
    BY <2>2 DEF IInv, TypeOK, Message
  <2>4. toHost' \in [Attempt -> Seq(Message)] /\ \A k \in Attempt : k # served => toHost'[k] = toHost[k]
    BY <2>1, <2>2, <2>3, AppendSays
  <2>5. toAgent' \in [Attempt -> Seq({"request"})]
    <3>1. toAgent[served] \in Seq({"request"}) /\ toAgent \in [Attempt -> Seq({"request"})]
      BY <2>2 DEF IInv, TypeOK
    <3>2. toAgent[served] # <<>> => Tail(toAgent[served]) \in Seq({"request"})
      BY <3>1, TailSays
    <3> QED
      BY <2>1, <2>2, <3>1, <3>2
  <2>6. TypeOK'
    BY <2>1, <2>4, <2>5 DEF IInv, TypeOK, Message
  <2>7. OneAtATime'
    BY <2>1, <2>4 DEF IInv, OneAtATime
  <2>8. Queue' /\ Progress' /\ SpeaksWithTheAgent'
    BY <2>1 DEF IInv, Queue, Progress, SpeaksWithTheAgent
  <2>9. OwnWords'
    BY <2>1, <2>4 DEF IInv, OwnWords, ToHost
  <2> QED
    BY <2>6, <2>7, <2>8, <2>9 DEF IInv
<1> QED
  BY <1>1, <1>2, <1>3

LEMMA ExitKeeps ==
  ASSUME IInv, SeeEnd \/ Crash \/ StopVMM
  PROVE  IInv'
<1>1. Exit /\ UNCHANGED <<host, attempt, asked, verdict, expired, uds, toHost, toAgent, served>>
  BY DEF SeeEnd, Crash, StopVMM, Exit, hostVars
<1>2. agent' = "exited" /\ backlog' = <<>>
      /\ conn' = [k \in Attempt |-> IF conn[k] = "linked" THEN "closed" ELSE conn[k]]
  BY <1>1 DEF Exit
<1>3. \A k \in Attempt : conn'[k] \in {"none", "closed", "open"} /\ (conn[k] \in {"none", "closed"} => conn'[k] = conn[k])
  BY <1>2, TypeParts DEF IInv, ConnsTyped
<1>4. TypeOK'
  <2>1. HostTyped' /\ CountsTyped'
    BY <1>1, <1>2, TypeParts DEF IInv, HostTyped, CountsTyped
  <2>2. ConnsTyped'
    BY <1>2, <1>3 DEF ConnsTyped
  <2>3. StreamsTyped'
    BY <1>1, <1>2, TypeParts DEF IInv, StreamsTyped
  <2> QED
    BY <2>1, <2>2, <2>3, TypePartsNext
<1>5. OneAtATime'
  BY <1>1, <1>2, <1>3 DEF IInv, OneAtATime
<1>6. Queue' /\ Progress' /\ SpeaksWithTheAgent'
  BY <1>1, <1>2 DEF IInv, Queue, Progress, SpeaksWithTheAgent
<1> QED
  BY <1>1, <1>4, <1>5, <1>6, SilentKeepsWords DEF IInv

LEMMA ClockKeeps ==
  ASSUME IInv, Deadline \/ CreateSocket \/ UNCHANGED vars
  PROVE  IInv'
<1>1. /\ UNCHANGED <<host, attempt, asked, verdict, conn, toHost, toAgent, backlog, agent, served>>
      /\ expired' \in BOOLEAN /\ uds' \in BOOLEAN
  BY DEF Deadline, CreateSocket, vars, hostVars, guestVars, IInv, TypeOK
<1>2. TypeOK'
  <2>1. HostTyped' /\ CountsTyped' /\ ConnsTyped'
    BY <1>1, TypeParts DEF IInv, HostTyped, CountsTyped, ConnsTyped
  <2>2. StreamsTyped'
    BY <1>1, TypeParts DEF IInv, StreamsTyped
  <2> QED
    BY <2>1, <2>2, TypePartsNext
<1>3. OneAtATime'
  BY <1>1 DEF IInv, OneAtATime
<1>4. Queue' /\ Progress' /\ SpeaksWithTheAgent'
  BY <1>1 DEF IInv, Queue, Progress, SpeaksWithTheAgent
<1> QED
  BY <1>1, <1>2, <1>3, <1>4, SilentKeepsWords DEF IInv

LEMMA NextIInv == IInv /\ [Next]_vars => IInv'
BY RetryKeeps, DialKeeps, ReadBannerKeeps, AskKeeps, ConverseKeeps, TakeResponseKeeps, VmmKeeps, AgentKeeps, ExitKeeps,
   ClockKeeps DEF Next, Dial, Converse, Vmm, Agent, Finished

LEMMA Invariance == Spec => []IInv
BY InitIInv, NextIInv, PTL DEF Spec

(***************************************************************************)
(* The theorems                                                            *)
(***************************************************************************)
\* The types, for any number of attempts and requests.
THEOREM TypeCorrect == Spec => []TypeOK
<1>1. IInv => TypeOK
  BY DEF IInv
<1> QED
  BY <1>1, Invariance, PTL

\* A banner that is read comes from the agent, on the connection that the agent accepted,
\* however many attempts timed out before (main.go:209-243, agentd main.go:37).
THEOREM HostSpeaksWithTheAgent == Spec => []SpeaksWithTheAgent
<1>1. IInv => SpeaksWithTheAgent
  BY DEF IInv
<1> QED
  BY <1>1, Invariance, PTL

\* Attempts are closed before the next and before the bridge returns (vsock.go:54,
\* main.go:208).
THEOREM ConnectionsAreClosed == Spec => []NoConnectionIsLeft
<1>1. IInv => NoConnectionIsLeft
  BY DEF IInv, OneAtATime, NoConnectionIsLeft
<1> QED
  BY <1>1, Invariance, PTL

-----------------------------------------------------------------------------
(***************************************************************************)
(* PART II: RpcMux                                                         *)
(***************************************************************************)
\* The entries of the map are those of the calls under way.
Entries ==
  /\ \A c \in Call : Under(c) => pending[idOf[c]] = c
  /\ \A i \in ReqId : pending[i] # None => Under(pending[i]) /\ idOf[pending[i]] = i

\* A response travels to a call under its own id: from readLoop's hand to a channel, from
\* there to the result.
SameIds ==
  /\ reader \in {"matching", "sending"} => inHand \in Call
  /\ target # None => idOf[inHand] = idOf[target]
  /\ \A c \in Call : inbox[c] # None => idOf[inbox[c]] = idOf[c]
  /\ \A c \in Call : result[c] \in Call => idOf[result[c]] = idOf[c]

\* The inductive invariant.
MuxInv == MuxTypeOK /\ Entries /\ SameIds
-----------------------------------------------------------------------------
\* A sequence of two or more elements, and what is left of it without them.
LEMMA FirstOfTwo ==
  ASSUME NEW S, NEW s \in Seq(S), Len(s) >= 2
  PROVE  s[1] \in S /\ Tail(Tail(s)) \in Seq(S)
<1>1. s[1] \in S /\ Tail(s) \in Seq(S) /\ Len(Tail(s)) = Len(s) - 1
  OBVIOUS
<1>2. Tail(s) # <<>>
  BY <1>1
<1> QED
  BY <1>1, <1>2

\* Ids are ids.
LEMMA IdsOfCalls == ASSUME MuxTypeOK PROVE idOf \in [Call -> ReqId]
BY MuxAssumption DEF MuxTypeOK

\* The initial states satisfy the invariant.
LEMMA MuxInitInv == MuxInit => MuxInv
<1> SUFFICES ASSUME MuxInit PROVE MuxInv
  OBVIOUS
<1> USE MuxAssumption DEF MuxInit
<1>1. MuxTypeOK
  <2>1. (reader = "sending") = (target # None)
    BY Zenon
  <2>2. frames \in Seq({"head", "body"} \X Call) /\ toClient \in Seq(Call)
    OBVIOUS
  <2>3. result \in [Call -> Results \cup Call]
    BY DEF Results
  <2> QED
    BY <2>1, <2>2, <2>3 DEF MuxTypeOK
<1>2. Entries
  BY DEF Entries, Under
<1>3. SameIds
  BY DEF SameIds, Results
<1> QED
  BY <1>1, <1>2, <1>3 DEF MuxInv

\* A step that touches neither the calls' places nor the map keeps the entries, and one
\* that moves no response keeps the ids.
LEMMA SameCalls ==
  ASSUME Entries, UNCHANGED <<idOf, pending>>, \A c \in Call : Under(c)' <=> Under(c), MuxTypeOK
  PROVE  Entries'
BY MuxAssumption DEF Entries, MuxTypeOK

LEMMA SameResponses ==
  ASSUME SameIds, UNCHANGED <<idOf, reader, inHand, target, inbox>>,
         \A c \in Call : result'[c] = result[c] \/ result'[c] \in Results
  PROVE  SameIds'
BY MuxAssumption DEF SameIds

\* Moves of one call c that stays under way.
LEMMA CallStaysUnder ==
  ASSUME MuxTypeOK, Entries, NEW c \in Call, Under(c), UNCHANGED <<idOf, pending>>,
         NEW p \in {"claimed", "writing", "waiting", "leaving"}, at' = [at EXCEPT ![c] = p]
  PROVE  Entries'
<1>1. \A d \in Call : Under(d)' <=> Under(d)
  BY DEF Under, MuxTypeOK
<1> QED
  BY <1>1, SameCalls

\* A call steps.
LEMMA CallStepKeeps ==
  ASSUME MuxInv, NEW c \in Call, Start(c) \/ CallStep(c) \/ TimeOut(c)
  PROVE  MuxInv'
<1> USE DEF MuxInv
<1>1. CASE Start(c) /\ IsFree(c)
  <2>1. /\ pending' = [pending EXCEPT ![idOf[c]] = c] /\ at' = [at EXCEPT ![c] = "claimed"]
        /\ at[c] = "idle" /\ pending[idOf[c]] = None
        /\ UNCHANGED <<result, idOf, inbox, frames, toClient, serving, reader, inHand, target, stopped>>
    BY <1>1 DEF Start, IsFree
  <2>2. MuxTypeOK'
    BY <2>1, IdsOfCalls DEF MuxTypeOK
  <2>3. Entries'
    BY <2>1, IdsOfCalls, MuxAssumption DEF MuxTypeOK, Entries, Under
  <2>4. SameIds'
    BY <2>1, SameResponses
  <2> QED
    BY <2>2, <2>3, <2>4
<1>2. CASE Start(c) /\ ~IsFree(c)
  <2>1. /\ at' = [at EXCEPT ![c] = "returned"] /\ result' = [result EXCEPT ![c] = "in use"]
        /\ at[c] = "idle"
        /\ UNCHANGED <<pending, idOf, inbox, frames, toClient, serving, reader, inHand, target, stopped>>
    BY <1>2 DEF Start
  <2>2. MuxTypeOK'
    BY <2>1 DEF MuxTypeOK, Results
  <2>3. Entries'
    BY <2>1, SameCalls DEF MuxTypeOK, Under
  <2>4. SameIds'
    BY <2>1, SameResponses DEF MuxTypeOK, Results
  <2> QED
    BY <2>2, <2>3, <2>4
<1>3. CASE WriteHead(c) \/ WriteBody(c)
  <2>1. PICK part \in {"head", "body"}, p \in {"writing", "waiting"} :
          /\ frames' = Append(frames, <<part, c>>) /\ at' = [at EXCEPT ![c] = p]
          /\ at[c] \in {"claimed", "writing"}
          /\ UNCHANGED <<idOf, result, pending, inbox, toClient, serving, reader, inHand, target, stopped>>
    BY <1>3 DEF WriteHead, WriteBody
  <2>2. <<part, c>> \in {"head", "body"} \X Call
    OBVIOUS
  <2>3. frames' \in Seq({"head", "body"} \X Call)
    BY <2>1, <2>2 DEF MuxTypeOK
  <2>4. MuxTypeOK'
    BY <2>1, <2>3 DEF MuxTypeOK
  <2>5. Entries'
    BY <2>1, CallStaysUnder DEF Under
  <2>6. SameIds'
    BY <2>1, SameResponses
  <2> QED
    BY <2>4, <2>5, <2>6
<1>4. CASE WriteFails(c) \/ SeeStop(c) \/ TimeOut(c)
  <2>1. PICK r \in Results :
          /\ at' = [at EXCEPT ![c] = "leaving"] /\ result' = [result EXCEPT ![c] = r]
          /\ at[c] \in {"claimed", "writing", "waiting"}
          /\ UNCHANGED <<idOf, pending, inbox, frames, toClient, serving, reader, inHand, target, stopped>>
    BY <1>4 DEF WriteFails, SeeStop, TimeOut, Conclude, Results
  <2>2. MuxTypeOK'
    BY <2>1 DEF MuxTypeOK
  <2>3. Entries'
    BY <2>1, CallStaysUnder DEF Under
  <2>4. SameIds'
    BY <2>1, SameResponses DEF MuxTypeOK
  <2> QED
    BY <2>2, <2>3, <2>4
<1>5. CASE Receive(c)
  <2>1. /\ at' = [at EXCEPT ![c] = "leaving"] /\ result' = [result EXCEPT ![c] = inbox[c]]
        /\ inbox' = [inbox EXCEPT ![c] = None] /\ inbox[c] # None /\ at[c] = "waiting"
        /\ UNCHANGED <<idOf, pending, frames, toClient, serving, reader, inHand, target, stopped>>
    BY <1>5 DEF Receive, Conclude
  <2>2. MuxTypeOK'
    BY <2>1 DEF MuxTypeOK
  <2>3. Entries'
    BY <2>1, CallStaysUnder DEF Under
  <2>4. SameIds'
    BY <2>1, MuxAssumption DEF MuxTypeOK, SameIds
  <2> QED
    BY <2>2, <2>3, <2>4
<1>6. CASE Finish(c)
  <2>1. /\ pending' = [pending EXCEPT ![idOf[c]] = None] /\ at' = [at EXCEPT ![c] = "returned"]
        /\ at[c] = "leaving"
        /\ UNCHANGED <<idOf, result, inbox, frames, toClient, serving, reader, inHand, target, stopped>>
    BY <1>6 DEF Finish, Unclaimed
  <2>2. MuxTypeOK'
    BY <2>1, IdsOfCalls DEF MuxTypeOK
  <2>3. \A d \in Call : d # c /\ Under(d) => idOf[d] # idOf[c]
    BY <2>1 DEF Entries, Under
  <2>4. \A d \in Call : d # c => (Under(d)' <=> Under(d))
    BY <2>1 DEF MuxTypeOK, Under
  <2>5. ~Under(c)'
    BY <2>1 DEF MuxTypeOK, Under
  <2>6. Entries'
    BY <2>1, <2>3, <2>4, <2>5, IdsOfCalls, MuxAssumption DEF MuxTypeOK, Entries
  <2>7. SameIds'
    BY <2>1, SameResponses
  <2> QED
    BY <2>2, <2>6, <2>7
<1> QED
  BY <1>1, <1>2, <1>3, <1>4, <1>5, <1>6 DEF CallStep

\* readLoop steps.
LEMMA ReaderKeeps ==
  ASSUME MuxInv, Reader
  PROVE  MuxInv'
<1> USE DEF MuxInv
<1>1. UNCHANGED <<idOf, pending, at, result, serving, frames>>
  BY DEF Reader, ReaderStops, ReadResponse, ReadEnd, MatchResponse, SendResponse
<1>2. Entries'
  BY <1>1, SameCalls DEF Under
<1>3. CASE ReaderStops \/ ReadEnd
  <2>1. /\ reader = "reading" /\ reader' = "gone" /\ stopped' \in BOOLEAN
        /\ UNCHANGED <<inbox, toClient, inHand, target>>
    BY <1>3 DEF ReaderStops, ReadEnd, StopAll, MuxTypeOK
  <2> QED
    BY <1>1, <1>2, <2>1 DEF MuxTypeOK, SameIds
<1>4. CASE ReadResponse
  <2>1. Head(toClient) \in Call /\ Tail(toClient) \in Seq(Call)
    BY <1>4 DEF ReadResponse, MuxTypeOK
  <2>2. /\ reader = "reading" /\ reader' = "matching" /\ inHand' \in Call /\ toClient' \in Seq(Call)
        /\ UNCHANGED <<inbox, target, stopped>>
    BY <1>4, <2>1 DEF ReadResponse
  <2>3. target = None
    BY <2>2 DEF MuxTypeOK
  <2> QED
    BY <1>1, <1>2, <2>2, <2>3 DEF MuxTypeOK, SameIds
<1>5. CASE MatchResponse
  <2>1. /\ reader = "matching" /\ inHand \in Call /\ target' = pending[idOf[inHand]]
        /\ reader' = IF target' = None THEN "reading" ELSE "sending"
        /\ inHand' = IF target' = None THEN None ELSE inHand
        /\ UNCHANGED <<inbox, toClient, stopped>>
    BY <1>5 DEF MatchResponse, Match, NilChecked, SameIds
  <2>2. idOf[inHand] \in ReqId
    BY <2>1, IdsOfCalls
  <2>3. target' \in Call \cup {None} /\ (target' # None => idOf[target'] = idOf[inHand])
    BY <2>1, <2>2 DEF MuxTypeOK, Entries
  <2> QED
    BY <1>1, <1>2, <2>1, <2>3 DEF MuxTypeOK, SameIds
<1>6. CASE SendResponse
  <2>1. /\ reader = "sending" /\ inHand \in Call /\ target \in Call /\ idOf[inHand] = idOf[target]
        /\ inbox' = [inbox EXCEPT ![target] = inHand] /\ reader' = "reading" /\ inHand' = None /\ target' = None
        /\ UNCHANGED <<toClient, stopped>>
    BY <1>6 DEF SendResponse, MuxTypeOK, SameIds
  <2>2. MuxTypeOK'
    BY <1>1, <2>1 DEF MuxTypeOK
  <2>3. SameIds'
    BY <1>1, <2>1 DEF MuxTypeOK, SameIds
  <2> QED
    BY <1>2, <2>2, <2>3
<1> QED
  BY <1>3, <1>4, <1>5, <1>6 DEF Reader

\* The agent steps, the client is closed, the agent hangs up, or nothing happens.
LEMMA OthersKeep ==
  ASSUME MuxInv, ServeConn \/ CloseClient \/ HangUp \/ UNCHANGED muxVars
  PROVE  MuxInv'
<1> USE DEF MuxInv
<1>1. UNCHANGED <<idOf, pending, at, result, reader, inHand, target, inbox>>
  BY DEF ServeConn, ReadRequest, ReadGarbage, Answer, CloseClient, HangUp, muxVars
<1>2. Entries' /\ SameIds'
  BY <1>1, SameCalls, SameResponses DEF Under
<1>3. CASE ReadRequest
  <2>1. frames \in Seq({"head", "body"} \X Call) /\ Len(frames) >= 2
    BY <1>3 DEF ReadRequest, MuxTypeOK
  <2>2. frames[1] \in {"head", "body"} \X Call /\ Tail(Tail(frames)) \in Seq({"head", "body"} \X Call)
    BY ONLY <2>1, FirstOfTwo
  <2>3. frames[1][2] \in Call
    BY <2>2
  <2> QED
    BY <1>1, <1>2, <1>3, <2>2, <2>3 DEF ReadRequest, MuxTypeOK
<1>4. CASE Answer
  BY <1>1, <1>2, <1>4 DEF Answer, MuxTypeOK
<1>5. CASE ReadGarbage \/ CloseClient \/ HangUp \/ UNCHANGED muxVars
  BY <1>1, <1>2, <1>5 DEF ReadGarbage, CloseClient, HangUp, muxVars, MuxTypeOK
<1> QED
  BY <1>3, <1>4, <1>5 DEF ServeConn

LEMMA MuxNextInv == MuxInv /\ [MuxNext]_muxVars => MuxInv'
BY CallStepKeeps, ReaderKeeps, OthersKeep DEF MuxNext, Quiet
-----------------------------------------------------------------------------
\* The inductive invariant holds in every reachable state.
THEOREM MuxInvariance == MuxSpec => []MuxInv
BY MuxInitInv, MuxNextInv, PTL DEF MuxSpec

\* The variables keep their types, and readLoop sends only to a channel it found.
THEOREM MuxTypeCorrect == MuxSpec => []MuxTypeOK
<1>1. MuxInv => MuxTypeOK
  BY DEF MuxInv
<1> QED
  BY <1>1, MuxInvariance, PTL

\* The delete by id never removes the entry of another call (mux.go:63-67), whichever
\* calls share an id.
THEOREM EntriesAreOwned == MuxSpec => []OwnsItsEntry
<1>1. MuxInv => OwnsItsEntry
  BY DEF MuxInv, Entries, OwnsItsEntry
<1> QED
  BY <1>1, MuxInvariance, PTL

\* With distinct ids a call returns the response to its own request, or an error
\* (mux.go:109-114).
THEOREM ResponsesAreOwn == MuxSpec => []OwnResponse
<1>1. MuxInv => OwnResponse
  BY DEF MuxInv, SameIds, OwnResponse, Distinct
<1> QED
  BY <1>1, MuxInvariance, PTL
=============================================================================
