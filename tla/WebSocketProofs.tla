-------------------------- MODULE WebSocketProofs --------------------------
(***************************************************************************)
(* Proofs about WebSocket, for every retry policy, ping interval, pong     *)
(* timeout and delay of the runtime.                                       *)
(***************************************************************************)
EXTENDS WebSocket, TLAPS

USE WebSocketAssumption

\* What connect() knows of the credential: a generation that was refused is
\* older than the one that is handed out next, except until it is invalidated.
CredentialInv ==
  /\ generation <= current
  /\ credential = "static" => generation = 0
  /\ phase \notin {"open", "failed"} /\ (~auth_refreshed \/ phase = "invalidate") =>
       current < MaxGeneration
  /\ phase = "invalidate" =>
       auth_refreshed /\ \A g \in rejected : g < current \/ g = generation
  /\ phase \in {"authorize", "handshake", "pause"} => \A g \in rejected : g < current
  /\ current > 0
  /\ RejectedIsNotReplayed

\* A socket that is retired is not read any more.
RetiredIsIdle ==
  /\ closed => recv = "idle"
  /\ recv # "idle" => phase = "open"
  /\ FailureRetires

\* What was read last did not arrive after what arrived last.
ReadIsOlder == inbox = <<>> => inbound_age <= arrival_age

\* While no ping has been sent since the last frame: the schedule of the ticker
\* bounds the silence, and so do the gaps between two polls, because a poll
\* that finds the tick due takes it.
Quiet ==
  keepalive /\ ~closed /\ ~probed /\ inbox = <<>> /\ wire \in {"up", "dead"}

UnprobedIsShort ==
  /\ ~probed => recv # "ping"
  /\ Quiet =>
       /\ due > Latest => inbound_age + due <= PingInterval
       /\ recv = "select" => inbound_age <= 2 * PingInterval - 1 + Slack
       /\ poll_age < PingInterval /\ (recv = "select" => due > -Slack \/ poll_age > 0) =>
            inbound_age <= poll_age + PingInterval - 1 + Slack

Inv ==
  /\ TypeOK /\ CredentialInv /\ RetiredIsIdle /\ ReadIsOlder
  /\ UnprobedIsShort /\ TimeoutIsSilence

----------------------------------------------------------------------------
LEMMA LatestType == Latest \in Int /\ Latest < -Slack /\ Latest < 0
BY DEF Latest

LEMMA InitInv == Init => Inv
<1> SUFFICES ASSUME Init PROVE Inv
  OBVIOUS
<1> USE DEF Init
<1>1. TypeOK
  <2>1. keepalive \in BOOLEAN
    BY Zenon
  <2>2. inbox \in Seq(Frames) /\ Len(inbox) <= MaxInbox
    OBVIOUS
  <2>3. /\ inbound_age \in 0..SilenceWindow /\ poll_age \in 0..PingInterval
        /\ due \in Latest..PingInterval /\ arrival_age \in 0..SilenceWindow
        /\ retries \in 0..MaxRetries
    BY LatestType DEF SilenceWindow
  <2>4. generation \in Generations /\ current \in Generations
    BY DEF Generations
  <2> QED
    BY <2>1, <2>2, <2>3, <2>4, Zenon DEF TypeOK
<1>2. CredentialInv /\ RetiredIsIdle /\ ReadIsOlder /\ TimeoutIsSilence
  BY DEF CredentialInv, RejectedIsNotReplayed, RetiredIsIdle, FailureRetires,
         ReadIsOlder, TimeoutIsSilence
<1>3. UnprobedIsShort
  BY DEF UnprobedIsShort, Quiet
<1> QED
  BY <1>1, <1>2, <1>3 DEF Inv

----------------------------------------------------------------------------
(* connect() *)

LEMMA ConnectingInv ==
  ASSUME Inv, Connecting \/ Renewed
  PROVE  Inv'
<1> USE DEF Inv
<1>1. UNCHANGED <<configVars, socketVars>>
  BY DEF Connecting, Authorize, AuthorizeFails, Connected, Unauthorized, Invalidate,
         RetryHandshake, Pause, HandshakeFails, Renewed
<1>2. phase # "open"
  BY DEF Connecting, Authorize, AuthorizeFails, Connected, Unauthorized, Invalidate,
         RetryHandshake, Pause, HandshakeFails, Renewed
<1>3. ReadIsOlder' /\ UnprobedIsShort' /\ TimeoutIsSilence' /\ RetiredIsIdle'
  BY <1>1, <1>2 DEF configVars, socketVars, timeVars, ReadIsOlder, UnprobedIsShort, Quiet,
    TimeoutIsSilence, RetiredIsIdle, FailureRetires
<1>4. /\ phase' \in {"authorize", "handshake", "invalidate", "pause", "open", "failed"}
      /\ retries' \in 0..MaxRetries /\ auth_refreshed' \in BOOLEAN
      /\ generation' \in Generations /\ current' \in Generations
      /\ rejected' \subseteq Generations
      /\ CredentialInv'
  <2> USE DEF TypeOK, CredentialInv, RejectedIsNotReplayed, Generations, configVars
  <2>1. CASE Authorize
    BY <2>1 DEF Authorize
  <2>2. CASE AuthorizeFails \/ Pause
    BY <2>2 DEF AuthorizeFails, Pause
  <2>8. CASE Connected
    <3>1. /\ phase' = "open" /\ retries' = 0 /\ generation' = 0
          /\ auth_refreshed' = FALSE /\ rejected' = {}
          /\ UNCHANGED <<current, credential>>
      BY <2>8 DEF Connected
    <3>2. retries' \in 0..MaxRetries /\ generation' \in Generations
      BY <3>1
    <3>3. CredentialInv'
      BY <3>1
    <3>4. auth_refreshed' \in BOOLEAN /\ rejected' \subseteq Generations
      BY <3>1, Zenon
    <3> QED
      BY <3>1, <3>2, <3>3, <3>4
  <2>3. CASE Unauthorized
    BY <2>3 DEF Unauthorized
  <2>4. CASE Invalidate
    BY <2>4 DEF Invalidate
  <2>5. CASE RetryHandshake
    BY <2>5 DEF RetryHandshake, RetryBudget
  <2>6. CASE \E u \in BOOLEAN : HandshakeFails(u)
    BY <2>6 DEF HandshakeFails
  <2>7. CASE Renewed
    BY <2>7 DEF Renewed, connectVars
  <2> QED
    BY <2>1, <2>2, <2>3, <2>4, <2>5, <2>6, <2>7, <2>8 DEF Connecting
<1>5. TypeOK'
  BY <1>1, <1>4 DEF TypeOK, configVars, socketVars, timeVars
<1> QED
  BY <1>3, <1>4, <1>5

----------------------------------------------------------------------------
(* The open socket *)

SocketStep ==
  \/ Receiving \/ RecvCall \/ RecvDropped \/ SendFails \/ Close \/ CloseFails
  \/ \E frame \in Frames : Arrive(frame)
  \/ \E how \in {"dead", "eof", "broken"} : PeerGone(how)
  \/ Advance

LEMMA ConnectionKept ==
  ASSUME CredentialInv, unchangedConnection
  PROVE  CredentialInv'
BY DEF unchangedConnection, configVars, connectVars, CredentialInv, RejectedIsNotReplayed

\* A socket operation leaves what connect() has set.
LEMMA StepKeepsConnection == SocketStep => unchangedConnection
BY DEF SocketStep, Receiving, RecvFrame, RecvEnds, Tick, PingSent, PingFails, RecvCall,
  RecvDropped, SendFails, Close, CloseFails, Arrive, PeerGone, Advance

LEMMA SocketType ==
  ASSUME TypeOK, SocketStep
  PROVE  TypeOK'
<1> USE DEF TypeOK, timeVars
<1>1. unchangedConnection
  BY StepKeepsConnection
<1> DEFINE Open == /\ closed' \in BOOLEAN /\ last_close' \in BOOLEAN
                   /\ wire' \in {"up", "dead", "eof", "broken"}
                   /\ recv' \in {"idle", "select", "ping"}
                   /\ probed' \in BOOLEAN
                   /\ failure' \subseteq {"recv", "silence", "send", "close"}
           Timed == /\ inbound_age' \in 0..SilenceWindow /\ poll_age' \in 0..PingInterval
                    /\ due' \in Latest..PingInterval
                    /\ arrival_age' \in 0..SilenceWindow
           Boxed == inbox' \in Seq(Frames) /\ Len(inbox') <= MaxInbox
<1>2. CASE RecvFrame
  <2>1. inbox # <<>> /\ inbox' = Tail(inbox)
    BY <1>2 DEF RecvFrame
  <2>2. Boxed
    BY <2>1
  <2>3. Open
    BY <1>2 DEF RecvFrame, Retire, LoopTop
  <2>4. Timed
    BY <1>2 DEF RecvFrame, LoopTop, SilenceWindow
  <2> QED
    BY <1>1, <2>2, <2>3, <2>4 DEF unchangedConnection, configVars, connectVars
<1>3. CASE RecvEnds \/ PingFails
  BY <1>1, <1>3 DEF RecvEnds, PingFails, Retire, unchangedConnection, configVars, connectVars
<1>4. CASE Tick
  <2>1. Rescheduled \in Latest..PingInterval
    BY <1>4, LatestType DEF Tick, TickReady, Rescheduled
  <2> QED
    BY <1>1, <1>4, <2>1 DEF Tick, Retire, unchangedConnection, configVars, connectVars
<1>5. CASE PingSent \/ RecvCall
  <2>1. Timed
    BY <1>5 DEF PingSent, RecvCall, LoopTop, SilenceWindow
  <2>2. Open /\ Boxed
    BY <1>5 DEF PingSent, RecvCall
  <2> QED
    BY <1>1, <2>1, <2>2 DEF unchangedConnection, configVars, connectVars
<1>6. CASE RecvDropped \/ SendFails \/ Close \/ CloseFails
  <2>1. Timed /\ Boxed
    BY <1>6 DEF RecvDropped, SendFails, Close, CloseFails
  <2>2. Open
    BY <1>6 DEF RecvDropped, SendFails, Close, CloseFails
  <2> QED
    BY <1>1, <2>1, <2>2 DEF unchangedConnection, configVars, connectVars
<1>7. CASE \E frame \in Frames : Arrive(frame)
  <2>1. PICK frame \in Frames : Arrive(frame)
    BY <1>7
  <2>2. Boxed
    BY <2>1 DEF Arrive
  <2> QED
    BY <1>1, <2>1, <2>2 DEF Arrive, SilenceWindow, unchangedConnection, configVars, connectVars
<1>8. CASE \E how \in {"dead", "eof", "broken"} : PeerGone(how)
  BY <1>1, <1>8 DEF PeerGone, unchangedConnection, configVars, connectVars
<1>9. CASE Advance
  <2>1. Timed
    BY <1>9, LatestType DEF Advance, Older, SilenceWindow
  <2> QED
    BY <1>1, <1>9, <2>1 DEF Advance, unchangedConnection, configVars, connectVars
<1> QED
  BY <1>2, <1>3, <1>4, <1>5, <1>6, <1>7, <1>8, <1>9 DEF SocketStep, Receiving

LEMMA RetiredStep ==
  ASSUME TypeOK, RetiredIsIdle, SocketStep
  PROVE  RetiredIsIdle'
<1> USE DEF TypeOK, RetiredIsIdle, FailureRetires, timeVars
<1>1. phase' = phase
  BY StepKeepsConnection DEF unchangedConnection, connectVars
<1>2. CASE RecvFrame \/ RecvEnds \/ PingFails
  BY <1>1, <1>2 DEF RecvFrame, RecvEnds, PingFails, Retire
<1>3. CASE Tick \/ PingSent \/ RecvCall
  BY <1>1, <1>3 DEF Tick, PingSent, RecvCall, Retire
<1>4. CASE RecvDropped \/ SendFails \/ Close \/ CloseFails
  BY <1>1, <1>4 DEF RecvDropped, SendFails, Close, CloseFails
<1>5. CASE \E frame \in Frames : Arrive(frame)
  BY <1>1, <1>5 DEF Arrive
<1>6. CASE \E how \in {"dead", "eof", "broken"} : PeerGone(how)
  BY <1>1, <1>6 DEF PeerGone
<1>7. CASE Advance
  BY <1>1, <1>7 DEF Advance
<1> QED
  BY <1>2, <1>3, <1>4, <1>5, <1>6, <1>7 DEF SocketStep, Receiving

\* Ages: no frame is read before it has arrived.
LEMMA ReadStep ==
  ASSUME TypeOK, ReadIsOlder, SocketStep
  PROVE  ReadIsOlder'
<1> USE DEF TypeOK, ReadIsOlder, timeVars, SilenceWindow
<1>1. CASE RecvFrame
  BY <1>1 DEF RecvFrame, LoopTop
<1>2. CASE RecvEnds \/ PingFails \/ Tick
  BY <1>2 DEF RecvEnds, PingFails, Tick
<1>3. CASE PingSent \/ RecvCall
  BY <1>3 DEF PingSent, RecvCall, LoopTop
<1>4. CASE RecvDropped \/ SendFails \/ Close \/ CloseFails
  BY <1>4 DEF RecvDropped, SendFails, Close, CloseFails
<1>5. CASE \E frame \in Frames : Arrive(frame)
  <2>1. PICK frame \in Frames : Arrive(frame)
    BY <1>5
  <2>2. Append(inbox, frame) # <<>>
    OBVIOUS
  <2> QED
    BY <2>1, <2>2 DEF Arrive
<1>6. CASE \E how \in {"dead", "eof", "broken"} : PeerGone(how)
  BY <1>6 DEF PeerGone
<1>7. CASE Advance
  BY <1>7 DEF Advance, Older
<1> QED
  BY <1>1, <1>2, <1>3, <1>4, <1>5, <1>6, <1>7 DEF SocketStep, Receiving

LEMMA FreshIsShort ==
  ASSUME NEW d \in Int, d <= PingInterval, NEW p \in Nat
  PROVE  0 + d <= PingInterval /\ 0 <= 2 * PingInterval - 1 + Slack
           /\ 0 <= p + PingInterval - 1 + Slack
OBVIOUS

LEMMA UnprobedStep ==
  ASSUME TypeOK, UnprobedIsShort, SocketStep
  PROVE  UnprobedIsShort'
<1> USE LatestType DEF TypeOK, timeVars
<1>0. keepalive' = keepalive
  BY StepKeepsConnection DEF unchangedConnection, configVars
<1>1. CASE RecvFrame
  <2>1. inbound_age' = 0 /\ due' = due /\ recv' # "ping"
    BY <1>1 DEF RecvFrame, LoopTop, Retire
  <2>2. due' <= PingInterval /\ due' \in Int
    BY <2>1
  <2>3. poll_age' \in Nat
    BY <1>1 DEF RecvFrame, LoopTop
  <2>4. /\ inbound_age' + due' <= PingInterval
        /\ inbound_age' <= 2 * PingInterval - 1 + Slack
        /\ inbound_age' <= poll_age' + PingInterval - 1 + Slack
    BY <2>1, <2>2, <2>3, FreshIsShort
  <2> QED
    BY <2>1, <2>4 DEF UnprobedIsShort
<1>2. CASE RecvEnds \/ PingFails
  BY <1>0, <1>2 DEF UnprobedIsShort, Quiet, RecvEnds, PingFails, Retire
<1>3. CASE Tick
  <2>1. CASE inbound_age >= SilenceWindow
    BY <1>3, <2>1 DEF UnprobedIsShort, Quiet, Tick, Retire
  <2>2. CASE ~(inbound_age >= SilenceWindow)
    BY <1>3, <2>2 DEF UnprobedIsShort, Quiet, Tick
  <2> QED
    BY <2>1, <2>2
<1>4. CASE PingSent
  BY <1>0, <1>4 DEF UnprobedIsShort, Quiet, PingSent
<1>5. CASE RecvCall
  BY <1>0, <1>5 DEF UnprobedIsShort, Quiet, RecvCall, LoopTop
<1>6. CASE RecvDropped
  BY <1>0, <1>6 DEF UnprobedIsShort, Quiet, RecvDropped, TickReady
<1>7. CASE SendFails \/ Close \/ CloseFails
  BY <1>0, <1>7 DEF UnprobedIsShort, Quiet, SendFails, Close, CloseFails
<1>8. CASE \E frame \in Frames : Arrive(frame)
  <2>1. PICK frame \in Frames : Arrive(frame)
    BY <1>8
  <2>2. inbox' # <<>>
    BY <2>1 DEF Arrive
  <2> QED
    BY <2>1, <2>2 DEF UnprobedIsShort, Quiet, Arrive
<1>9. CASE \E how \in {"dead", "eof", "broken"} : PeerGone(how)
  BY <1>0, <1>9 DEF UnprobedIsShort, Quiet, PeerGone
<1>10. CASE Advance
  BY <1>0, <1>10 DEF UnprobedIsShort, Quiet, Advance, Older, SilenceWindow
<1> QED
  BY <1>1, <1>2, <1>3, <1>4, <1>5, <1>6, <1>7, <1>8, <1>9, <1>10
     DEF SocketStep, Receiving

\* The silence that retires a socket is real: the tick is taken with no frame
\* left to read, and without a ping the silence could not have become so long.
LEMMA SilenceStep ==
  ASSUME Inv, SocketStep
  PROVE  TimeoutIsSilence'
<1> USE DEF Inv, TypeOK, timeVars
<1>1. CASE "silence" \in failure
  <2>1. closed /\ recv = "idle"
    BY <1>1 DEF RetiredIsIdle, FailureRetires
  <2>2. UNCHANGED <<arrival_age, probed>>
    BY <2>1 DEF SocketStep, Receiving, RecvFrame, RecvEnds, Tick, PingSent, PingFails,
      RecvCall, RecvDropped, SendFails, Close, CloseFails, Arrive, PeerGone, Advance
  <2> QED
    BY <1>1, <2>2 DEF TimeoutIsSilence
<1>2. CASE "silence" \notin failure
  <2>1. CASE Tick /\ inbound_age >= SilenceWindow
    <3>1. inbox = <<>> /\ UNCHANGED <<arrival_age, probed>> /\ (Quiet \/ probed)
      BY <2>1 DEF Tick, TickReady, Quiet, RetiredIsIdle
    <3>2. arrival_age >= SilenceWindow
      BY <2>1 DEF Tick, TickReady, ReadIsOlder, SilenceWindow
    <3>3. PongTimeout >= PingInterval + Slack => probed
      BY <2>1, <3>1 DEF Tick, UnprobedIsShort, SilenceWindow
    <3> QED
      BY <2>1, <3>2, <3>3 DEF Tick, TimeoutIsSilence
  <2>2. CASE ~(Tick /\ inbound_age >= SilenceWindow)
    <3>1. "silence" \notin failure'
      BY <1>2, <2>2 DEF SocketStep, Receiving, RecvFrame, RecvEnds, Tick, PingSent,
        PingFails, RecvCall, RecvDropped, SendFails, Close, CloseFails, Arrive, PeerGone,
        Advance, Retire
    <3> QED
      BY <3>1 DEF TimeoutIsSilence
  <2> QED
    BY <2>1, <2>2
<1> QED
  BY <1>1, <1>2

LEMMA StepInv == Inv /\ [Next]_vars => Inv'
<1> SUFFICES ASSUME Inv, [Next]_vars PROVE Inv'
  OBVIOUS
<1>1. CASE Connecting \/ Renewed
  BY <1>1, ConnectingInv
<1>2. CASE SocketStep
  BY <1>2, StepKeepsConnection, ConnectionKept, SocketType, RetiredStep, ReadStep,
     UnprobedStep, SilenceStep DEF Inv
<1>3. CASE UNCHANGED vars
  BY <1>3 DEF vars, Inv, TypeOK, CredentialInv, RejectedIsNotReplayed, RetiredIsIdle,
    FailureRetires, ReadIsOlder, UnprobedIsShort, Quiet, TimeoutIsSilence
<1> QED
  BY <1>1, <1>2, <1>3 DEF Next, SocketStep

----------------------------------------------------------------------------
\* The invariant holds in every reachable state.
THEOREM Invariance == Spec => []Inv
<1> QED
  BY InitInv, StepInv, PTL DEF Spec

\* Every reachable state of a socket is well typed; in particular connect()
\* stays within its retries.
THEOREM TypeCorrect == Spec => []TypeOK
<1>1. Inv => TypeOK
  BY DEF Inv
<1> QED
  BY <1>1, Invariance, PTL

\* Whatever renews the credential meanwhile, a connect() that goes round its
\* loop after a 401 does not present the generation that was refused.
THEOREM RejectedStaysUnused == Spec => []RejectedIsNotReplayed
<1>1. Inv => RejectedIsNotReplayed
  BY DEF Inv, CredentialInv
<1> QED
  BY <1>1, Invariance, PTL

\* A socket whose recv() or send() has returned a connection failure is closed
\* and stays so.
THEOREM FailuresRetire == Spec => []FailureRetires
<1>1. Inv => FailureRetires
  BY DEF Inv, RetiredIsIdle
<1> QED
  BY <1>1, Invariance, PTL

\* For every interval, timeout and delay, the keepalive of Realtime reports a
\* silence only after one that lasted the whole window, however recv() was
\* called and dropped; with a pong_timeout that is long enough only after a
\* ping too.
THEOREM TimeoutsAreReal == Spec => []TimeoutIsSilence
<1>1. Inv => TimeoutIsSilence
  BY DEF Inv
<1> QED
  BY <1>1, Invariance, PTL
=============================================================================
