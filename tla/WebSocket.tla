----------------------------- MODULE WebSocket -----------------------------
(***************************************************************************)
(* The two WebSockets of the client: the Responses socket, whose first     *)
(* handshake may be retried, and the Realtime socket, whose handshake is   *)
(* not and whose recv() drives an optional keepalive.  They share the      *)
(* renewal of a rejected credential, the way a failure retires the socket, *)
(* send and close.                                                         *)
(*                                                                         *)
(* Time is counted in steps, an Instant is kept as its age, and an age     *)
(* stops growing where the code no longer tells it from a greater one.     *)
(***************************************************************************)
EXTENDS Integers, Sequences

CONSTANTS
  MaxRetries,     \* max_retries of WebSocketReconnectPolicy::InitialConnect
  MaxGeneration,  \* bound on the generations of the credential
  MaxInbox,       \* bound on the frames that wait to be read
  PingInterval,
  PongTimeout,
  Grace,          \* a tick this late keeps its schedule (5 ms in tokio)
  Slack           \* the most a runnable task is late

ASSUME WebSocketAssumption ==
  /\ MaxRetries \in Nat /\ MaxGeneration \in Nat /\ MaxInbox \in Nat
  /\ PingInterval \in Nat \ {0} /\ PongTimeout \in Nat \ {0}
  /\ Grace \in Nat /\ Slack \in Nat
  /\ MaxGeneration > 1

VARIABLES
  kind,           \* "responses" or "realtime"
  keepalive,      \* RealtimeWebSocketConfig::keepalive is set
  credential,     \* "static" (no generation) or "token"
  phase,          \* of connect()
  retries,
  auth_refreshed,
  generation,     \* of the authorization of the handshake; 0 is None
  current,        \* the generation the credential source hands out
  rejected,       \* history: the generations a handshake was refused with
  closed,
  last_close,     \* a close frame of the peer was kept
  wire,           \* what the peer does: "up", "dead", "eof" or "broken"
  inbox,          \* frames that arrived and are not read
  recv,           \* "idle", "select" (awaits a frame or the ticker) or "ping"
  inbound_age,    \* of last_inbound
  poll_age,       \* of last_poll
  due,            \* time until the next tick; negative when it is late
  arrival_age,    \* history: of the last frame that arrived
  probed,         \* history: a ping was handed over since the last frame was read
  failure         \* history: the calls that returned a connection failure

vars == <<kind, keepalive, credential, phase, retries, auth_refreshed,
          generation, current, rejected, closed, last_close, wire,
          inbox, recv, inbound_age, poll_age, due, arrival_age, probed, failure>>

configVars == <<kind, keepalive, credential>>
connectVars == <<phase, retries, auth_refreshed, generation, rejected>>
timeVars == <<inbound_age, poll_age, due>>
socketVars == <<closed, last_close, wire, inbox, recv, timeVars, arrival_age,
                probed, failure>>

SilenceWindow == PingInterval + PongTimeout

\* A tick that is later than this is neither on schedule nor waited for.
Latest == -(IF Grace < Slack THEN Slack ELSE Grace) - 1

Frames == {"event", "undecodable", "oversized", "control", "binary",
           "close", "close_coded"}

Generations == 0..MaxGeneration

TypeOK ==
  /\ kind \in {"responses", "realtime"} /\ keepalive \in BOOLEAN
  /\ credential \in {"static", "token"}
  /\ phase \in {"authorize", "handshake", "invalidate", "pause", "open", "failed"}
  /\ retries \in 0..MaxRetries /\ auth_refreshed \in BOOLEAN
  /\ generation \in Generations /\ current \in Generations
  /\ rejected \subseteq Generations
  /\ closed \in BOOLEAN /\ last_close \in BOOLEAN
  /\ wire \in {"up", "dead", "eof", "broken"}
  /\ inbox \in Seq(Frames) /\ Len(inbox) <= MaxInbox
  /\ recv \in {"idle", "select", "ping"}
  /\ inbound_age \in 0..SilenceWindow /\ poll_age \in 0..PingInterval
  /\ due \in Latest..PingInterval
  /\ arrival_age \in 0..SilenceWindow
  /\ probed \in BOOLEAN
  /\ failure \subseteq {"recv", "silence", "send", "close"}

Init ==
  /\ kind \in {"responses", "realtime"}
  /\ keepalive \in (IF kind = "realtime" THEN BOOLEAN ELSE {FALSE})
  /\ credential \in {"static", "token"}
  /\ phase = "authorize"
  /\ retries = 0 /\ auth_refreshed = FALSE
  /\ generation = 0 /\ current = 1
  /\ rejected = {}
  /\ closed = FALSE /\ last_close = FALSE
  /\ wire = "up" /\ inbox = <<>> /\ recv = "idle"
  /\ inbound_age = 0 /\ poll_age = 0 /\ due = PingInterval
  /\ arrival_age = 0 /\ probed = FALSE /\ failure = {}

----------------------------------------------------------------------------
\* The budget of the policy; a Realtime handshake is never retried.
RetryBudget == IF kind = "responses" THEN MaxRetries ELSE 0

\* transport.authorization(): a lease of the current generation.
Authorize ==
  /\ phase = "authorize"
  /\ phase' = "handshake"
  /\ generation' = IF credential = "token" THEN current ELSE 0
  /\ UNCHANGED <<configVars, retries, auth_refreshed, rejected, current, socketVars>>

AuthorizeFails ==
  /\ phase = "authorize"
  /\ phase' = "failed"
  /\ UNCHANGED <<configVars, retries, auth_refreshed, generation, rejected,
                 current, socketVars>>

\* The handshake succeeds: the ticker, last_inbound and last_poll start, and
\* the locals of connect() are gone.
Connected ==
  /\ phase = "handshake"
  /\ phase' = "open"
  /\ retries' = 0 /\ auth_refreshed' = FALSE /\ generation' = 0
  /\ rejected' = {}
  /\ UNCHANGED <<configVars, current, socketVars>>

\* 401 to a leased credential, once per connect().
Unauthorized ==
  /\ phase = "handshake"
  /\ generation # 0
  /\ ~auth_refreshed
  /\ rejected' = rejected \cup {generation}
  /\ auth_refreshed' = TRUE
  /\ phase' = "invalidate"
  /\ UNCHANGED <<configVars, retries, generation, current, socketVars>>

\* Mutants: the refused generation stays current; connect() waits until another
\* request has renewed it.
InvalidateNothing ==
  /\ phase = "invalidate"
  /\ phase' = "authorize"
  /\ UNCHANGED <<configVars, retries, auth_refreshed, generation, rejected,
                 current, socketVars>>

InvalidateWaits ==
  /\ phase = "invalidate"
  /\ current # generation
  /\ phase' = "authorize"
  /\ UNCHANGED <<configVars, retries, auth_refreshed, generation, rejected,
                 current, socketVars>>

\* invalidate_authorization(): only the generation that was refused.
Invalidate ==
  /\ phase = "invalidate"
  /\ current' = IF current = generation THEN current + 1 ELSE current
  /\ phase' = "authorize"
  /\ UNCHANGED <<configVars, retries, auth_refreshed, generation, rejected,
                 socketVars>>

\* A timeout, an I/O or TLS error, or a status the REST client retries too.
RetryHandshake ==
  /\ phase = "handshake"
  /\ retries < RetryBudget
  /\ retries' = retries + 1
  /\ phase' = "pause"
  /\ UNCHANGED <<configVars, auth_refreshed, generation, rejected,
                 current, socketVars>>

Pause ==
  /\ phase = "pause"
  /\ phase' = "authorize"
  /\ UNCHANGED <<configVars, retries, auth_refreshed, generation, rejected,
                 current, socketVars>>

\* Any error that is not retried: the budget is spent, the status is not a
\* retryable one, or it is a 401 to a static key or after the renewal.
HandshakeFails(unauthorized) ==
  /\ phase = "handshake"
  /\ unauthorized => generation = 0 \/ auth_refreshed
  /\ phase' = "failed"
  /\ rejected' = IF unauthorized THEN rejected \cup {generation} ELSE rejected
  /\ UNCHANGED <<configVars, retries, auth_refreshed, generation,
                 current, socketVars>>

\* Another request of the client renews the credential.
Renewed ==
  /\ credential = "token" /\ phase \notin {"open", "failed"}
  /\ current < MaxGeneration - 1
  /\ current' = current + 1
  /\ UNCHANGED <<configVars, connectVars, socketVars>>

----------------------------------------------------------------------------
unchangedConnection == UNCHANGED <<configVars, connectVars, current>>

\* The top of the loop of recv(): after a gap of a ping interval the silence
\* window starts anew.  age is that of last_inbound before.
LoopTop(age) ==
  /\ inbound_age' = IF keepalive /\ poll_age >= PingInterval THEN 0 ELSE age
  /\ poll_age' = 0

RecvCall ==
  /\ phase = "open" /\ recv = "idle" /\ ~closed
  /\ recv' = "select"
  /\ LoopTop(inbound_age)
  /\ UNCHANGED <<closed, last_close, wire, inbox, due, arrival_age, probed, failure>>
  /\ unchangedConnection

\* Mutant: the ticker is polled before the frames that wait.
TickReadyFirst == keepalive /\ due <= 0 /\ wire \in {"up", "dead"}

TickReady == keepalive /\ due <= 0 /\ inbox = <<>> /\ wire \in {"up", "dead"}

\* The caller drops the future of recv(); the poll that went through the top of
\* the loop took a tick that was ready.
RecvDropped ==
  /\ recv # "idle"
  /\ ~(recv = "select" /\ poll_age = 0 /\ TickReady)
  /\ recv' = "idle"
  /\ UNCHANGED <<closed, last_close, wire, inbox, timeVars, arrival_age, probed,
                 failure>>
  /\ unchangedConnection

\* The socket is retired, with an error or at the end of the stream.
Retire(why) ==
  /\ closed' = TRUE
  /\ recv' = "idle"
  /\ failure' = failure \cup why

\* recv() takes a frame: what it decodes to decides between returning, going
\* on and retiring the socket.
RecvFrame ==
  /\ recv = "select" /\ inbox # <<>>
  /\ LET frame == Head(inbox) IN
       /\ inbox' = Tail(inbox)
       /\ last_close' = (last_close \/ frame = "close_coded")
       /\ \/ /\ frame \in {"event", "undecodable"}
             /\ recv' = "idle" /\ inbound_age' = 0
             /\ UNCHANGED <<closed, failure, poll_age>>
          \/ /\ frame = "control"
             /\ LoopTop(0)
             /\ UNCHANGED <<closed, failure, recv>>
          \/ /\ frame \in {"oversized", "binary"}
             /\ Retire({"recv"}) /\ inbound_age' = 0
             /\ UNCHANGED poll_age
          \/ /\ frame \in {"close", "close_coded"}
             /\ Retire({}) /\ inbound_age' = 0
             /\ UNCHANGED poll_age
  /\ probed' = FALSE
  /\ UNCHANGED <<wire, due, arrival_age>>
  /\ unchangedConnection

\* The stream ended or a read failed.
RecvEnds ==
  /\ recv = "select" /\ inbox = <<>>
  /\ \/ wire = "eof" /\ Retire({})
     \/ wire = "broken" /\ Retire({"recv"})
  /\ UNCHANGED <<last_close, wire, inbox, timeVars, arrival_age, probed>>
  /\ unchangedConnection

\* MissedTickBehavior::Delay
Rescheduled == IF due < -Grace THEN PingInterval ELSE due + PingInterval

\* The ticker fires and no frame waits: the peer was silent for too long, or a
\* ping is sent.
Tick ==
  /\ recv = "select"
  /\ TickReady
  /\ due' = Rescheduled
  /\ IF inbound_age >= SilenceWindow
     THEN Retire({"silence"}) /\ UNCHANGED probed
     ELSE recv' = "ping" /\ probed' = TRUE /\ UNCHANGED <<closed, failure>>
  /\ UNCHANGED <<last_close, wire, inbox, inbound_age, poll_age, arrival_age>>
  /\ unchangedConnection

PingSent ==
  /\ recv = "ping"
  /\ recv' = "select"
  /\ LoopTop(inbound_age)
  /\ UNCHANGED <<closed, last_close, wire, inbox, due, arrival_age, probed, failure>>
  /\ unchangedConnection

PingFails ==
  /\ recv = "ping" /\ wire = "broken"
  /\ Retire({"recv"})
  /\ UNCHANGED <<last_close, wire, inbox, timeVars, arrival_age, probed>>
  /\ unchangedConnection

\* Mutant: a failed send leaves the socket open.
SendFailsOpen ==
  /\ phase = "open" /\ recv = "idle" /\ ~closed
  /\ failure' = failure \cup {"send"}
  /\ UNCHANGED <<closed, last_close, wire, inbox, recv, timeVars, arrival_age, probed>>
  /\ unchangedConnection

\* send() of an event that passes the local checks; the others change nothing.
SendFails ==
  /\ phase = "open" /\ recv = "idle" /\ ~closed
  /\ closed' = TRUE
  /\ failure' = failure \cup {"send"}
  /\ UNCHANGED <<last_close, wire, inbox, recv, timeVars, arrival_age, probed>>
  /\ unchangedConnection

Close ==
  /\ phase = "open" /\ recv = "idle" /\ ~closed
  /\ closed' = TRUE
  /\ UNCHANGED <<last_close, wire, inbox, recv, timeVars, arrival_age, probed, failure>>
  /\ unchangedConnection

\* close() returns the error before it sets closed.
CloseFails ==
  /\ phase = "open" /\ recv = "idle" /\ ~closed
  /\ wire # "up"
  /\ failure' = failure \cup {"close"}
  /\ UNCHANGED <<closed, last_close, wire, inbox, recv, timeVars, arrival_age, probed>>
  /\ unchangedConnection

----------------------------------------------------------------------------
\* A frame of the peer arrives.
Arrive(frame) ==
  /\ phase = "open" /\ ~closed /\ wire = "up" /\ Len(inbox) < MaxInbox
  /\ inbox' = Append(inbox, frame)
  /\ arrival_age' = 0
  /\ UNCHANGED <<closed, last_close, wire, recv, timeVars, probed, failure>>
  /\ unchangedConnection

\* The peer is gone: without a trace, or the connection ends or breaks.
PeerGone(how) ==
  /\ phase = "open" /\ ~closed /\ wire = "up"
  /\ wire' = how
  /\ UNCHANGED <<closed, last_close, inbox, recv, timeVars, arrival_age, probed, failure>>
  /\ unchangedConnection

Older(age, cap) == IF age < cap THEN age + 1 ELSE cap

\* Time passes, but not while recv() has been runnable for as long as the
\* runtime takes to poll it.
Advance ==
  /\ phase = "open" /\ keepalive /\ ~closed
  /\ recv = "select" =>
       /\ inbox = <<>> /\ wire \in {"up", "dead"}
       /\ due > -Slack
  /\ inbound_age' = Older(inbound_age, SilenceWindow)
  /\ poll_age' = Older(poll_age, PingInterval)
  /\ arrival_age' = Older(arrival_age, SilenceWindow)
  /\ due' = IF due > Latest THEN due - 1 ELSE due
  /\ UNCHANGED <<closed, last_close, wire, inbox, recv, probed, failure>>
  /\ unchangedConnection

Connecting ==
  \/ Authorize \/ AuthorizeFails \/ Connected \/ Unauthorized \/ Invalidate
  \/ RetryHandshake \/ Pause
  \/ \E u \in BOOLEAN : HandshakeFails(u)

Receiving == RecvFrame \/ RecvEnds \/ Tick \/ PingSent \/ PingFails

Next ==
  \/ Connecting \/ Receiving
  \/ Renewed
  \/ RecvCall \/ RecvDropped \/ SendFails \/ Close \/ CloseFails
  \/ \E frame \in Frames : Arrive(frame)
  \/ \E how \in {"dead", "eof", "broken"} : PeerGone(how)
  \/ Advance

\* Every await of connect() ends: the authorization and the handshake have the
\* connect timeout, the pause is a sleep.  A recv() that is awaited is polled
\* when a frame or a tick is ready, the write of a ping ends, and time passes.
Fairness == WF_vars(Connecting) /\ WF_vars(Receiving) /\ WF_vars(Advance)

Spec == Init /\ [][Next]_vars /\ Fairness

----------------------------------------------------------------------------
\* A credential that a handshake was refused with is not presented again by
\* this connect(), whoever renews it in between.
RejectedIsNotReplayed ==
  phase = "handshake" /\ generation # 0 => generation \notin rejected

\* After recv() or send() has returned a failure of the connection the socket
\* is retired, so that no later call touches it.
FailureRetires == failure \cap {"recv", "silence", "send"} # {} => closed

\* The keepalive retires a socket only when no frame arrived for the whole
\* silence window (frames that came while recv() was not awaited count), and,
\* when pong_timeout covers a ping interval and the delay of the runtime, a
\* ping was sent into that silence.
TimeoutIsSilence ==
  "silence" \in failure =>
    /\ arrival_age >= SilenceWindow
    /\ PongTimeout >= PingInterval + Slack => probed

\* connect() returns, however handshakes fail.
ConnectReturns == <>(phase \in {"open", "failed"})

\* The keepalive "fails [...] once more than ping_interval + pong_timeout has
\* elapsed without any inbound frame" (RealtimeKeepalive): a recv() that stays
\* awaited does not wait for ever for a peer that is gone.
DeadPeerIsReported ==
  ~<>[](keepalive /\ wire = "dead" /\ recv # "idle" /\ inbox = <<>>)
=============================================================================
