--------------------------- MODULE ClientSession ---------------------------
(***************************************************************************)
(* The client's connection manager (client/src/voice_client.cpp) and its   *)
(* network session (client/src/net_session.cpp): the token inbox, the      *)
(* connect/reconnect loop with its backoff, the receive thread and the     *)
(* heartbeat.                                                              *)
(*                                                                         *)
(* The connection thread and the receive thread share m_established,       *)
(* m_nak, m_self, m_keys and m_lastRx without a lock, so an action is what *)
(* one thread does between two accesses to shared state; `pc` and `rpc`    *)
(* are their program counters.  The relay and the network are the          *)
(* environment.  Key pairs are told apart as far as it matters: an Ack     *)
(* answers the key pair the client holds now ("ackNow") or an earlier one  *)
(* ("ackOld").                                                             *)
(*                                                                         *)
(* Times are ages that saturate one past what they are compared with.      *)
(***************************************************************************)
EXTENDS Integers

CONSTANTS
    Tokens,         \* tokens the bridge delivers
    ConnectTimeout, \* 2000 ms in the code
    RxTimeout,      \* 8000 ms in the code
    PingInterval,   \* 3000 ms in the code
    BaseBackoff,    \* 250 ms in the code
    MaxBackoff,     \* 3000 ms in the code
    NoToken

ASSUME Constants ==
    /\ ConnectTimeout \in Nat /\ RxTimeout \in Nat /\ PingInterval \in Nat
    /\ BaseBackoff \in Nat \ {0} /\ MaxBackoff \in Nat /\ BaseBackoff <= MaxBackoff
    /\ NoToken \notin Tokens

VARIABLES
    inbox,       \* TokenInbox::m_tok
    pc,          \* the connection thread
    tok,         \* its copy of the token
    timer,       \* time it has spent waiting, in "wait" and "backoff"
    backoff,     \* its local variable backoff
    lag,         \* t - m_lastRx as tick() will compute it, in "check"
    later,       \* the clock has moved since tick() sampled t
    rpc,         \* the receive thread
    msg,         \* the datagram it holds
    established, \* m_established
    nak,         \* m_nak
    keysOk,      \* m_keys were derived from an Ack to the key pair in use
    mark,        \* m_rxLastSeen: zero, a counter under m_keys, or of older keys
    rxAge,       \* now - m_lastRx
    pingAge,     \* now - m_lastPing
    answerable,  \* which requests were sent: with the present key pair, older
    presented,   \* the token of the last HandshakeReq
    dead,        \* the relay or the network is gone for good
    stopping     \* VoiceClient::stop was called

loopVars == <<pc, tok, timer, backoff, lag, later>>
recvVars == <<rpc, msg, keysOk, mark>>
envVars == <<inbox, answerable, presented, dead, stopping>>
vars == <<loopVars, recvVars, envVars, established, nak, rxAge, pingAge>>

AtMost(n, limit) == IF n < limit THEN n ELSE limit
Longest == IF ConnectTimeout > MaxBackoff THEN ConnectTimeout ELSE MaxBackoff

Init ==
    /\ inbox = NoToken /\ tok = NoToken /\ presented = NoToken
    /\ pc = "top" /\ timer = 0 /\ backoff = BaseBackoff
    /\ lag = 0 /\ later = FALSE
    /\ rpc = "none" /\ msg = "none"
    /\ established = FALSE /\ nak = FALSE /\ keysOk = FALSE /\ mark = "zero"
    /\ rxAge = RxTimeout + 1 /\ pingAge = PingInterval + 1
    /\ answerable = {} /\ dead = FALSE /\ stopping = FALSE

-----------------------------------------------------------------------------
(* VoiceClient::loop, with Session::tick and Session::connect inline *)

(* Mutant: no ping while datagrams keep arriving. *)
PingDueWhenQuiet == pingAge > PingInterval /\ rxAge > 0
PingDue == pingAge > PingInterval

(* Mutant: a ping counts as a sign of life. *)
SampledLagPing == IF PingDue THEN 0 ELSE rxAge
SampledLag == rxAge

(* tick() up to the sealed ping: t is sampled. *)
TickStart ==
    /\ pc = "top" /\ ~stopping /\ established
    /\ lag' = SampledLag /\ later' = FALSE
    /\ pingAge' = IF PingDue THEN 0 ELSE pingAge
    /\ pc' = "check"
    /\ UNCHANGED <<tok, timer, backoff, recvVars, envVars, established, nak, rxAge>>

(* The rest of tick(): the session is given up after RxTimeout of silence. *)
CheckRx ==
    /\ pc = "check"
    /\ established' = (established /\ lag <= RxTimeout)
    /\ backoff' = BaseBackoff
    /\ lag' = 0 /\ later' = FALSE
    /\ pc' = "top"
    /\ UNCHANGED <<tok, timer, recvVars, envVars, nak, rxAge, pingAge>>

(* Mutant: the first token is kept. *)
LatestCached == IF tok = NoToken THEN inbox ELSE tok
Latest == inbox

(* The session is down and the inbox has a token: an attempt begins. *)
Begin ==
    /\ pc = "top" /\ ~stopping /\ ~established /\ inbox # NoToken
    /\ tok' = Latest
    /\ pc' = "begin"
    /\ UNCHANGED <<timer, backoff, lag, later, recvVars, envVars, established, nak,
                   rxAge, pingAge>>

(* connect: a new key pair.  Every request sent so far is now an older     *)
(* one, and so is an Ack the receive thread holds.                         *)
Rekey ==
    /\ pc = "begin"
    /\ answerable' = IF answerable = {} THEN {} ELSE {"ackOld"}
    /\ msg' = IF msg = "ackNow" THEN "ackOld" ELSE msg
    /\ pc' = "keyed"
    /\ UNCHANGED <<tok, timer, backoff, lag, later, rpc, keysOk, mark, inbox,
                   presented, dead, stopping, established, nak, rxAge, pingAge>>

(* connect: the flags are cleared; the first call starts the receive thread. *)
Reset ==
    /\ pc = "keyed"
    /\ established' = FALSE /\ nak' = FALSE
    /\ rpc' = IF rpc = "none" THEN "head" ELSE rpc
    /\ pc' = "reset"
    /\ UNCHANGED <<tok, timer, backoff, lag, later, msg, keysOk, mark, envVars,
                   rxAge, pingAge>>

(* connect: the HandshakeReq goes out. *)
Request ==
    /\ pc = "reset"
    /\ answerable' = answerable \cup {"ackNow"}
    /\ presented' = tok
    /\ timer' = 0
    /\ pc' = "wait"
    /\ UNCHANGED <<tok, backoff, lag, later, recvVars, inbox, dead, stopping,
                   established, nak, rxAge, pingAge>>

(* The socket cannot be opened (only the first call tries), or the send    *)
(* fails.                                                                  *)
RequestFails ==
    /\ pc = "reset" \/ (pc = "begin" /\ rpc = "none")
    /\ timer' = 0
    /\ pc' = "backoff"
    /\ UNCHANGED <<tok, backoff, lag, later, recvVars, envVars, established, nak,
                   rxAge, pingAge>>

Connected ==
    /\ pc = "wait" /\ established
    /\ backoff' = BaseBackoff
    /\ timer' = 0
    /\ pc' = "top"
    /\ UNCHANGED <<tok, lag, later, recvVars, envVars, established, nak, rxAge,
                   pingAge>>

(* Mutant: nothing but an answer ends the wait. *)
WaitOverByAnswer == nak
WaitOver == nak \/ timer >= ConnectTimeout

(* The attempt fails: a NAK, or no answer in time. *)
Refused ==
    /\ pc = "wait" /\ ~established /\ WaitOver
    /\ timer' = 0
    /\ pc' = "backoff"
    /\ UNCHANGED <<tok, backoff, lag, later, recvVars, envVars, established, nak,
                   rxAge, pingAge>>

Doubled == AtMost(2 * backoff, MaxBackoff)

Retry ==
    /\ pc = "backoff" /\ (timer >= backoff \/ stopping)
    /\ backoff' = Doubled
    /\ timer' = 0
    /\ pc' = "top"
    /\ UNCHANGED <<tok, lag, later, recvVars, envVars, established, nak, rxAge,
                   pingAge>>

-----------------------------------------------------------------------------
(* VoiceClient::stop.  The connection thread leaves its loop; disconnect   *)
(* says Bye on an established session, clears Session::m_run, joins the    *)
(* receive thread and clears m_established, in this order.                 *)
Leave ==
    /\ pc = "top" /\ stopping
    /\ pc' = "bye"
    /\ UNCHANGED <<tok, timer, backoff, lag, later, recvVars, envVars, established,
                   nak, rxAge, pingAge>>

(* Mutant: the receive thread is not joined. *)
JoinedNot == TRUE
RecvJoined == rpc \in {"none", "head"}

Disconnect ==
    /\ pc = "bye" /\ RecvJoined
    /\ established' = FALSE
    /\ pc' = "stopped"
    /\ UNCHANGED <<tok, timer, backoff, lag, later, recvVars, envVars, nak, rxAge,
                   pingAge>>

-----------------------------------------------------------------------------
(* Session::recvLoop *)

SessionRuns == pc \notin {"bye", "stopped"}

(* The head of the loop: m_run is read, then recvFrom is entered. *)
RecvEnter ==
    /\ rpc = "head" /\ SessionRuns
    /\ rpc' = "recv"
    /\ UNCHANGED <<loopVars, msg, keysOk, mark, envVars, established, nak, rxAge,
                   pingAge>>

(* recvFrom returns without a datagram, every 200 ms. *)
RecvIdle ==
    /\ rpc = "recv"
    /\ rpc' = "head"
    /\ UNCHANGED <<loopVars, msg, keysOk, mark, envVars, established, nak, rxAge,
                   pingAge>>

(* recvFrom returns a datagram and m_lastRx is stamped.  When tick() has   *)
(* sampled its t already, the stamp is not older than t, and t - m_lastRx  *)
(* is 0 or, once the clock has moved on, negative: a large number in       *)
(* uint32_t, above any timeout.                                            *)
Receive(d) ==
    /\ rpc = "recv"
    /\ msg' = d
    /\ rxAge' = 0
    /\ lag' = CASE pc # "check" -> lag
                [] pc = "check" /\ later -> RxTimeout + 1
                [] OTHER -> 0
    /\ rpc' = "got"
    /\ UNCHANGED <<pc, tok, timer, backoff, later, keysOk, mark, envVars, established,
                   nak, pingAge>>

HandleNak ==
    /\ rpc = "got" /\ ~established /\ msg = "nak"
    /\ nak' = TRUE
    /\ rpc' = "head" /\ msg' = "none"
    /\ UNCHANGED <<loopVars, keysOk, mark, envVars, established, rxAge, pingAge>>

(* An Ack while the session is down: keys are derived from it and from     *)
(* m_self as it is now.                                                    *)
HandleAck ==
    /\ rpc = "got" /\ ~established /\ msg \in {"ackNow", "ackOld"}
    /\ keysOk' = (msg = "ackNow")
    /\ mark' = IF mark = "zero" THEN "zero" ELSE "older"
    /\ rpc' = "derived" /\ msg' = "none"
    /\ UNCHANGED <<loopVars, envVars, established, nak, rxAge, pingAge>>

(* Mutant: the mark is not reset. *)
FreshMarkKept == mark
FreshMark == "zero"

Establish ==
    /\ rpc = "derived"
    /\ mark' = FreshMark
    /\ established' = TRUE
    /\ rpc' = "head"
    /\ UNCHANGED <<loopVars, msg, keysOk, envVars, nak, rxAge, pingAge>>

(* crypto::open succeeds, and the stream goes to the playback hooks. *)
HandleSealed ==
    /\ rpc = "got" /\ established /\ msg = "sealed" /\ keysOk
    /\ mark' = "ours"
    /\ rpc' = "head" /\ msg' = "none"
    /\ UNCHANGED <<loopVars, keysOk, envVars, established, nak, rxAge, pingAge>>

(* Everything else is dropped: a sealed datagram while the session is down *)
(* or one that does not open, a handshake packet while it is up, an Ack    *)
(* from which no keys can be derived.                                      *)
HandleDrop ==
    /\ rpc = "got"
    /\ ~(msg = "nak" /\ ~established)
    /\ rpc' = "head" /\ msg' = "none"
    /\ UNCHANGED <<loopVars, keysOk, mark, envVars, established, nak, rxAge, pingAge>>

-----------------------------------------------------------------------------
(* The environment *)

(* A token datagram reaches the inbox and replaces what it held. *)
TokenArrives(t) ==
    /\ pc # "stopped"
    /\ inbox' = t
    /\ UNCHANGED <<loopVars, recvVars, answerable, presented, dead, stopping,
                   established, nak, rxAge, pingAge>>

(* Whatever the relay may have sent in reply to some request arrives now:  *)
(* late, twice or out of order.                                            *)
Arrive == \E d \in answerable \cup {"nak", "sealed"} :
            ~dead /\ answerable # {} /\ Receive(d)

RelayDies ==
    /\ ~dead /\ dead' = TRUE
    /\ UNCHANGED <<loopVars, recvVars, inbox, answerable, presented, stopping,
                   established, nak, rxAge, pingAge>>

Stop ==
    /\ ~stopping /\ stopping' = TRUE
    /\ UNCHANGED <<loopVars, recvVars, inbox, answerable, presented, dead,
                   established, nak, rxAge, pingAge>>

(* The clock moves. *)
Pass ==
    /\ rxAge' = AtMost(rxAge + 1, RxTimeout + 1)
    /\ pingAge' = AtMost(pingAge + 1, PingInterval + 1)
    /\ timer' = IF pc \in {"wait", "backoff"} THEN AtMost(timer + 1, Longest) ELSE timer
    /\ later' = (pc = "check")
    /\ UNCHANGED <<pc, tok, backoff, lag, recvVars, envVars, established, nak>>

-----------------------------------------------------------------------------
Loop ==
    \/ TickStart \/ CheckRx \/ Begin \/ Rekey \/ Reset \/ Request \/ RequestFails
    \/ Connected \/ Refused \/ Retry \/ Leave \/ Disconnect

Handle == HandleNak \/ HandleAck \/ Establish \/ HandleSealed \/ HandleDrop
Recv == RecvEnter \/ RecvIdle \/ Handle

Next ==
    \/ Loop \/ Recv \/ Arrive \/ Pass
    \/ \E t \in Tokens : TokenArrives(t)
    \/ RelayDies \/ Stop

(* Both threads keep running and the clock keeps moving; recvFrom has a    *)
(* timeout; the socket can be opened and does not refuse every send.       *)
(* Nothing obliges a token or a datagram to arrive.                        *)
Fairness ==
    /\ WF_vars(Loop) /\ WF_vars(Recv) /\ WF_vars(Pass)
    /\ SF_vars(Rekey) /\ SF_vars(Request)

Spec == Init /\ [][Next]_vars /\ Fairness

-----------------------------------------------------------------------------
(* The replay mark of an established session was never set under other     *)
(* keys: after a reconnect the relay counts from 1 again, and an old mark  *)
(* would reject everything it sends.                                       *)
MarkFresh == established => mark # "older"

(* stop() leaves nothing half alive: once it has returned the session is   *)
(* down and no late Ack brings it up again.                                *)
StopFinal == pc = "stopped" => ~established /\ rpc \in {"none", "head"}

(* stop() returns, whatever the connection thread was waiting for. *)
StopTerminates == stopping ~> pc = "stopped"

(* When the relay dies, the session is given up, although a late Ack may   *)
(* still be in the receive thread's hands, and stays down.                 *)
SilenceDetected == dead ~> []~established

(* The token in the inbox is presented to the relay, unless the session    *)
(* comes up, a newer token arrives or the client stops: no attempt with an *)
(* old token keeps a fresh one from being tried.                           *)
TokenPresented ==
    \A t \in Tokens :
      inbox = t ~> (established \/ presented = t \/ inbox # t \/ stopping)

(* While the session is up, pings go out, so that the relay's timeout only *)
(* ever meets a client that is gone.                                       *)
Heartbeat == []<>(~established \/ pingAge = 0 \/ stopping)

(* voice_client.h: "Session::tick() drops `established` when no datagram   *)
(* arrives for the rx-timeout window".                                     *)
DropOnlyOnSilence ==
    [][pc = "check" /\ established /\ ~established' => rxAge > RxTimeout]_vars
=============================================================================
