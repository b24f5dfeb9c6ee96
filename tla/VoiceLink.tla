----------------------------- MODULE VoiceLink ------------------------------
(***************************************************************************)
(* How one player gets a voice connection and gets it back: the bridge     *)
(* mints a token and sends it to the relay and to the client, the client   *)
(* exchanges it for a session, pings keep the session, and a session that  *)
(* times out makes the bridge mint again.  Composes the handlers of        *)
(* plugin.cpp, relay.cpp and net_session.cpp/voice_client.cpp over a       *)
(* network that may lose or delay `MaxFaults` datagrams.                   *)
(*                                                                         *)
(* One tick is RxTimeout of the client: in it the client makes an attempt  *)
(* (2 s plus at most 3 s of backoff) or pings (every 3 s), the relay runs  *)
(* its cleanup and the bridge its ProcessTick, and every datagram arrives, *)
(* is lost, or is late for the attempt that waits for it.  The client      *)
(* keeps one address, so the relay routes its datagrams to the session     *)
(* exactly while there is one (SessionsIndexed of RelaySession).  Names of *)
(* tokens, client key pairs and relay key pairs are used again once        *)
(* nothing mentions them.                                                  *)
(***************************************************************************)
EXTENDS Integers, Sequences, FiniteSets, FiniteSetsExt

CONSTANTS
    RxTimeout,      \* 8 s
    SessionTimeout, \* 15 s
    TokenTtl,       \* 30 s
    Faults,         \* what goes wrong: kinds of datagram lost, "late", "crash"
    MaxFaults,      \* bound: how often
    MaxLeaves,      \* bound: how often the player leaves the game
    MaxOutage,      \* ticks after which voice is back
    Names           \* bound: names of tokens and of key pairs

ASSUME Constants ==
    /\ RxTimeout \in Nat \ {0} /\ SessionTimeout \in Nat \ {0} /\ TokenTtl \in Nat \ {0}
    /\ Faults \subseteq {"req", "ack", "nak", "up", "down", "token", "late", "crash"}
    /\ MaxFaults \in Nat /\ MaxLeaves \in Nat /\ MaxOutage \in Nat
    /\ Names \subseteq Nat \ {0} /\ IsFiniteSet(Names)

VARIABLES
    inGame,   \* the player is in the game: g_playerIp has its address
    bound,    \* the relay's pending token of the player, 0 for none
    ttl,      \* its remaining life
    heard,    \* Relay::m_haveBridge
    session,  \* the relay's session: <<client key pair, relay key pair>>
    idle,     \* ticks since the session was last heard
    inbox,    \* TokenInbox: the latest token, 0 for none
    phase,    \* of the client: "idle", "wait" for an answer, or "up"
    self,     \* m_self: the key pair of the latest attempt
    peer,     \* the relay key pair the client derived its keys from
    quiet,    \* ticks since m_lastRx
    acted,    \* the client made its attempt or ping of this tick
    voiced,   \* the relay sent somebody's voice in this tick
    net,      \* datagrams between client and relay
    binds,    \* CtrlBindToken datagrams to the relay (loopback, in order)
    tokens,   \* token datagrams to the client
    status,   \* SessionTimeout events to the bridge
    faults,   \* faults so far
    leaves,   \* departures so far
    outage    \* ticks without voice since the last fault or arrival

relay == <<bound, ttl, heard, session, idle, voiced>>
client == <<inbox, phase, self, peer, quiet, acted>>
links == <<net, binds, tokens, status>>
vars == <<inGame, relay, client, links, faults, leaves, outage>>

NoSession == <<0, 0>>

Init ==
    /\ inGame = FALSE
    /\ bound = 0 /\ ttl = 0 /\ heard = FALSE /\ session = NoSession /\ idle = 0
    /\ inbox = 0 /\ phase = "idle" /\ self = 0 /\ peer = 0 /\ quiet = 0
    /\ acted = FALSE /\ voiced = FALSE
    /\ net = {} /\ binds = <<>> /\ tokens = <<>> /\ status = 0
    /\ faults = 0 /\ leaves = 0 /\ outage = 0

(* Voice flows: both ends hold the same pair of keys. *)
Linked == phase = "up" /\ session = <<self, peer>>

SeqRange(s) == {s[i] : i \in DOMAIN s}
FreshToken == Min(Names \ ({bound, inbox} \cup SeqRange(binds) \cup SeqRange(tokens)
                           \cup {m.token : m \in {n \in net : n.type = "req"}}))
FreshSelf == Min(Names \ ({self, session[1]} \cup {m.self : m \in {n \in net : n.type = "req"}}
                          \cup {m.keys[1] : m \in {n \in net : n.type = "up"}}))
FreshPeer == Min(Names \ ({peer, session[2]} \cup {m.peer : m \in {n \in net : n.type = "ack"}}
                          \cup {m.keys[2] : m \in {n \in net : n.type = "up"}}))

-----------------------------------------------------------------------------
(* The bridge *)

(* ControlLink::onPlayerConnect: bind, then deliver if an address is known. *)
Mint(deliver) ==
    /\ binds' = Append(binds, FreshToken)
    /\ tokens' = IF deliver THEN Append(tokens, FreshToken) ELSE tokens

(* Voice_OnPlayerConnect *)
PlayerConnects ==
    /\ ~inGame
    /\ inGame' = TRUE
    /\ Mint(TRUE)
    /\ outage' = 0
    /\ UNCHANGED <<relay, client, net, status, faults, leaves>>

(* Voice_OnPlayerDisconnect: the relay keeps the session and the token. *)
PlayerLeaves ==
    /\ inGame /\ leaves < MaxLeaves
    /\ inGame' = FALSE
    /\ leaves' = leaves + 1
    /\ outage' = 0
    /\ UNCHANGED <<relay, client, links, faults>>

(* ProcessTick: SessionTimeout.  Mutant: a token minted again is bound but *)
(* not delivered.                                                          *)
RemintUndelivered == Mint(FALSE)
Remint == Mint(inGame)

ProcessTick ==
    /\ status > 0
    /\ status' = status - 1
    /\ Remint
    /\ UNCHANGED <<inGame, relay, client, net, faults, leaves, outage>>

-----------------------------------------------------------------------------
(* The relay *)

RelayBinds ==
    /\ binds # <<>>
    /\ bound' = Head(binds) /\ ttl' = TokenTtl
    /\ heard' = TRUE
    /\ binds' = Tail(binds)
    /\ UNCHANGED <<inGame, session, idle, voiced, client, net, tokens, status,
                   faults, leaves, outage>>

(* audioLoop: with a session a request is taken for a sealed datagram,     *)
(* does not open and is dropped; otherwise handleHandshake.                *)
RelayRequest(m) ==
    /\ m.type = "req"
    /\ IF session # NoSession
       THEN net' = net \ {m} /\ UNCHANGED relay
       ELSE IF bound = m.token /\ ttl >= 0
       THEN /\ session' = <<m.self, FreshPeer>> /\ idle' = 0
            /\ bound' = 0 /\ ttl' = 0
            /\ net' = (net \ {m}) \cup {[type |-> "ack", peer |-> FreshPeer]}
            /\ UNCHANGED <<heard, voiced>>
       ELSE net' = (net \ {m}) \cup {[type |-> "nak"]} /\ UNCHANGED relay
    /\ UNCHANGED <<inGame, client, binds, tokens, status, faults, leaves, outage>>

(* What handleEncrypted makes of the session's age.  Mutant: any datagram  *)
(* from the address counts, whether it opens or not.                       *)
HeardAny(m) == IF session # NoSession THEN 0 ELSE idle
Heard(m) == IF session = m.keys THEN 0 ELSE idle

(* A ping: answered when it opens, otherwise dropped. *)
RelayPing(m) ==
    /\ m.type = "up"
    /\ idle' = Heard(m)
    /\ net' = (net \ {m}) \cup (IF session = m.keys THEN {[type |-> "down"]} ELSE {})
    /\ UNCHANGED <<inGame, bound, ttl, heard, session, voiced, client, binds, tokens,
                   status, faults, leaves, outage>>

(* emitToPlayer: somebody else's voice, at most once a tick. *)
RelayVoice ==
    /\ session # NoSession /\ ~voiced
    /\ voiced' = TRUE
    /\ net' = net \cup {[type |-> "down"]}
    /\ UNCHANGED <<inGame, bound, ttl, heard, session, idle, client, binds, tokens,
                   status, faults, leaves, outage>>

(* cleanupLoop *)
Stale == session # NoSession /\ idle > SessionTimeout
Lapsed == bound # 0 /\ ttl < 0
Cleanup ==
    /\ Stale \/ Lapsed
    /\ bound' = IF Lapsed THEN 0 ELSE bound
    /\ ttl' = IF Lapsed THEN 0 ELSE ttl
    /\ session' = IF Stale THEN NoSession ELSE session
    /\ idle' = IF Stale THEN 0 ELSE idle
    /\ status' = IF Stale /\ heard THEN status + 1 ELSE status
    /\ UNCHANGED <<inGame, heard, voiced, client, net, binds, tokens, faults, leaves,
                   outage>>

-----------------------------------------------------------------------------
(* The client *)

TokenArrives ==
    /\ tokens # <<>>
    /\ inbox' = Head(tokens)
    /\ tokens' = Tail(tokens)
    /\ UNCHANGED <<inGame, relay, phase, self, peer, quiet, acted, net, binds, status,
                   faults, leaves, outage>>

(* VoiceClient::loop -> Session::connect, with whatever token came last. *)
Attempt ==
    /\ phase = "idle" /\ inbox # 0 /\ ~acted
    /\ self' = FreshSelf
    /\ net' = net \cup {[type |-> "req", token |-> inbox, self |-> FreshSelf]}
    /\ phase' = "wait" /\ acted' = TRUE
    /\ UNCHANGED <<inGame, relay, inbox, peer, quiet, binds, tokens, status, faults,
                   leaves, outage>>

(* Two seconds are over.  Only a late datagram is still under way then, and *)
(* the next attempt follows soon.                                           *)
Awaited == {m \in net : m.type \in {"req", "ack", "nak"}}
GiveUp ==
    /\ phase = "wait"
    /\ Awaited = {}
    /\ phase' = "idle"
    /\ UNCHANGED <<inGame, relay, inbox, self, peer, quiet, acted, links, faults, leaves,
                   outage>>

(* recvLoop: an Ack counts whenever the client is not established, and is  *)
(* combined with the key pair of the latest attempt; a Nak ends the wait.  *)
(* Every datagram refreshes m_lastRx.                                      *)
ClientReceives(m) ==
    /\ m.type \in {"ack", "nak", "down"}
    /\ net' = net \ {m}
    /\ quiet' = 0
    /\ CASE m.type = "ack" /\ phase # "up"   -> phase' = "up" /\ peer' = m.peer
         [] m.type = "nak" /\ phase = "wait" -> phase' = "idle" /\ UNCHANGED peer
         [] OTHER                            -> UNCHANGED <<phase, peer>>
    /\ UNCHANGED <<inGame, relay, inbox, self, acted, binds, tokens, status, faults,
                   leaves, outage>>

(* Session::tick *)
Ping ==
    /\ phase = "up" /\ ~acted
    /\ acted' = TRUE
    /\ net' = net \cup {[type |-> "up", keys |-> <<self, peer>>]}
    /\ UNCHANGED <<inGame, relay, inbox, phase, self, peer, quiet, binds, tokens, status,
                   faults, leaves, outage>>

Silent == phase = "up" /\ quiet > RxTimeout
Drop ==
    /\ Silent
    /\ phase' = "idle"
    /\ UNCHANGED <<inGame, relay, inbox, self, peer, quiet, acted, links, faults, leaves,
                   outage>>

-----------------------------------------------------------------------------
(* What goes wrong *)

Fault(kind) ==
    /\ kind \in Faults /\ faults < MaxFaults
    /\ faults' = faults + 1
    /\ outage' = 0
    /\ UNCHANGED <<inGame, leaves>>

LoseDatagram ==
    \E m \in net : Fault(m.type) /\ net' = net \ {m}
                   /\ UNCHANGED <<relay, client, binds, tokens, status>>
LoseToken ==
    /\ tokens # <<>> /\ Fault("token")
    /\ tokens' = Tail(tokens)
    /\ UNCHANGED <<relay, client, net, binds, status>>
(* The attempt ends before its answer, and another one may begin. *)
Late ==
    /\ phase = "wait" /\ Awaited # {} /\ Fault("late")
    /\ phase' = "idle" /\ acted' = FALSE
    /\ UNCHANGED <<relay, inbox, self, peer, quiet, links>>

(* The relay dies and the watchdog starts another one, which knows nothing. *)
Crash ==
    /\ Fault("crash")
    /\ bound' = 0 /\ ttl' = 0 /\ heard' = FALSE /\ session' = NoSession /\ idle' = 0
    /\ binds' = <<>>
    /\ UNCHANGED <<voiced, client, net, tokens, status>>

-----------------------------------------------------------------------------
(* Time passes when everybody has done what it does in a tick. *)
Settled ==
    /\ net = {} /\ binds = <<>> /\ tokens = <<>> /\ status = 0
    /\ ~Stale /\ ~Lapsed /\ ~Silent /\ phase # "wait"
    /\ acted \/ (phase = "idle" /\ inbox = 0)

Tick ==
    /\ Settled
    /\ quiet' = IF phase = "up" THEN quiet + 1 ELSE 0
    /\ idle' = IF session # NoSession THEN idle + 1 ELSE 0
    /\ ttl' = IF bound # 0 THEN ttl - 1 ELSE 0
    /\ acted' = FALSE /\ voiced' = FALSE
    /\ outage' = IF ~inGame \/ Linked THEN 0
                 ELSE IF outage <= MaxOutage THEN outage + 1 ELSE outage
    /\ UNCHANGED <<inGame, bound, heard, session, inbox, phase, self, peer, links, faults,
                   leaves>>

Step ==
    \/ PlayerConnects \/ ProcessTick
    \/ RelayBinds \/ Cleanup \/ (\E m \in net : RelayRequest(m) \/ RelayPing(m))
    \/ TokenArrives \/ Attempt \/ GiveUp \/ Ping \/ Drop
    \/ (\E m \in net : ClientReceives(m))
    \/ Tick

Next == Step \/ PlayerLeaves \/ RelayVoice \/ LoseDatagram \/ Late

(* The threads of the client, the relay and the bridge keep running and    *)
(* the clock advances.  Nothing makes a fault, a departure or the voice of *)
(* another player happen.                                                  *)
Spec == Init /\ [][Next]_vars /\ WF_vars(Step)

(* The same, with the two faults nothing in the code recovers from. *)
HarshNext == Next \/ LoseToken \/ Crash
HarshSpec == Init /\ [][HarshNext]_vars /\ WF_vars(Step)

-----------------------------------------------------------------------------
(* However the faults fall, in the end a player who is in the game has a   *)
(* voice connection: both ends established under the same keys.            *)
LinkSettles == <>[](~inGame \/ Linked)

(* And soon: after the last fault or arrival it takes at most MaxOutage    *)
(* ticks, through every combination of a session only one side knows of,   *)
(* keys that do not match and a token that was used up.                    *)
BackInTime == outage <= MaxOutage
=============================================================================
