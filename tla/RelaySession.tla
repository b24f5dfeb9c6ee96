---------------------------- MODULE RelaySession ----------------------------
(***************************************************************************)
(* The session half of the relay process (relay/src/relay.cpp): the table  *)
(* of pending tokens, the authenticated sessions, the address index that   *)
(* routes a datagram to its session, the name roster and the cleanup pass. *)
(*                                                                         *)
(* Three threads (controlLoop, audioLoop, cleanupLoop) take m_mtx around   *)
(* every handler, so one handler is one action.  The clients and the       *)
(* network are the environment: any datagram may arrive from any address,  *)
(* late, twice or out of order.                                            *)
(*                                                                         *)
(* Time is kept as ages, in seconds: `idle` is now - lastSeen, `ttl` is    *)
(* expiresUnix - now.  Both saturate one past the value the code compares  *)
(* them with, so no bound on the clock is needed.                          *)
(***************************************************************************)
EXTENDS Integers, FiniteSets

CONSTANTS
    Players,          \* player ids the bridge uses
    Addrs,            \* client UDP endpoints (ip:port)
    Ips,              \* client IP addresses
    IpOf,             \* the IP address of an endpoint
    Loopback,         \* the endpoints whose IP is 127/8
    Tokens,           \* tokens the bridge can mint
    MaxPlayers,       \* [relay] max_players
    IpSecondaryCheck, \* [relay] ip_secondary_check
    SessionTimeout,   \* 15 in the code
    TokenTtl,         \* [security] token_ttl
    MaxKeys,          \* bound: accepted handshakes
    MaxCounter,       \* bound: counters a client seals with
    MaxSends,         \* bound: datagrams sealed for one session
    NoSession, NoPlayer, AnyIp

ASSUME Constants ==
    /\ IpOf \in [Addrs -> Ips]
    /\ Loopback \subseteq Addrs
    /\ MaxPlayers \in Nat /\ SessionTimeout \in Nat /\ TokenTtl \in Nat
    /\ MaxKeys \in Nat /\ MaxCounter \in Nat /\ MaxSends \in Nat
    /\ IpSecondaryCheck \in BOOLEAN
    /\ IsFiniteSet(Players)
    /\ NoPlayer \notin Players
    /\ AnyIp \notin Ips

Keys == 1..MaxKeys
Counters == 0..MaxCounter

(* struct Session.  `key` names the key pair of one accepted handshake: a  *)
(* sealed datagram opens only under the key it was sealed with.            *)
Session == [addr : Addrs, key : Keys, rx : Counters,
            tx : 1..(MaxSends + 1), idle : 0..(SessionTimeout + 1)]

(* struct PendingToken; expectedIp = 0 is AnyIp. *)
Pending == [token : Tokens, pid : Players, ip : Ips \cup {AnyIp},
            ttl : -1..TokenTtl]

ASSUME NoSessionAssumption == NoSession \notin Session

VARIABLES
    sessions,   \* m_sessions
    addrIndex,  \* m_addrIndex
    pending,    \* m_pending
    names,      \* the players that have an entry in m_names
    haveBridge, \* m_haveBridge
    timeouts,   \* SessionTimeout events sent and not yet answered by a re-mint
    nkeys,      \* handshakes accepted so far; names the next key
    owner,      \* history: the player a token was minted for
    spent,      \* history: tokens redeemed or superseded
    opened,     \* history: <<key, counter>> pairs processed as authentic
    reopened    \* history: pairs processed more than once

vars == <<sessions, addrIndex, pending, names, haveBridge, timeouts, nkeys,
          owner, spent, opened, reopened>>
history == <<owner, spent, opened, reopened>>

Live == {p \in Players : sessions[p] # NoSession}

(* Mutant: a session past its timeout no longer counts as established. *)
RoutedUnlessIdle(a) ==
    /\ addrIndex[a] # NoPlayer /\ sessions[addrIndex[a]] # NoSession
    /\ sessions[addrIndex[a]].idle <= SessionTimeout

(* audioLoop: the address is indexed and the indexed player has an         *)
(* established session; otherwise the datagram is taken as a handshake.    *)
Routed(a) == addrIndex[a] # NoPlayer /\ sessions[addrIndex[a]] # NoSession

(* emitToPlayer, once for every player of S that has a session.  The       *)
(* bound MaxSends stops a step that would seal more.                       *)
CanEmit(S) == \A p \in S \cap Live : sessions[p].tx <= MaxSends
Emit(ss, S) == [p \in Players |->
    IF p \in S /\ ss[p] # NoSession THEN [ss[p] EXCEPT !.tx = @ + 1] ELSE ss[p]]

(* Drop the sessions of D from m_sessions. *)
DropSessions(D) == [p \in Players |-> IF p \in D THEN NoSession ELSE sessions[p]]

(* m_addrIndex.erase(packAddr(s.addr)) for the session of every player of D. *)
DropAddrs(D) == [a \in Addrs |->
    IF \E p \in D : sessions[p].addr = a THEN NoPlayer ELSE addrIndex[a]]

-----------------------------------------------------------------------------
Init ==
    /\ sessions = [p \in Players |-> NoSession]
    /\ addrIndex = [a \in Addrs |-> NoPlayer]
    /\ pending = {}
    /\ names = {}
    /\ haveBridge = FALSE
    /\ timeouts = {}
    /\ nkeys = 0
    /\ owner = [t \in Tokens |-> NoPlayer]
    /\ spent = {} /\ opened = {} /\ reopened = {}

-----------------------------------------------------------------------------
(* controlLoop *)

(* CtrlBindToken: a freshly minted token replaces whatever the player had. *)
BindToken(p, t, ip) ==
    /\ owner[t] = NoPlayer
    /\ LET old == {pt \in pending : pt.pid = p}
       IN  /\ pending' = (pending \ old) \cup
                         {[token |-> t, pid |-> p, ip |-> ip, ttl |-> TokenTtl]}
           /\ spent' = spent \cup {pt.token : pt \in old}
    /\ haveBridge' = TRUE
    /\ owner' = [owner EXCEPT ![t] = p]
    /\ timeouts' = timeouts \ {p}
    /\ UNCHANGED <<sessions, addrIndex, names, nkeys, opened, reopened>>

(* CtrlPlayerName: remembered, and sent to every established session. *)
PlayerName(p) ==
    /\ CanEmit(Players)
    /\ haveBridge' = TRUE
    /\ names' = names \cup {p}
    /\ sessions' = Emit(sessions, Players)
    /\ UNCHANGED <<addrIndex, pending, timeouts, nkeys, history>>

(* CtrlPlayerGone: the roster entry goes, the session and the pending      *)
(* token stay.  The engine's own cleanup is the business of EngineCore.    *)
PlayerGone(p) ==
    /\ haveBridge' = TRUE
    /\ names' = names \ {p}
    /\ UNCHANGED <<sessions, addrIndex, pending, timeouts, nkeys, history>>

(* Every other control packet goes straight to Engine::onControl; a        *)
(* CtrlTransmit may make it send a beep to a set S of players.             *)
EngineControl(S) ==
    /\ CanEmit(S)
    /\ haveBridge' = TRUE
    /\ sessions' = Emit(sessions, S)
    /\ UNCHANGED <<addrIndex, pending, names, timeouts, nkeys, history>>

-----------------------------------------------------------------------------
(* audioLoop -> handleHandshake *)

(* Mutant: an expired token that was not swept yet still matches. *)
MatchingExpired(t) == {pt \in pending : pt.token = t}

(* The pending entries a presented token matches: not expired, equal. *)
Matching(t) == {pt \in pending : pt.ttl >= 0 /\ pt.token = t}

IpOk(pt, a) ==
    \/ ~IpSecondaryCheck
    \/ pt.ip = AnyIp
    \/ a \in Loopback
    \/ IpOf[a] = pt.ip

(* The checks before the token is consumed: version (NAK 2), room in the   *)
(* session table (NAK 3), a matching token (NAK 0), its IP (NAK 0).        *)
Admitted(a, verOk, t) ==
    /\ verOk
    /\ Cardinality(Live) < MaxPlayers
    /\ \E pt \in Matching(t) : IpOk(pt, a)

(* A NAK changes nothing: in particular the token is not consumed. *)
HandshakeNak(a, verOk, t) ==
    /\ ~Routed(a)
    /\ ~Admitted(a, verOk, t)
    /\ UNCHANGED vars

(* deriveSession fails on the client's public key: the token is consumed   *)
(* already, and the client gets a NAK.                                     *)
HandshakeDeriveFails(a, t) ==
    /\ ~Routed(a)
    /\ Admitted(a, TRUE, t)
    /\ pending' = pending \ Matching(t)
    /\ spent' = spent \cup {t}
    /\ UNCHANGED <<sessions, addrIndex, names, haveBridge, timeouts, nkeys,
                   owner, opened, reopened>>

(* Mutants: the relay reuses its key pair; the send counter starts at 0. *)
NewSessionOldKey(a) == [addr |-> a, key |-> nkeys, rx |-> 0, tx |-> 1, idle |-> 0]
NewSessionFromZero(a) == [addr |-> a, key |-> nkeys + 1, rx |-> 0, tx |-> 0, idle |-> 0]

NewSession(a) == [addr |-> a, key |-> nkeys + 1, rx |-> 0, tx |-> 1, idle |-> 0]

(* The whole roster is sent to the new session: one datagram per name. *)
Greet(s) == [s EXCEPT !.tx = @ + Cardinality(names)]

(* The token leaves the table.  Mutant: it stays until it expires. *)
ConsumeLater(pt) == pending
Consume(pt) == pending \ {pt}

(* The handshake succeeds.  A session the player already had is            *)
(* overwritten; its address keeps its entry in the index.                  *)
HandshakeAck(a, t) ==
    /\ ~Routed(a)
    /\ Admitted(a, TRUE, t)
    /\ nkeys < MaxKeys
    /\ Cardinality(names) <= MaxSends
    /\ \E pt \in Matching(t) :
         /\ sessions' = [sessions EXCEPT ![pt.pid] = Greet(NewSession(a))]
         /\ addrIndex' = [addrIndex EXCEPT ![a] = pt.pid]
         /\ pending' = Consume(pt)
    /\ nkeys' = nkeys + 1
    /\ spent' = spent \cup {t}
    /\ UNCHANGED <<names, haveBridge, timeouts, owner, opened, reopened>>

-----------------------------------------------------------------------------
(* audioLoop -> handleEncrypted *)

(* Mutant: a counter equal to the mark is accepted. *)
OpensRepeat(s, k, c) == s.key = k /\ ~(c # 0 /\ c < s.rx)

(* crypto::open: the MAC must verify under the session's key, and a        *)
(* non-zero counter must be above the high-water mark.                     *)
Opens(s, k, c) == s.key = k /\ ~(c # 0 /\ c <= s.rx)

(* What open() and the heartbeat leave in the session. *)
Heard(s, c) == [s EXCEPT !.rx = IF c > s.rx THEN c ELSE s.rx, !.idle = 0]

Remember(k, c) ==
    /\ opened' = opened \cup {<<k, c>>}
    /\ reopened' = reopened \cup ({<<k, c>>} \cap opened)

(* A datagram that does not open is dropped: wrong key, corrupted, or an   *)
(* old counter.                                                            *)
DropEncrypted(a, k, c) ==
    /\ Routed(a)
    /\ ~Opens(sessions[addrIndex[a]], k, c)
    /\ UNCHANGED vars

(* A datagram that opens refreshes its session; whatever it carries, the   *)
(* relay then sends one datagram to each player of S.                      *)
Accept(a, k, c, S) ==
    /\ Routed(a)
    /\ CanEmit(S)
    /\ LET p == addrIndex[a]
       IN  /\ Opens(sessions[p], k, c)
           /\ sessions' = Emit([sessions EXCEPT ![p] = Heard(@, c)], S)
    /\ Remember(k, c)
    /\ UNCHANGED <<addrIndex, pending, names, haveBridge, timeouts, nkeys,
                   owner, spent>>

(* AudioUp: the engine sends the frame on to the listeners S (none when    *)
(* the packet is malformed or of an unknown type).                         *)
AudioUp(a, k, c, S) == Accept(a, k, c, S)

(* Ping: answered with a Pong. *)
Ping(a, k, c) == Accept(a, k, c, {addrIndex[a]})

(* Bye: the session and its index entry go; the bridge is not told. *)
Bye(a, k, c) ==
    /\ Routed(a)
    /\ LET p == addrIndex[a]
       IN  /\ Opens(sessions[p], k, c)
           /\ sessions' = DropSessions({p})
           /\ addrIndex' = DropAddrs({p})
    /\ Remember(k, c)
    /\ UNCHANGED <<pending, names, haveBridge, timeouts, nkeys, owner, spent>>

-----------------------------------------------------------------------------
(* Mutants: only players of the roster time out; tokens are not swept; the *)
(* bridge hears of nobody but players of the roster.                       *)
ExpiredNamed == {p \in Live \cap names : sessions[p].idle > SessionTimeout}
UnexpiredAll == pending
ToldNamed(E) == IF haveBridge THEN timeouts \cup (E \cap names) ELSE timeouts

Expired == {p \in Live : sessions[p].idle > SessionTimeout}
Unexpired == {pt \in pending : pt.ttl >= 0}

(* emitStatus(SessionTimeout), which needs the bridge's address. *)
Told(E) == IF haveBridge THEN timeouts \cup E ELSE timeouts

(* cleanupLoop: expired tokens go; idle sessions go, and the bridge is told. *)
Cleanup ==
    /\ pending' = Unexpired
    /\ sessions' = DropSessions(Expired)
    /\ addrIndex' = DropAddrs(Expired)
    /\ timeouts' = Told(Expired)
    /\ UNCHANGED <<names, haveBridge, nkeys, history>>

(* A second passes. *)
Tick ==
    /\ sessions' = [p \in Players |->
         IF sessions[p] = NoSession \/ sessions[p].idle > SessionTimeout
         THEN sessions[p] ELSE [sessions[p] EXCEPT !.idle = @ + 1]]
    /\ pending' = {[pt EXCEPT !.ttl = IF @ >= 0 THEN @ - 1 ELSE @] : pt \in pending}
    /\ UNCHANGED <<addrIndex, names, haveBridge, timeouts, nkeys, history>>

-----------------------------------------------------------------------------
Control ==
    \/ \E p \in Players, t \in Tokens, ip \in Ips \cup {AnyIp} : BindToken(p, t, ip)
    \/ \E p \in Players : PlayerName(p) \/ PlayerGone(p)
    \/ \E S \in SUBSET Players : EngineControl(S)

Audio ==
    \/ \E a \in Addrs, verOk \in BOOLEAN, t \in Tokens : HandshakeNak(a, verOk, t)
    \/ \E a \in Addrs, t \in Tokens : HandshakeDeriveFails(a, t) \/ HandshakeAck(a, t)
    \/ \E a \in Addrs, k \in Keys, c \in Counters \ {0} :
         \/ DropEncrypted(a, k, c)
         \/ \E S \in SUBSET Players : AudioUp(a, k, c, S)
         \/ Ping(a, k, c)
         \/ Bye(a, k, c)

Next == Control \/ Audio \/ Cleanup \/ Tick

(* cleanupLoop runs every 200 ms and the clock advances; nothing obliges   *)
(* the bridge or a client to send anything.                                *)
Fairness == WF_vars(Cleanup) /\ WF_vars(Tick)

Spec == Init /\ [][Next]_vars /\ Fairness

-----------------------------------------------------------------------------
(* Every variable holds values of its type. *)
TypeOK ==
    /\ sessions \in [Players -> Session \cup {NoSession}]
    /\ addrIndex \in [Addrs -> Players \cup {NoPlayer}]
    /\ pending \subseteq Pending
    /\ names \subseteq Players
    /\ haveBridge \in BOOLEAN
    /\ timeouts \subseteq Players
    /\ nkeys \in 0..MaxKeys
    /\ owner \in [Tokens -> Players \cup {NoPlayer}]
    /\ spent \subseteq Tokens
    /\ opened \subseteq Keys \X Counters
    /\ reopened \subseteq Keys \X Counters

(* Every live session can be reached: audioLoop finds it under its own     *)
(* address.  Although a re-handshake leaves entries of former addresses    *)
(* behind and a removal erases by address, no session ever loses its       *)
(* entry to another one (so no two sessions share an address).             *)
SessionsIndexed ==
    \A p \in Players : sessions[p] # NoSession => addrIndex[sessions[p].addr] = p

(* What SessionsIndexed, TokenGate and NoReplay rest on, as an invariant   *)
(* that every handler preserves: keys of live sessions are distinct and    *)
(* were issued, every processed counter is at or below the mark of the     *)
(* session that holds its key, every pending token is unredeemed and bound *)
(* to the player it was minted for, and nothing exists before the bridge   *)
(* has been heard.                                                         *)
KeysDistinct ==
    \A p, q \in Live :
      sessions[p].key <= nkeys /\ (sessions[p].key = sessions[q].key => p = q)

OpenedBelowMark ==
    \A e \in opened :
      /\ e[1] <= nkeys /\ e[2] > 0
      /\ \A p \in Live : sessions[p].key = e[1] => e[2] <= sessions[p].rx

PendingSound ==
    /\ \A t \in spent : owner[t] # NoPlayer
    /\ \A pt \in pending : owner[pt.token] = pt.pid /\ pt.token \notin spent
    /\ \A pt, qt \in pending : pt.token = qt.token => pt = qt

BridgeKnown == (Live # {} \/ pending # {}) => haveBridge

RelayInv ==
    /\ SessionsIndexed /\ KeysDistinct /\ OpenedBelowMark /\ PendingSound
    /\ BridgeKnown

(* handleHandshake creates a session only from a token that was minted for *)
(* that player, was never redeemed or superseded before, has not expired   *)
(* and is presented from an address the IP check admits; and the token is  *)
(* gone afterwards.                                                        *)
TokenGate ==
    [][\A p \in Players :
         sessions'[p] # NoSession /\ sessions'[p].key = nkeys + 1 =>
           \E pt \in pending :
             /\ owner[pt.token] = p /\ pt.token \notin spent /\ pt.ttl >= 0
             /\ IpOk(pt, sessions'[p].addr)
             /\ \A q \in pending' : q.token # pt.token]_vars

(* No sealed datagram is processed twice, whatever the network duplicates  *)
(* or reorders, and however often its player reconnects: crypto::open's    *)
(* high-water mark starts again at 0 with every session, and what keeps    *)
(* old datagrams out is the fresh key.                                     *)
NoReplay == reopened = {}

(* Towards one client the counters only grow under one key, and start      *)
(* again at 1 only under a key never used before, so that the client's     *)
(* replay check never rejects what the relay sends in order.               *)
DownlinkFresh ==
    [][\A p \in Players :
         sessions'[p] # NoSession =>
           \/ sessions'[p].key > nkeys
           \/ /\ sessions[p] # NoSession
              /\ sessions'[p].key = sessions[p].key
              /\ sessions'[p].tx >= sessions[p].tx]_vars

(* The session table never exceeds max_players. *)
SessionCap == Cardinality(Live) <= MaxPlayers

(* A session ends without a Bye only after more than SessionTimeout of     *)
(* silence, and then the bridge has been sent the SessionTimeout event     *)
(* that makes it mint a new token (emitStatus needs m_haveBridge).         *)
TimeoutReported ==
    [][\A p \in Players :
         sessions[p] # NoSession /\ sessions'[p] = NoSession /\ opened' = opened =>
           sessions[p].idle > SessionTimeout /\ p \in timeouts']_vars

(* A session does not outlive its client: again and again it is either     *)
(* absent or freshly heard from.                                           *)
NoZombie == \A p \in Players : []<>(sessions[p] = NoSession \/ sessions[p].idle = 0)

(* A bound token does not stay in the table: it is redeemed, superseded or *)
(* swept.                                                                  *)
PendingDrains == \A t \in Tokens :
    (\E pt \in pending : pt.token = t) ~> (\A pt \in pending : pt.token # t)

(* What shared/protocol.h says of CtrlPlayerGone, "player disconnected:    *)
(* full cleanup": in particular no session of the player is left.           *)
GoneIsClean ==
    [][\A p \in Players :
         p \in names /\ p \notin names' => sessions'[p] = NoSession]_vars
=============================================================================
