---------------------------- MODULE ControlLink -----------------------------
(***************************************************************************)
(* The game server's side of the control link (core/src/control_link.cpp   *)
(* and the bridges samp/src/plugin.cpp, omp/src/component.cpp) together    *)
(* with what the relay makes of it: natives change the bridge's registry   *)
(* and send one unacknowledged datagram each, the relay applies them in    *)
(* order, and reports talking, keying and timeouts back through a bounded  *)
(* queue that ProcessTick drains into callbacks.                           *)
(*                                                                         *)
(* The relay process may crash at any moment and is started anew with      *)
(* empty tables (relay_launcher.h); while it is down, datagrams are lost.  *)
(* `torn` and `vague` are history: for which channels and players          *)
(* something was lost that nobody sends again.  A registry is reduced to   *)
(* its channels; Player.channels is the other side of the same relation    *)
(* (MembershipSymmetric of EngineCore).                                    *)
(***************************************************************************)
EXTENDS Integers, Sequences, FiniteSets

CONSTANTS
    Players,
    IdSpace,   \* 2^16 in the code: channel ids wrap
    Attrs,     \* what natives set of a channel: "filter", "priority"
    Values,    \* values of an attribute
    WireCap,   \* bound: datagrams in the relay's receive buffer
    StatusCap, \* 4096 in the code
    Scenarios  \* bound: the kinds of native one behaviour mixes

ASSUME Constants ==
    /\ IdSpace \in Nat \ {0, 1} /\ WireCap \in Nat \ {0} /\ StatusCap \in Nat \ {0}
    /\ IsFiniteSet(Players)
    /\ Scenarios \subseteq SUBSET {"conf", "members", "voice"}

Ids == 0..(IdSpace - 1)
NoChannel == [on |-> FALSE, conf |-> [a \in Attrs |-> 0], members |-> {}]

VARIABLES
    traffic,  \* which natives this behaviour uses
    inGame,   \* players connected to the game server (keys of g_playerIp)
    nextId,   \* ChannelAllocator::m_next
    mirror,   \* m_reg of the bridge: its channels
    wire,     \* control datagrams the relay has not read yet
    statusQ,  \* StatusEvents on their way to ProcessTick (m_statusQ)
    view,     \* the talkers as the callbacks told the gamemode
    up,       \* the relay process runs
    heard,    \* Relay::m_haveBridge
    replica,  \* the relay's registry: its channels
    known,    \* the relay's registry: its players
    active,   \* players whose audioActive flag is set
    torn,     \* history: channels of which the relay missed an operation
    vague,    \* history: players of whom the gamemode missed an event
    missed    \* history: departures the relay missed

bridge == <<inGame, nextId, mirror, view>>
relay == <<up, heard, replica, known, active>>
history == <<torn, vague, missed>>
vars == <<traffic, bridge, wire, statusQ, relay, history>>

Init ==
    /\ traffic \in Scenarios
    /\ inGame = {} /\ view = {}
    /\ nextId = 1
    /\ mirror = [c \in Ids |-> NoChannel]
    /\ wire = <<>> /\ statusQ = <<>>
    /\ up = FALSE /\ heard = FALSE
    /\ replica = [c \in Ids |-> NoChannel]
    /\ known = {} /\ active = {}
    /\ torn = {} /\ vague = {} /\ missed = {}

-----------------------------------------------------------------------------
(* class Registry, for either side: r is the channel table. *)

(* createChannel: an id in use keeps its members. *)
Created(r, c, conf) ==
    [r EXCEPT ![c] = [on |-> TRUE, conf |-> conf, members |-> @.members]]
Destroyed(r, c) == [r EXCEPT ![c] = NoChannel]
Joined(r, p, c) == IF r[c].on THEN [r EXCEPT ![c].members = @ \cup {p}] ELSE r
Left(r, p, c) == [r EXCEPT ![c].members = @ \ {p}]
Set(r, c, a, v) == IF r[c].on THEN [r EXCEPT ![c].conf[a] = v] ELSE r
Removed(r, p) == [c \in Ids |-> [r[c] EXCEPT !.members = @ \ {p}]]

(* Engine::onControl on the channel table. *)
Applied(r, m) ==
    CASE m.type = "create"  -> Created(r, m.chan, m.conf)
      [] m.type = "destroy" -> Destroyed(r, m.chan)
      [] m.type = "join"    -> Joined(r, m.player, m.chan)
      [] m.type = "leave"   -> Left(r, m.player, m.chan)
      [] m.type = "set"     -> Set(r, m.chan, m.attr, m.val)
      [] m.type = "gone"    -> Removed(r, m.player)
      [] OTHER              -> r

-----------------------------------------------------------------------------
(* send: one datagram, lost when the relay does not run or its buffer is   *)
(* full.  hurt: the channels that then differ; heal: those that agree once *)
(* it arrives.  Mutant: a full buffer drops its oldest datagram instead.   *)
Fits == up /\ Len(wire) < WireCap
SendOver(m, hurt, heal) ==
    /\ wire' = IF ~up THEN wire ELSE Append(IF Fits THEN wire ELSE Tail(wire), m)
    /\ torn' = IF Fits THEN torn \ heal ELSE torn \cup hurt
Send(m, hurt, heal) ==
    /\ wire' = IF Fits THEN Append(wire, m) ELSE wire
    /\ torn' = IF Fits THEN torn \ heal ELSE torn \cup hurt

ChanOp(m, hurt, heal) ==
    /\ mirror' = Applied(mirror, m)
    /\ Send(m, hurt, heal)
    /\ UNCHANGED <<traffic, inGame, view, statusQ, relay, vague, missed>>

(* Bound: where nobody sets attributes, one configuration will do. *)
Creates(conf) ==
    \/ "conf" \in traffic
    \/ "members" \in traffic /\ conf = CHOOSE f \in [Attrs -> Values] : TRUE

(* ChannelAllocator::alloc: uint16_t, never recycled.  Mutant: the relay   *)
(* is sent the id after the one allotted.                                  *)
CreateChannelNext(conf) ==
    /\ Creates(conf)
    /\ mirror' = Created(mirror, nextId, conf)
    /\ nextId' = (nextId + 1) % IdSpace
    /\ Send([type |-> "create", chan |-> nextId', conf |-> conf], {nextId}, {})
    /\ UNCHANGED <<traffic, inGame, view, statusQ, relay, vague, missed>>
CreateChannel(conf) ==
    /\ Creates(conf)
    /\ ChanOp([type |-> "create", chan |-> nextId, conf |-> conf], {nextId}, {})
    /\ nextId' = (nextId + 1) % IdSpace

DestroyChannel(c) ==
    /\ traffic # {"voice"}
    /\ ChanOp([type |-> "destroy", chan |-> c], {c}, {c})
    /\ UNCHANGED nextId

JoinChannel(p, c) ==
    /\ "members" \in traffic /\ p \in inGame
    /\ ChanOp([type |-> "join", player |-> p, chan |-> c], {c}, {})
    /\ UNCHANGED nextId

LeaveChannel(p, c) ==
    /\ "members" \in traffic /\ p \in inGame
    /\ ChanOp([type |-> "leave", player |-> p, chan |-> c], {c}, {})
    /\ UNCHANGED nextId

(* setChannelFilter, setChannelPriority *)
SetChannel(c, a, v) ==
    /\ "conf" \in traffic
    /\ ChanOp([type |-> "set", chan |-> c, attr |-> a, val |-> v], {c}, {})
    /\ UNCHANGED nextId

(* The natives that only send: UpdatePosition, SetPlayerRange and -Flags,  *)
(* SetTransmitting, SetMixPolicy, MutePlayer, SetSpeakerphone.  All the    *)
(* bridge's registry has no part in; the relay's learns of the player.     *)
Push(p) ==
    /\ "voice" \in traffic /\ p \in inGame
    /\ Send([type |-> "push", player |-> p], {}, {})
    /\ UNCHANGED <<traffic, bridge, statusQ, relay, vague, missed>>

(* ReloadConfig, and ProcessTick once, three seconds after loading. *)
PushConfig ==
    /\ "voice" \in traffic
    /\ Send([type |-> "config"], {}, {})
    /\ UNCHANGED <<traffic, bridge, statusQ, relay, vague, missed>>

(* Voice_OnPlayerConnect: a token, bound at the relay and sent to the      *)
(* client; what becomes of it is the business of VoiceLink.                *)
OnPlayerConnect(p) ==
    /\ p \notin inGame
    /\ inGame' = inGame \cup {p}
    /\ Send([type |-> "bind", player |-> p], {}, {})
    /\ UNCHANGED <<traffic, nextId, mirror, view, statusQ, relay, vague, missed>>

(* Voice_OnPlayerDisconnect; the gamemode drops what it shows of a player  *)
(* who leaves (VoiceUI_OnDisconnect).  Mutant: only members of a channel   *)
(* are reported.                                                           *)
GoneIfMember(p) ==
    IF \E c \in Ids : p \in mirror[c].members
    THEN /\ Send([type |-> "gone", player |-> p],
                 {c \in Ids : p \in mirror[c].members}, {})
         /\ missed' = IF Fits THEN missed \ {p} ELSE missed \cup {p}
         /\ vague' = IF Fits THEN vague ELSE vague \cup {p}
    ELSE UNCHANGED <<wire, history>>
Gone(p) ==
    /\ Send([type |-> "gone", player |-> p],
            {c \in Ids : p \in mirror[c].members}, {})
    /\ missed' = IF Fits THEN missed \ {p} ELSE missed \cup {p}
    /\ vague' = IF Fits THEN vague ELSE vague \cup {p}

OnPlayerDisconnect(p) ==
    /\ p \in inGame
    /\ mirror' = Removed(mirror, p)
    /\ Gone(p)
    /\ inGame' = inGame \ {p} /\ view' = view \ {p}
    /\ UNCHANGED <<traffic, nextId, statusQ, relay>>

(* nextStatus.  Mutant: the newest event first. *)
NewestFirst ==
    [event |-> statusQ[Len(statusQ)], rest |-> SubSeq(statusQ, 1, Len(statusQ) - 1)]
NextStatus == [event |-> Head(statusQ), rest |-> Tail(statusQ)]

(* The talkers of S once the gamemode has been told of e. *)
Told(S, e) ==
    CASE e.event = "start" -> S \cup {e.player}
      [] e.event = "stop"  -> S \ {e.player}
      [] OTHER             -> S

(* ProcessTick, one event: a callback, or a new token for a session that   *)
(* timed out, whether or not its player is still there.                    *)
ProcessTick ==
    /\ statusQ # <<>>
    /\ LET e == NextStatus.event
       IN  /\ view' = Told(view, e)
           /\ IF e.event = "timeout"
              THEN Send([type |-> "bind", player |-> e.player], {}, {})
              ELSE UNCHANGED <<wire, torn>>
    /\ statusQ' = NextStatus.rest
    /\ UNCHANGED <<traffic, inGame, nextId, mirror, relay, vague, missed>>

-----------------------------------------------------------------------------
(* The relay *)

(* controlLoop: one datagram.  A departure is applied without an event: if *)
(* an earlier event of the player is still under way, or was handled after *)
(* the gamemode had dropped the player, it is the last word.               *)
Pending(p) == \E i \in DOMAIN statusQ : statusQ[i].player = p
RelayControl ==
    /\ up /\ wire # <<>>
    /\ LET m == Head(wire)
       IN  /\ replica' = Applied(replica, m)
           /\ known' = CASE m.type = "push" -> known \cup {m.player}
                         [] m.type = "join" /\ replica[m.chan].on -> known \cup {m.player}
                         [] m.type = "gone" -> known \ {m.player}
                         [] OTHER -> known
           /\ active' = IF m.type = "gone" THEN active \ {m.player} ELSE active
           /\ vague' = IF m.type = "gone" /\ (Pending(m.player) \/ m.player \in view)
                       THEN vague \cup {m.player} ELSE vague
    /\ wire' = Tail(wire)
    /\ heard' = TRUE
    /\ UNCHANGED <<traffic, bridge, statusQ, up, torn, missed>>

(* emitStatus and statusLoop: nowhere to send before the bridge is heard,  *)
(* and a full queue drops the newest event.                                *)
Emit(p, ev) ==
    LET ok == heard /\ Len(statusQ) < StatusCap
    IN  /\ statusQ' = IF ok THEN Append(statusQ, [event |-> ev, player |-> p]) ELSE statusQ
        /\ vague' = IF ev \notin {"start", "stop"} THEN vague
                    ELSE IF ok THEN vague \ {p} ELSE vague \cup {p}

(* onAudioFrame, first frame after silence; tick, once silent for long. *)
StartTalking(p) ==
    /\ up /\ "voice" \in traffic /\ p \in known \ active
    /\ active' = active \cup {p}
    /\ Emit(p, "start")
    /\ UNCHANGED <<traffic, bridge, wire, up, heard, replica, known, torn, missed>>

StopTalking(p) ==
    /\ up /\ p \in active
    /\ active' = active \ {p}
    /\ Emit(p, "stop")
    /\ UNCHANGED <<traffic, bridge, wire, up, heard, replica, known, torn, missed>>

(* A SessionTimeout of any player with a session, or a RadioKey of a known *)
(* one: neither changes what is kept here.                                 *)
Report(p, ev) ==
    /\ up /\ heard /\ "voice" \in traffic
    /\ Emit(p, ev)
    /\ UNCHANGED <<traffic, bridge, wire, relay, torn, missed>>

(* The process dies with its socket buffer, and comes back empty.          *)
Crash ==
    /\ up
    /\ up' = FALSE /\ heard' = FALSE
    /\ replica' = [c \in Ids |-> NoChannel] /\ known' = {} /\ active' = {}
    /\ wire' = <<>>
    /\ torn' = {c \in Ids : mirror[c].on}
    /\ vague' = vague \cup active \cup {p \in Players : Pending(p)}
    /\ missed' = {}
    /\ UNCHANGED <<traffic, bridge, statusQ>>

Restart ==
    /\ ~up
    /\ up' = TRUE
    /\ UNCHANGED <<traffic, bridge, wire, statusQ, heard, replica, known, active, history>>

-----------------------------------------------------------------------------
Bridge ==
    \/ \E conf \in [Attrs -> Values] : CreateChannel(conf)
    \/ \E c \in Ids : DestroyChannel(c)
    \/ \E p \in Players, c \in Ids : JoinChannel(p, c) \/ LeaveChannel(p, c)
    \/ \E c \in Ids, a \in Attrs, v \in Values : SetChannel(c, a, v)
    \/ \E p \in Players : Push(p) \/ OnPlayerConnect(p) \/ OnPlayerDisconnect(p)
    \/ PushConfig
    \/ ProcessTick

Relay ==
    \/ RelayControl
    \/ \E p \in Players : StartTalking(p) \/ StopTalking(p)
    \/ \E p \in Players, ev \in {"timeout", "key"} : Report(p, ev)
    \/ Crash
    \/ Restart

Next == Bridge \/ Relay

Spec == Init /\ [][Next]_vars

-----------------------------------------------------------------------------
(* The relay's channels once the datagrams w have been applied to r. *)
AllApplied(r, w) ==
    LET a[i \in 0..Len(w)] == IF i = 0 THEN r ELSE Applied(a[i - 1], w[i])
    IN  a[Len(w)]

(* The relay's channels follow the bridge's, of which every query native   *)
(* answers: once the datagrams under way are applied, a channel is the     *)
(* same on both sides, although ids wrap to live channels, natives name    *)
(* channels that do not exist and players leave in mid-membership.  A lost *)
(* datagram or a restart tears only the channels it concerned, and         *)
(* destroying such a channel mends it.                                     *)
MirrorAgrees == \A c \in Ids \ torn : AllApplied(replica, wire)[c] = mirror[c]

Leaving(p) == \E i \in DOMAIN wire : wire[i] = [type |-> "gone", player |-> p]

(* The talkers of S once the gamemode has been told of the events q. *)
AllTold(S, q) ==
    LET t[i \in 0..Len(q)] == IF i = 0 THEN S ELSE Told(t[i - 1], q[i])
    IN  t[Len(q)]

(* Once the events under way are handled, the gamemode shows a player as   *)
(* talking exactly while the relay hears it.  The exceptions are a player  *)
(* whose departure is still under way to the relay, and one of whom an     *)
(* event was dropped or overtaken by a departure or a restart, and then    *)
(* only until the next event.                                              *)
ViewFollows ==
    \A p \in Players \ vague :
      ~Leaving(p) => (p \in AllTold(view, statusQ) <=> p \in active)

(* Nobody who left stays at the relay: a departed player is unknown there, *)
(* unless the notice is under way or was lost.                             *)
GhostFree ==
    \A p \in Players \ (inGame \cup missed) :
      \/ Leaving(p)
      \/ p \notin known \cup active /\ \A c \in Ids : p \notin replica[c].members
=============================================================================
