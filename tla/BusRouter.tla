----------------------------- MODULE BusRouter ------------------------------
(***************************************************************************)
(* The filtered buses of the relay (core/src/bus_router.cpp) on top of the *)
(* routing core: a keyed speaker's frame is filtered once per channel and  *)
(* mixed for every other member, at most one bus frame per channel in      *)
(* FRAME_MS, minus whoever the member already hears in person (J5).        *)
(*                                                                         *)
(* The engine calls the router inside its own handlers, so every action    *)
(* here is the EngineCore action of the same packet joined with what the   *)
(* router does.  Time passes in slots of FRAME_MS; samples are reduced to  *)
(* whose voices a mixed frame contains.  A channel mask is any choice of   *)
(* channels at each frame, listeners are on the default duck policy (which *)
(* silences no bus), encoding never fails and no phone is on speaker.      *)
(***************************************************************************)
EXTENDS EngineCore

CONSTANTS
    FreshSlots,    \* FRESH_MS in slots: 3 in the code
    SuppressDouble \* [behavior] suppress_double_play

ASSUME BusConstants == FreshSlots \in Nat /\ SuppressDouble \in BOOLEAN

VARIABLES
    streams,   \* keys of m_streams: (speaker, channel)
    since,     \* slots since Stream.lastMs, saturating; Stale when absent
    emitted,   \* channels whose m_lastEmit is in the current slot
    encoders,  \* keys of m_encoders and m_seq: (listener, channel)
    decoders,  \* keys of m_decoders
    bus,       \* the bus frames sent in the last step
    heard      \* history: <<speaker, listener>>, see Hearing

router == <<streams, since, emitted, encoders, decoders>>
busVars == <<vars, router, bus, heard>>

Stale == FreshSlots + 1

BusInit ==
    /\ Init
    /\ streams = {} /\ emitted = {} /\ encoders = {} /\ decoders = {}
    /\ bus = {} /\ heard = {}
    /\ since = [sc \in Players \X Channels |-> Stale]

-----------------------------------------------------------------------------
(* The channels a speaker's frame can go to: the filtered ones it is in,   *)
(* while it holds its key.                                                 *)
Keying(s) == {c \in chans[s] \cap channels : s \in keyed /\ filter[c] # "none"}

(* proximityAudible: evaluate() alone, without mutes, cap or grid. *)
ProximityAudible(s, l) == {s, l} \subseteq players /\ Audible(s, l)

(* The members with a recent frame on the channel, `age` being the slots   *)
(* since each one's last.  Mutant: everyone with a recent frame.           *)
ContributorsAny(c, age_) == {m \in Players : age_[<<m, c>>] <= FreshSlots}
Contributors(c, age_) == {m \in members[c] : age_[<<m, c>>] <= FreshSlots}

(* Whom of them a member gets to hear on the bus.  Mutant: whether a voice *)
(* carries is asked only while its frame is new.                           *)
MixAskedOnce(l, c, age_) ==
    {m \in Contributors(c, age_) \ {l} :
       ~(SuppressDouble /\ age_[<<m, c>>] = 0 /\ ProximityAudible(m, l))}
Mix(l, c, age_) ==
    {m \in Contributors(c, age_) \ {l} : ~(SuppressDouble /\ ProximityAudible(m, l))}

(* emitChannel: a frame for every member with somebody to hear. *)
EmitChannel(c, age_) ==
    {[to |-> l, chan |-> c, from |-> Mix(l, c, age_)] :
       l \in {m \in members[c] \cap players :
                "deafen" \notin Flags(m) /\ Mix(m, c, age_) # {}}}

(* onSpeakerFrame after a successful decode, for the channels the mask     *)
(* selects: the stream is refreshed, and the channel is mixed and sent     *)
(* unless it was already in this slot.                                     *)
Speak(s, keys) ==
    /\ streams' = streams \cup ({s} \X keys)
    /\ since' = [sc \in Players \X Channels |-> IF sc \in {s} \X keys THEN 0 ELSE since[sc]]
    /\ bus' = UNION {EmitChannel(c, since') : c \in keys \ emitted}
    /\ emitted' = emitted \cup keys
    /\ encoders' = encoders \cup {<<f.to, f.chan>> : f \in bus'}

Silently == bus' = {} /\ UNCHANGED <<streams, since, emitted, encoders>>

(* onAudioFrame: proximity first, then the buses.  A muted speaker gets to *)
(* neither; one that keys nothing is not decoded; a failed decode leaves   *)
(* only the decoder.                                                       *)
SpeakerFrame(s) ==
    /\ AudioFrame(s)
    /\ IF s \in keyed /\ chans[s] # {}
       THEN /\ decoders' = decoders \cup {s}
            /\ Silently \/ \E keys \in SUBSET Keying(s) : Speak(s, keys)
       ELSE Silently /\ UNCHANGED decoders

-----------------------------------------------------------------------------
(* The control packets the router has no part in.  (Muting oneself is left *)
(* out: nobody is a listener of their own frames.)                         *)
Pass ==
    /\ \/ /\ "pos" \in Traffic
          /\ \E p \in Players, place \in Places : PlayerPos(p, place)
       \/ /\ "meta" \in Traffic
          /\ \E p \in Players, m \in Metas : PlayerMeta(p, m)
       \/ /\ "channel" \in Traffic
          /\ \/ \E c \in Channels, f \in Filters : ChanCreate(c, f) \/ ChanFilter(c, f)
             \/ \E p \in Players, c \in Channels : ChanJoin(p, c) \/ ChanLeave(p, c)
       \/ "config" \in Traffic /\ \E t \in Tunings : Config(t)
       \/ /\ "mute" \in Traffic
          /\ \E l, t \in Players, on \in BOOLEAN : l # t /\ PairMute(l, t, on)
    /\ bus' = {} /\ UNCHANGED router

(* onRadioKey: a change of the key is a beep for the other members of each *)
(* radio channel the player is in.                                         *)
Beeps(p, on) ==
    {[to |-> lc[1], chan |-> lc[2], from |-> {}] :
       lc \in {x \in (players \ {p}) \X channels :
                 /\ on # (p \in keyed) /\ filter[x[2]] = "radio"
                 /\ {p, x[1]} \subseteq members[x[2]] /\ "deafen" \notin Flags(x[1])}}

Key(p, on) ==
    /\ Transmit(p, on)
    /\ bus' = Beeps(p, on)
    /\ encoders' = encoders \cup {<<f.to, f.chan>> : f \in bus'}
    /\ UNCHANGED <<streams, since, emitted, decoders>>

(* pruneChannel.  Mutant: the encoders are forgotten. *)
PruneChannelStreams(c) ==
    /\ streams' = {sc \in streams : sc[2] # c}
    /\ since' = [sc \in Players \X Channels |-> IF sc[2] = c THEN Stale ELSE since[sc]]
    /\ emitted' = emitted \ {c}
    /\ UNCHANGED <<encoders, decoders>>
PruneChannel(c) ==
    /\ streams' = {sc \in streams : sc[2] # c}
    /\ since' = [sc \in Players \X Channels |-> IF sc[2] = c THEN Stale ELSE since[sc]]
    /\ encoders' = {lc \in encoders : lc[2] # c}
    /\ emitted' = emitted \ {c}
    /\ UNCHANGED decoders

DestroyChannel(c) == ChanDestroy(c) /\ PruneChannel(c) /\ bus' = {}

(* prunePlayer: as a speaker and as a listener. *)
PrunePlayer(p) ==
    /\ decoders' = decoders \ {p}
    /\ streams' = {sc \in streams : sc[1] # p}
    /\ since' = [sc \in Players \X Channels |-> IF sc[1] = p THEN Stale ELSE since[sc]]
    /\ encoders' = {lc \in encoders : lc[1] # p}
    /\ UNCHANGED emitted

RemovePlayer(p) == PlayerGone(p) /\ PrunePlayer(p) /\ bus' = {}

(* The clock moves on to the next slot. *)
Slot ==
    /\ since' = [sc \in Players \X Channels |->
                   IF since[sc] < Stale THEN since[sc] + 1 ELSE Stale]
    /\ emitted' = {}
    /\ frame' = NoFrame /\ bus' = {}
    /\ UNCHANGED <<registry, grid, talk, streams, encoders, decoders>>

(* The cleanup thread ticks the engine. *)
CleanupTick == Tick /\ bus' = {} /\ UNCHANGED router

(* History: who got a frame of whom in person, for as long as a frame of   *)
(* that speaker can still be mixed and what decides whether it carries to  *)
(* the listener has not changed: where the two are and how far it reaches. *)
Mixable(s) == \E c \in Channels : since[<<s, c>>] <= FreshSlots
Unmoved(s, l) ==
    /\ {s, l} \subseteq players' /\ tune' = tune /\ meta'[s] = meta[s]
    /\ pos'[s] = pos[s] /\ pos'[l] = pos[l]
Hearing ==
    heard' = {sl \in heard \cup ({frame'.from} \X frame'.to) :
                Mixable(sl[1])' /\ Unmoved(sl[1], sl[2])}

BusNext ==
    /\ \/ Pass
       \/ "key" \in Traffic /\ \E p \in Players, on \in BOOLEAN : Key(p, on)
       \/ "channel" \in Traffic /\ \E c \in Channels : DestroyChannel(c)
       \/ "gone" \in Traffic /\ \E p \in Players : RemovePlayer(p)
       \/ "audio" \in Traffic /\ \E s \in Players : SpeakerFrame(s)
       \/ Channels # {} /\ Slot
       \/ CleanupTick
    /\ Hearing

(* cleanupLoop ticks the engine every 200 ms. *)
BusSpec == BusInit /\ [][BusNext]_busVars /\ WF_busVars(CleanupTick /\ Hearing)

-----------------------------------------------------------------------------
(* Codec and filter state belongs to someone: every decoder, stream and    *)
(* encoder is of a present player and an existing channel, however joins,  *)
(* leaves, destroys and disconnects interleave with frames and beeps.      *)
(* Player ids are reused: the next owner must not inherit a filter, a      *)
(* frame or a sequence number.                                             *)
BusStateOwned ==
    /\ decoders \subseteq players
    /\ streams \cup encoders \subseteq players \X channels
    /\ emitted \subseteq channels
    /\ \A sc \in Players \X Channels : since[sc] # Stale => sc \in streams

(* Channel audio reaches only channel members (J1), never carries one's    *)
(* own voice, and only the voices of players who are members themselves,   *)
(* although a frame stays mixable for FRESH_MS after its speaker left.     *)
BusAudience ==
    \A f \in bus :
      /\ f.to \in members[f.chan] \cap players
      /\ f.from \subseteq members[f.chan] \ {f.to}

(* J5: a voice is not heard twice, in person and on a bus.  The mix that   *)
(* another member's frame starts may contain a frame the listener got in   *)
(* person up to FRESH_MS ago, and what carries is decided anew at that     *)
(* moment: such a voice is left out unless the two have moved since, or    *)
(* the speaker's range or the tuning has changed.                          *)
NoEcho ==
    SuppressDouble => \A f \in bus, m \in Players : m \in f.from => <<m, f.to>> \notin heard
=============================================================================
