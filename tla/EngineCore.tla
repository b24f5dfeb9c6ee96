----------------------------- MODULE EngineCore -----------------------------
(***************************************************************************)
(* The routing core of the relay (core/src/engine.cpp, registry.cpp,       *)
(* spatial_grid.cpp, proximity.cpp): players, channels and memberships,    *)
(* per-pair mutes, the incremental spatial grid, proximity routing with    *)
(* the nearest-N cap, and talking detection.                               *)
(*                                                                         *)
(* The relay calls the engine with m_mtx held, so one call is one action.  *)
(* Several handlers end in a call of the bus router: BusRouter joins that  *)
(* part to the actions defined here and gives the next-state relation.     *)
(* The world is one-dimensional: a place is <<dimension, x, vehicle>>,     *)
(* the dimension standing for interior and virtual world.  Volumes are     *)
(* whole numbers of 1/Unit, panning is left out.  Ticks are kept as ages   *)
(* that saturate one past what they are compared with.                     *)
(***************************************************************************)
EXTENDS Integers, FiniteSets

CONSTANTS
    Players,      \* player ids
    Channels,     \* channel ids
    Filters,      \* subset of {"none", "radio", "phone"} that is used
    Metas,        \* the CtrlPlayerMeta contents that are used
    Places,       \* places a player can be in: <<dimension, x, vehicle>>
    CellSize,     \* m_cell
    Tunings,      \* the CtrlConfig contents that are used
    DefaultTuning,
    NearestN,     \* [proximity] nearest_n, 0 for no limit
    SilenceTicks, \* 8 in the code
    FreshTicks,   \* 2 in the code
    Traffic,      \* bound: the kinds of packet the environment sends
    NoCell, NoPlayer

(* A Player that was just made. *)
Origin == <<0, 0, 0>>
DefaultMeta == [flags |-> {}, preset |-> "normal", over |-> 0]
MetaRecords ==
    [flags: SUBSET {"muted", "deafen", "dead"}, preset: {"whisper", "normal", "shout"}, over: Nat]
TuningRecords ==
    [whisper: Nat \ {0}, normal: Nat \ {0}, shout: Nat \ {0}, falloffExp: Nat, occlusion: BOOLEAN]

ASSUME Constants ==
    /\ Origin \in Places /\ DefaultMeta \in Metas /\ DefaultTuning \in Tunings
    /\ NoPlayer \notin Players /\ IsFiniteSet(Players)
    /\ Places \subseteq Nat \X Int \X (0..2)
    /\ Metas \subseteq MetaRecords /\ Tunings \subseteq TuningRecords
    /\ CellSize \in Nat \ {0}
    /\ NearestN \in Nat /\ SilenceTicks \in Nat \ {0} /\ FreshTicks \in Nat
    /\ Filters \subseteq {"none", "radio", "phone"} /\ "none" \in Filters

(* keyFor *)
CellOf(place) == <<place[1], place[2] \div CellSize>>
Cells == {CellOf(p) : p \in Places}

ASSUME NoCellAssumption == NoCell \notin Cells

VARIABLES
    players,  \* ids present in m_players
    channels, \* ids present in m_channels
    filter,   \* Channel.filter
    members,  \* Channel.members
    chans,    \* Player.channels
    meta,     \* flags (muted, deafen; dead: neither alive nor spectator),
              \* range preset and override
    mutes,    \* Player.mutedTargets
    keyed,    \* players whose transmitting flag is set
    tune,     \* m_tune
    pos,      \* Player.pos, interior, vworld and vehicle
    where,    \* SpatialGrid::m_where
    cells,    \* SpatialGrid::m_cells, as how often an id is in a cell
    active,   \* players whose audioActive flag is set
    age,      \* m_tickCount - lastAudioTick, read only while active
    near,     \* m_near
    frame,    \* the frame routed in the last step: its speaker and listeners
    talking   \* the bridge's view: SpeakerStart without SpeakerStop

registry == <<players, channels, filter, members, chans, meta, mutes, keyed, tune>>
grid == <<pos, where, cells>>
talk == <<active, age, near, talking>>
vars == <<registry, grid, talk, frame>>

NoFrame == [from |-> NoPlayer, to |-> {}]
Flags(p) == meta[p].flags

Init ==
    /\ players = {} /\ channels = {} /\ keyed = {} /\ tune = DefaultTuning
    /\ filter = [c \in Channels |-> "none"]
    /\ members = [c \in Channels |-> {}]
    /\ chans = [p \in Players |-> {}]
    /\ meta = [p \in Players |-> DefaultMeta]
    /\ mutes = [p \in Players |-> {}]
    /\ pos = [p \in Players |-> Origin]
    /\ where = [p \in Players |-> NoCell]
    /\ cells = [k \in Cells |-> [p \in Players |-> 0]]
    /\ active = {} /\ age = [p \in Players |-> 0]
    /\ near = [p \in Players |-> {}]
    /\ frame = NoFrame /\ talking = {}

-----------------------------------------------------------------------------
(* SpatialGrid *)

(* eraseFromCell: one occurrence of the id goes. *)
EraseFromCell(cs, k, p) == [cs EXCEPT ![k][p] = IF @ > 0 THEN @ - 1 ELSE 0]

(* Mutant: the id is not pulled from its old cell. *)
GridUpdateLeavesOld(p, k) ==
    IF where[p] = k
    THEN UNCHANGED <<where, cells>>
    ELSE /\ where' = [where EXCEPT ![p] = k]
         /\ cells' = [cells EXCEPT ![k][p] = @ + 1]

(* update: nothing when the cell is the same; otherwise out of the old     *)
(* cell, if any, and into the new one.                                     *)
GridUpdate(p, k) ==
    LET out == IF where[p] = NoCell THEN cells ELSE EraseFromCell(cells, where[p], p)
    IN  IF where[p] = k
        THEN UNCHANGED <<where, cells>>
        ELSE /\ where' = [where EXCEPT ![p] = k]
             /\ cells' = [out EXCEPT ![k][p] = @ + 1]

GridRemove(p) ==
    /\ where' = [where EXCEPT ![p] = NoCell]
    /\ cells' = IF where[p] = NoCell THEN cells ELSE EraseFromCell(cells, where[p], p)

(* rebuild: every player of the registry, and nobody else. *)
GridRebuild ==
    /\ where' = [p \in Players |-> IF p \in players THEN CellOf(pos[p]) ELSE NoCell]
    /\ cells' = [k \in Cells |-> [p \in Players |->
                   IF p \in players /\ CellOf(pos[p]) = k THEN 1 ELSE 0]]

-----------------------------------------------------------------------------
(* Proximity acoustics *)

Dist(a, b) == IF a < b THEN b - a ELSE a - b

(* effectiveRange *)
EffectiveRange(s) == IF meta[s].over > 0 THEN meta[s].over ELSE tune[meta[s].preset]

(* How many cells a radius spans. *)
Span(r) == (r + CellSize - 1) \div CellSize

(* queryNeighbours: whoever is listed in a visited cell, but not oneself. *)
Neighbours(s) ==
    LET span == Span(EffectiveRange(s))
    IN  {l \in Players \ {s} : \E k \in Cells :
           /\ k[1] = pos[s][1] /\ Dist(k[2], CellOf(pos[s])[2]) <= span
           /\ cells[k][l] > 0}

(* x to the power of n. *)
Power(x, n) == LET p[i \in 0..n] == IF i = 0 THEN 1 ELSE x * p[i - 1] IN p[n]

(* evaluate, as the volume (0: inaudible): the same dimension, closer than *)
(* the range, falloff by distance, a closed vehicle muffles by 0.45.       *)
Unit == 100000
AudibleAbove == 100
Evaluate(s, l) ==
    LET r == EffectiveRange(s)
        d == Dist(pos[s][2], pos[l][2])
        muffled == tune.occlusion /\ 2 \in {pos[s][3], pos[l][3]}
        vol == (Unit * Power(r - d, tune.falloffExp) * (IF muffled THEN 9 ELSE 20))
                 \div (20 * Power(r, tune.falloffExp))
    IN  IF pos[s][1] = pos[l][1] /\ d < r /\ vol > AudibleAbove THEN vol ELSE 0

Audible(s, l) == Evaluate(s, l) > 0

-----------------------------------------------------------------------------
(* onControl *)

(* CtrlPlayerPos *)
PlayerPos(p, place) ==
    /\ players' = players \cup {p}
    /\ pos' = [pos EXCEPT ![p] = place]
    /\ GridUpdate(p, CellOf(place))
    /\ frame' = NoFrame
    /\ UNCHANGED <<channels, filter, members, chans, meta, mutes, keyed, tune, talk>>

(* CtrlPlayerMeta: an override is clamped to the current shout range. *)
PlayerMeta(p, m) ==
    /\ players' = players \cup {p}
    /\ meta' = [meta EXCEPT ![p] =
                  [m EXCEPT !.over = IF @ < tune.shout THEN @ ELSE tune.shout]]
    /\ frame' = NoFrame
    /\ UNCHANGED <<channels, filter, members, chans, mutes, keyed, tune, grid, talk>>

(* CtrlConfig: routing sees the new tuning at once, overrides that were    *)
(* clamped to the old one stay as they are.                                *)
Config(t) ==
    /\ tune' = t
    /\ frame' = NoFrame
    /\ UNCHANGED <<players, channels, filter, members, chans, meta, mutes, keyed, grid, talk>>

(* CtrlChanCreate: creating an existing channel keeps its members. *)
ChanCreate(c, f) ==
    /\ channels' = channels \cup {c}
    /\ filter' = [filter EXCEPT ![c] = f]
    /\ frame' = NoFrame
    /\ UNCHANGED <<players, members, chans, meta, mutes, keyed, tune, grid, talk>>

(* destroyChannel clears the members' own lists. *)
(* Mutant: they keep the channel. *)
UnlistedKept(c) == chans
Unlisted(c) == [p \in Players |->
    IF p \in members[c] \cap players THEN chans[p] \ {c} ELSE chans[p]]

(* CtrlChanDestroy *)
ChanDestroy(c) ==
    /\ c \in channels
    /\ channels' = channels \ {c}
    /\ filter' = [filter EXCEPT ![c] = "none"]
    /\ members' = [members EXCEPT ![c] = {}]
    /\ chans' = Unlisted(c)
    /\ frame' = NoFrame
    /\ UNCHANGED <<players, meta, mutes, keyed, tune, grid, talk>>

(* CtrlChanJoin: nothing without the channel; otherwise it may create the  *)
(* player.                                                                 *)
ChanJoin(p, c) ==
    /\ c \in channels
    /\ players' = players \cup {p}
    /\ members' = [members EXCEPT ![c] = @ \cup {p}]
    /\ chans' = [chans EXCEPT ![p] = @ \cup {c}]
    /\ frame' = NoFrame
    /\ UNCHANGED <<channels, filter, meta, mutes, keyed, tune, grid, talk>>

(* CtrlChanLeave *)
ChanLeave(p, c) ==
    /\ members' = [members EXCEPT ![c] = @ \ {p}]
    /\ chans' = [chans EXCEPT ![p] = @ \ {c}]
    /\ frame' = NoFrame
    /\ UNCHANGED <<players, channels, filter, meta, mutes, keyed, tune, grid, talk>>

(* CtrlChanFilter *)
ChanFilter(c, f) ==
    /\ c \in channels
    /\ filter' = [filter EXCEPT ![c] = f]
    /\ frame' = NoFrame
    /\ UNCHANGED <<players, channels, members, chans, meta, mutes, keyed, tune, grid, talk>>

(* CtrlTransmit: a change of the flag is also reported, and beeped, on     *)
(* every radio channel the player is in; see BusRouter.                    *)
Transmit(p, on) ==
    /\ players' = players \cup {p}
    /\ keyed' = IF on THEN keyed \cup {p} ELSE keyed \ {p}
    /\ frame' = NoFrame
    /\ UNCHANGED <<channels, filter, members, chans, meta, mutes, tune, grid, talk>>

(* CtrlPairMute: the listener owns the set. *)
PairMute(l, t, on) ==
    /\ players' = players \cup {l}
    /\ mutes' = [mutes EXCEPT ![l] = IF on THEN @ \cup {t} ELSE @ \ {t}]
    /\ frame' = NoFrame
    /\ UNCHANGED <<channels, filter, members, chans, meta, keyed, tune, grid, talk>>

(* A player that leaves is dropped from everyone's mute set: ids are       *)
(* reused.  Mutant: it stays in the sets of the others.                    *)
UnmutedSelf(p) == [mutes EXCEPT ![p] = {}]
Unmuted(p) == [q \in Players |-> IF q = p THEN {} ELSE mutes[q] \ {p}]

(* CtrlPlayerGone: no event is emitted; the bridge sent this packet because *)
(* the player left, and forgets its talking state with it.                  *)
PlayerGone(p) ==
    /\ players' = players \ {p}
    /\ members' = [c \in Channels |->
                     IF p \in players /\ c \in chans[p] \cap channels
                     THEN members[c] \ {p} ELSE members[c]]
    /\ chans' = [chans EXCEPT ![p] = {}]
    /\ meta' = [meta EXCEPT ![p] = DefaultMeta]
    /\ mutes' = Unmuted(p)
    /\ keyed' = keyed \ {p}
    /\ pos' = [pos EXCEPT ![p] = Origin]
    /\ GridRemove(p)
    /\ active' = active \ {p}
    /\ age' = [age EXCEPT ![p] = 0]
    /\ near' = [near EXCEPT ![p] = {}]
    /\ talking' = talking \ {p}
    /\ frame' = NoFrame
    /\ UNCHANGED <<channels, filter, tune>>

-----------------------------------------------------------------------------
(* onAudioFrame *)

(* Mutant: entries of speakers that went quiet are never dropped. *)
FreshAll(set) == set

(* The fresh entries of a near set; nearestAdmit drops the others first. *)
Fresh(set) == {e \in set : e.age <= FreshTicks}

(* The weakest entries: the scan keeps the first one it meets. *)
Weakest(set) == {e \in set : \A f \in set : e.vol <= f.vol}

(* A free slot. *)
Room(fresh) == Cardinality(fresh) < NearestN

(* nearestAdmit, as the near sets it may leave: the speaker is refreshed,  *)
(* takes a free slot, or takes the place of a strictly weaker one.         *)
Admitted(set, s, v) ==
    LET fresh == Fresh(set)
        new == [speaker |-> s, vol |-> v, age |-> 0]
        mine == {e \in fresh : e.speaker = s}
    IN  IF mine # {} THEN {(fresh \ mine) \cup {new}}
        ELSE IF Room(fresh) THEN {fresh \cup {new}}
        ELSE {(fresh \ {w}) \cup {new} : w \in {e \in Weakest(fresh) : e.vol < v}}

(* nearestAdmit: the new near set and whether the frame is sent.  A cap of *)
(* 0 means no limit and no bookkeeping.                                    *)
Admissions(set, s, v) ==
    IF NearestN = 0 THEN {[set |-> set, ok |-> TRUE]}
    ELSE IF Admitted(set, s, v) = {} THEN {[set |-> Fresh(set), ok |-> FALSE]}
    ELSE {[set |-> n, ok |-> TRUE] : n \in Admitted(set, s, v)}

(* routeProximity up to the cap: the neighbours for whom the speaker is    *)
(* audible and who are neither deafened nor muting it.                     *)
Candidates(s) ==
    IF "dead" \in Flags(s) THEN {}
    ELSE {l \in Neighbours(s) \cap players :
            "deafen" \notin Flags(l) /\ s \notin mutes[l] /\ Audible(s, l)}

(* Whose first frame after silence this is: SpeakerStart. *)
Started(s) == {s} \ active

AudioFrame(s) ==
    LET hears == Candidates(s)
        admissions == [l \in hears |-> Admissions(near[l], s, Evaluate(s, l))]
    IN  /\ s \in players /\ "muted" \notin Flags(s)
        /\ active' = active \cup {s}
        /\ talking' = talking \cup Started(s)
        /\ age' = [age EXCEPT ![s] = 0]
        /\ \E adm \in [hears -> UNION {admissions[l] : l \in hears}] :
             /\ \A l \in hears : adm[l] \in admissions[l]
             /\ near' = [l \in Players |-> IF l \in hears THEN adm[l].set ELSE near[l]]
             /\ frame' = [from |-> s, to |-> {l \in hears : adm[l].ok}]
        /\ UNCHANGED <<registry, grid>>

-----------------------------------------------------------------------------
(* tick: every 1024th rebuilds the grid; a talker silent for SilenceTicks  *)
(* is reported as stopped.                                                 *)
Older(e) == [e EXCEPT !.age = IF @ > FreshTicks THEN @ ELSE @ + 1]
Aged == [p \in Players |-> 
    IF p \notin active THEN 0
    ELSE IF age[p] < SilenceTicks THEN age[p] + 1 ELSE age[p]]

(* Who is reported as stopped.  Mutant: only the players on the grid are   *)
(* looked at.                                                              *)
SilentOnGrid == {p \in active : where[p] # NoCell /\ Aged[p] >= SilenceTicks}
Silent == {p \in active : Aged[p] >= SilenceTicks}

EngineTick(rebuild) ==
    /\ near' = [l \in Players |-> {Older(e) : e \in near[l]}]
    /\ IF rebuild THEN GridRebuild ELSE UNCHANGED <<where, cells>>
    /\ active' = active \ Silent
    /\ talking' = talking \ Silent
    /\ age' = [p \in Players |-> IF p \in Silent THEN 0 ELSE Aged[p]]
    /\ frame' = NoFrame
    /\ UNCHANGED <<registry, pos>>

-----------------------------------------------------------------------------
Tick == \E rebuild \in BOOLEAN : EngineTick(rebuild)

-----------------------------------------------------------------------------
(* The two sides of a membership agree: a channel lists a player exactly   *)
(* when the player lists the channel, and only present players and         *)
(* existing channels are listed.  removeFromAllChannels follows the        *)
(* player's list, destroyChannel the channel's: either would leave         *)
(* dangling entries if they ever differed.                                 *)
MembershipSymmetric ==
    /\ \A c \in Channels, p \in Players : p \in members[c] <=> c \in chans[p]
    /\ \A c \in Channels : members[c] # {} => c \in channels
    /\ \A p \in Players : chans[p] # {} => p \in players

(* The incrementally maintained grid is what a rebuild would make of the   *)
(* players it knows: each is listed once, in the cell it is in, and only   *)
(* present players are listed.                                             *)
GridExact ==
    /\ \A p \in Players : where[p] # NoCell => p \in players /\ where[p] = CellOf(pos[p])
    /\ \A k \in Cells, p \in Players : cells[k][p] = IF where[p] = k THEN 1 ELSE 0

(* What the gamemode was told agrees with the engine, and with the voice: *)
(* a player is shown as talking exactly while its audioActive flag is set, *)
(* nobody is who has left, and nobody still is with SilenceTicks ticks     *)
(* behind the last frame, wherever the player is and whatever its flags    *)
(* have become since.                                                      *)
TalkAgrees ==
    /\ talking = active /\ active \subseteq players
    /\ \A p \in talking : age[p] < SilenceTicks

(* Who leaves, leaves nothing behind that the next player with the same id *)
(* would inherit: no membership, grid entry, near set, mute or key state.  *)
GoneLeavesNothing ==
    [][\A p \in players \ players' :
         /\ \A c \in Channels : p \notin members'[c]
         /\ \A k \in Cells : cells'[k][p] = 0
         /\ \A q \in Players : p \notin mutes'[q]
         /\ chans'[p] = {} /\ mutes'[p] = {} /\ near'[p] = {} /\ p \notin keyed']_vars

(* A frame reaches exactly the right listeners: nobody who is deafened,    *)
(* mutes the speaker or is out of earshot; and of the others who are on    *)
(* the grid, wherever the cell borders lie, it misses only those whose     *)
(* near set is filled by NearestN other speakers, each heard recently and  *)
(* at least as loud.                                                       *)
LoudestHeard ==
    LET s == frame.from
        open(l) == /\ Audible(s, l) /\ "dead" \notin Flags(s)
                   /\ "deafen" \notin Flags(l) /\ s \notin mutes[l]
        crowded(l) == /\ Cardinality(near[l]) = NearestN /\ NearestN > 0
                      /\ \A e \in near[l] : /\ e.speaker # s /\ e.age <= FreshTicks
                                            /\ e.vol >= Evaluate(s, l)
    IN  s # NoPlayer =>
          /\ \A l \in frame.to : l \in players /\ open(l)
          /\ \A l \in players \ ({s} \cup frame.to) :
               where[l] # NoCell /\ open(l) => crowded(l)
=============================================================================
