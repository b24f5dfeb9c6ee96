-------------------------- MODULE BusRouterProofs ---------------------------
(***************************************************************************)
(* Theorems about the routing engine and the bus router, for any number of *)
(* players and channels, any places, ranges and limits.                    *)
(***************************************************************************)
EXTENDS BusRouter, FiniteSetTheorems, InductionLemmas, TLAPS

-----------------------------------------------------------------------------
(* Types *)

Entries == [speaker: Players, vol: Nat, age: Nat]

RegistryTypes ==
    /\ players \subseteq Players /\ channels \subseteq Channels
    /\ filter \in [Channels -> Filters]
    /\ members \in [Channels -> SUBSET Players]
    /\ chans \in [Players -> SUBSET Channels]
    /\ meta \in [Players -> MetaRecords]
    /\ mutes \in [Players -> SUBSET Players]
    /\ keyed \subseteq Players
    /\ tune \in TuningRecords

GridTypes ==
    /\ pos \in [Players -> Places]
    /\ where \in [Players -> Cells \cup {NoCell}]
    /\ cells \in [Cells -> [Players -> Nat]]

TalkTypes ==
    /\ active \subseteq Players /\ talking \subseteq Players
    /\ age \in [Players -> Nat]
    /\ near \in [Players -> SUBSET Entries]
    /\ frame \in [from: Players \cup {NoPlayer}, to: SUBSET Players]

RouterTypes ==
    /\ streams \subseteq Players \X Channels
    /\ since \in [Players \X Channels -> 0..Stale]
    /\ emitted \subseteq Channels
    /\ encoders \subseteq Players \X Channels
    /\ decoders \subseteq Players
    /\ bus \subseteq [to: Players, chan: Channels, from: SUBSET Players]

TypeOK == RegistryTypes /\ GridTypes /\ TalkTypes /\ RouterTypes

-----------------------------------------------------------------------------
(* Arithmetic *)

(* Powers of natural numbers are natural numbers, and positive if the base *)
(* is.                                                                     *)
LEMMA PowerPositive ==
    ASSUME NEW x \in Nat, NEW n \in Nat
    PROVE  Power(x, n) \in Nat /\ (x > 0 => Power(x, n) > 0)
<1> DEFINE p == CHOOSE f : f = [i \in 0..n |-> IF i = 0 THEN 1 ELSE x * f[i - 1]]
           N == Nat
           T == {i \in 0..n : p[i] \in Nat /\ (x > 0 => p[i] > 0)}
           step == [i \in 1..n |-> [v \in N |-> x * v]]
<1>1. p = [i \in 0..n |-> IF i = 0 THEN 1 ELSE x * p[i - 1]]
  <2>1. step \in [1..n -> [N -> N]] /\ 1 \in N
    OBVIOUS
  <2>2. PICK f : Unfolds(f, 1, step, n, N)
    <3> HIDE DEF step, N
    <3>1. QED
      BY <2>1, Recursion
  <2>3. ASSUME NEW i \in 1..n PROVE f[i] = x * f[i - 1]
    BY <2>2 DEF Unfolds
  <2>4. f = [i \in 0..n |-> IF i = 0 THEN 1 ELSE x * f[i - 1]]
    BY <2>2, <2>3 DEF Unfolds
  <2>5. QED
    BY <2>4
<1>2. Power(x, n) = p[n]
  BY DEF Power
<1> HIDE DEF p
<1>3. 0 \in T
  BY <1>1
<1>4. ASSUME NEW i \in 1..n, i - 1 \in T PROVE i \in T
  <2>1. p[i] = x * p[i - 1]
    BY <1>1
  <2>2. QED
    BY <1>4, <2>1
<1>5. n \in T
  <2> HIDE DEF T
  <2>1. QED
    BY <1>3, <1>4, UpTo
<1>6. QED
  BY <1>2, <1>5

(* A volume is a natural number. *)
LEMMA EvaluateNat ==
    ASSUME RegistryTypes, GridTypes, NEW s \in Players, NEW l \in Players
    PROVE  EffectiveRange(s) \in Nat /\ Evaluate(s, l) \in Nat
<1> DEFINE r == EffectiveRange(s)
           d == Dist(pos[s][2], pos[l][2])
           e == tune.falloffExp
<1>1. r \in Nat
  <2>1. meta[s] \in MetaRecords /\ tune \in TuningRecords
    BY DEF RegistryTypes
  <2>2. CASE meta[s].preset = "whisper"
    BY <2>1, <2>2 DEF EffectiveRange, MetaRecords, TuningRecords
  <2>3. CASE meta[s].preset = "normal"
    BY <2>1, <2>3 DEF EffectiveRange, MetaRecords, TuningRecords
  <2>4. CASE meta[s].preset = "shout"
    BY <2>1, <2>4 DEF EffectiveRange, MetaRecords, TuningRecords
  <2>5. QED
    BY <2>1, <2>2, <2>3, <2>4 DEF MetaRecords
<1>2. d \in Nat
  <2>1. pos[s] \in Nat \X Int \X (0..2) /\ pos[l] \in Nat \X Int \X (0..2)
    BY Constants DEF GridTypes
  <2>2. QED
    BY <2>1 DEF Dist
<1>3. e \in Nat
  BY DEF RegistryTypes, TuningRecords
<1>4. ASSUME d < r, NEW k \in {9, 20}
      PROVE  (Unit * Power(r - d, e) * k) \div (20 * Power(r, e)) \in Nat
  <2> HIDE DEF r, d, e
  <2>1. r - d \in Nat
    BY <1>1, <1>2, <1>4
  <2>2. Power(r - d, e) \in Nat
    BY <2>1, <1>3, PowerPositive
  <2>3. Power(r, e) \in Nat \ {0}
    <3>1. r > 0
      BY <1>1, <1>2, <1>4
    <3>2. Power(r, e) \in Nat /\ (r > 0 => Power(r, e) > 0)
      BY <1>1, <1>3, PowerPositive
    <3>3. QED
      BY <3>1, <3>2
  <2>4. \A a, b \in Nat : (Unit * a * k) \in Nat /\ (b # 0 => 20 * b \in Nat \ {0})
    <3>1. CASE k = 9
      BY <3>1 DEF Unit
    <3>2. CASE k = 20
      BY <3>2 DEF Unit
    <3>3. QED
      BY <3>1, <3>2, <1>4
  <2>5. \A a \in Nat, b \in Nat \ {0} : a \div b \in Nat
    OBVIOUS
  <2>6. QED
    BY <2>2, <2>3, <2>4, <2>5
<1>5. QED
  BY <1>1, <1>4 DEF Evaluate

-----------------------------------------------------------------------------
(* What one step does to each part of the state *)

(* The steps that move the grid. *)
LEMMA GridSteps ==
    ASSUME [BusNext]_busVars
    PROVE  \/ \E p \in Players, place \in Places : PlayerPos(p, place)
           \/ \E p \in Players : PlayerGone(p)
           \/ \E rebuild \in BOOLEAN : EngineTick(rebuild)
           \/ UNCHANGED grid /\ players \subseteq players'
<1>1. CASE Pass
  BY <1>1 DEF Pass, PlayerMeta, Config, ChanCreate, ChanFilter, ChanJoin, ChanLeave, PairMute
<1>2. CASE \E p \in Players, on \in BOOLEAN : Key(p, on)
  BY <1>2 DEF Key, Transmit
<1>3. CASE \E c \in Channels : DestroyChannel(c)
  BY <1>3 DEF DestroyChannel, ChanDestroy
<1>4. CASE \E p \in Players : RemovePlayer(p)
  BY <1>4 DEF RemovePlayer
<1>5. CASE \E s \in Players : SpeakerFrame(s)
  BY <1>5 DEF SpeakerFrame, AudioFrame, registry
<1>6. CASE Slot
  BY <1>6 DEF Slot, registry
<1>7. CASE CleanupTick
  BY <1>7 DEF CleanupTick, Tick
<1>8. CASE UNCHANGED busVars
  BY <1>8 DEF busVars, vars, registry
<1>9. QED
  BY <1>1, <1>2, <1>3, <1>4, <1>5, <1>6, <1>7, <1>8 DEF BusNext

(* The steps that touch the talking state or carry a frame. *)
LEMMA TalkSteps ==
    ASSUME [BusNext]_busVars
    PROVE  \/ \E s \in Players : AudioFrame(s)
           \/ \E p \in Players : PlayerGone(p)
           \/ \E rebuild \in BOOLEAN : EngineTick(rebuild)
           \/ UNCHANGED talk /\ players \subseteq players' /\ frame' = NoFrame
           \/ UNCHANGED busVars
<1>1. CASE Pass
  BY <1>1 DEF Pass, PlayerPos, PlayerMeta, Config, ChanCreate, ChanFilter, ChanJoin,
    ChanLeave, PairMute
<1>2. CASE \E p \in Players, on \in BOOLEAN : Key(p, on)
  BY <1>2 DEF Key, Transmit
<1>3. CASE \E c \in Channels : DestroyChannel(c)
  BY <1>3 DEF DestroyChannel, ChanDestroy
<1>4. CASE \E p \in Players : RemovePlayer(p)
  BY <1>4 DEF RemovePlayer
<1>5. CASE \E s \in Players : SpeakerFrame(s)
  BY <1>5 DEF SpeakerFrame
<1>6. CASE Slot
  BY <1>6 DEF Slot, registry
<1>7. CASE CleanupTick
  BY <1>7 DEF CleanupTick, Tick
<1>8. CASE UNCHANGED busVars
  BY <1>8
<1>9. QED
  BY <1>1, <1>2, <1>3, <1>4, <1>5, <1>6, <1>7, <1>8 DEF BusNext

(* The steps that change the registry. *)
LEMMA RegistrySteps ==
    ASSUME [BusNext]_busVars
    PROVE  \/ \E p \in Players, place \in Places : PlayerPos(p, place)
           \/ \E p \in Players, m \in Metas : PlayerMeta(p, m)
           \/ \E t \in Tunings : Config(t)
           \/ \E c \in Channels, f \in Filters : ChanCreate(c, f) \/ ChanFilter(c, f)
           \/ \E p \in Players, c \in Channels : ChanJoin(p, c) \/ ChanLeave(p, c)
           \/ \E l, t \in Players, on \in BOOLEAN : PairMute(l, t, on)
           \/ \E p \in Players, on \in BOOLEAN : Transmit(p, on)
           \/ \E c \in Channels : ChanDestroy(c)
           \/ \E p \in Players : PlayerGone(p)
           \/ UNCHANGED registry
<1>1. CASE Pass
  BY <1>1 DEF Pass
<1>2. CASE \E p \in Players, on \in BOOLEAN : Key(p, on)
  BY <1>2 DEF Key
<1>3. CASE \E c \in Channels : DestroyChannel(c)
  BY <1>3 DEF DestroyChannel
<1>4. CASE \E p \in Players : RemovePlayer(p)
  BY <1>4 DEF RemovePlayer
<1>5. CASE \E s \in Players : SpeakerFrame(s)
  BY <1>5 DEF SpeakerFrame, AudioFrame
<1>6. CASE Slot
  BY <1>6 DEF Slot
<1>7. CASE CleanupTick
  BY <1>7 DEF CleanupTick, Tick, EngineTick
<1>8. CASE UNCHANGED busVars
  BY <1>8 DEF busVars, vars
<1>9. QED
  BY <1>1, <1>2, <1>3, <1>4, <1>5, <1>6, <1>7, <1>8 DEF BusNext

(* The registry keeps its types. *)
LEMMA RegistryTypesStep ==
    ASSUME RegistryTypes, [BusNext]_busVars
    PROVE  RegistryTypes'
<1> USE DEF RegistryTypes
<1>1. ASSUME NEW p \in Players, NEW place \in Places, PlayerPos(p, place) PROVE RegistryTypes'
  BY <1>1 DEF PlayerPos
<1>2. ASSUME NEW p \in Players, NEW m \in Metas, PlayerMeta(p, m) PROVE RegistryTypes'
  <2>1. m \in MetaRecords /\ tune.shout \in Nat
    BY Constants DEF TuningRecords
  <2>2. [m EXCEPT !.over = IF @ < tune.shout THEN @ ELSE tune.shout] \in MetaRecords
    BY <2>1 DEF MetaRecords
  <2>3. QED
    BY <1>2, <2>2 DEF PlayerMeta
<1>3. ASSUME NEW t \in Tunings, Config(t) PROVE RegistryTypes'
  BY <1>3, Constants DEF Config
<1>4. ASSUME NEW c \in Channels, NEW f \in Filters, ChanCreate(c, f) \/ ChanFilter(c, f)
      PROVE  RegistryTypes'
  BY <1>4 DEF ChanCreate, ChanFilter
<1>5. ASSUME NEW p \in Players, NEW c \in Channels, ChanJoin(p, c) \/ ChanLeave(p, c)
      PROVE  RegistryTypes'
  <2>1. CASE ChanJoin(p, c)
    BY <2>1 DEF ChanJoin
  <2>2. CASE ChanLeave(p, c)
    BY <2>2 DEF ChanLeave
  <2>3. QED
    BY <1>5, <2>1, <2>2
<1>6. ASSUME NEW l \in Players, NEW t \in Players, NEW on \in BOOLEAN, PairMute(l, t, on)
      PROVE  RegistryTypes'
  BY <1>6 DEF PairMute
<1>7. ASSUME NEW p \in Players, NEW on \in BOOLEAN, Transmit(p, on) PROVE RegistryTypes'
  BY <1>7 DEF Transmit
<1>8. ASSUME NEW c \in Channels, ChanDestroy(c) PROVE RegistryTypes'
  BY <1>8, Constants DEF ChanDestroy, Unlisted
<1>9. ASSUME NEW p \in Players, PlayerGone(p) PROVE RegistryTypes'
  BY <1>9, Constants DEF PlayerGone, Unmuted
<1>10. CASE UNCHANGED registry
  BY <1>10 DEF registry
<1>11. QED
  BY RegistrySteps, <1>1, <1>2, <1>3, <1>4, <1>5, <1>6, <1>7, <1>8, <1>9, <1>10

(* The grid keeps its types. *)
LEMMA GridTypesStep ==
    ASSUME GridTypes, [BusNext]_busVars
    PROVE  GridTypes'
<1> USE DEF GridTypes
<1>1. ASSUME NEW p \in Players, NEW place \in Places, PlayerPos(p, place) PROVE GridTypes'
  <2>1. CellOf(place) \in Cells
    BY DEF Cells
  <2>2. QED
    BY <1>1, <2>1 DEF PlayerPos, GridUpdate, EraseFromCell
<1>2. ASSUME NEW p \in Players, PlayerGone(p) PROVE GridTypes'
  BY <1>2, Constants DEF PlayerGone, GridRemove, EraseFromCell
<1>3. ASSUME NEW rebuild \in BOOLEAN, EngineTick(rebuild) PROVE GridTypes'
  BY <1>3 DEF EngineTick, GridRebuild, Cells
<1>4. CASE UNCHANGED grid
  BY <1>4 DEF grid
<1>5. QED
  BY GridSteps, <1>1, <1>2, <1>3, <1>4

(* A frame's effect on the near sets, listener by listener: whoever is not *)
(* a candidate keeps the near set, every candidate's is one of those       *)
(* nearestAdmit may leave, and the frame is sent to whom it admitted.      *)
LEMMA FrameEffect ==
    ASSUME NEW s \in Players, AudioFrame(s)
    PROVE  /\ \A l \in Candidates(s) : \E a \in Admissions(near[l], s, Evaluate(s, l)) :
                near'[l] = a.set /\ (l \in frame'.to <=> a.ok)
           /\ \A l \in Players \ Candidates(s) : near'[l] = near[l] /\ l \notin frame'.to
           /\ near' = [l \in Players |-> near'[l]]
           /\ frame' = [from |-> s, to |-> frame'.to] /\ frame'.to \subseteq Candidates(s)
<1> DEFINE hears == Candidates(s)
           admissions == [l \in hears |-> Admissions(near[l], s, Evaluate(s, l))]
<1>1. PICK adm \in [hears -> UNION {admissions[l] : l \in hears}] :
        /\ \A l \in hears : adm[l] \in admissions[l]
        /\ near' = [l \in Players |-> IF l \in hears THEN adm[l].set ELSE near[l]]
        /\ frame' = [from |-> s, to |-> {l \in hears : adm[l].ok}]
  BY DEF AudioFrame
<1>2. hears \subseteq Players
  BY DEF Candidates, Neighbours
<1>3. \A l \in hears : adm[l] \in Admissions(near[l], s, Evaluate(s, l))
  BY <1>1
<1> HIDE DEF hears, admissions
<1>4. \A l \in hears : near'[l] = adm[l].set /\ (l \in frame'.to <=> adm[l].ok)
  BY <1>1, <1>2
<1>5. \A l \in Players \ hears : near'[l] = near[l] /\ l \notin frame'.to
  BY <1>1
<1>6. /\ near' = [l \in Players |-> near'[l]]
      /\ frame' = [from |-> s, to |-> frame'.to] /\ frame'.to \subseteq hears
  BY <1>1
<1>7. QED
  BY <1>3, <1>4, <1>5, <1>6 DEF hears

(* What nearestAdmit leaves in a near set are entries. *)
LEMMA AdmissionsEntries ==
    ASSUME NEW set \in SUBSET Entries, NEW s \in Players, NEW v \in Nat,
           NEW a \in Admissions(set, s, v)
    PROVE  a.set \subseteq Entries
<1>1. [speaker |-> s, vol |-> v, age |-> 0] \in Entries
  BY DEF Entries
<1>2. CASE a.set = set \/ a.set = Fresh(set)
  BY <1>2 DEF Fresh
<1>3. CASE a.set \in Admitted(set, s, v)
  BY <1>1, <1>3 DEF Admitted, Fresh
<1>4. QED
  BY <1>2, <1>3 DEF Admissions

(* The talking state keeps its types. *)
LEMMA TalkTypesStep ==
    ASSUME RegistryTypes, GridTypes, TalkTypes, [BusNext]_busVars
    PROVE  TalkTypes'
<1> USE DEF TalkTypes
<1>1. ASSUME NEW s \in Players, AudioFrame(s) PROVE TalkTypes'
  <2>1. active' \subseteq Players /\ talking' \subseteq Players /\ age' \in [Players -> Nat]
    BY <1>1 DEF AudioFrame, Started
  <2>2. Candidates(s) \subseteq Players
    BY DEF Candidates, Neighbours
  <2>3. ASSUME NEW l \in Players PROVE near'[l] \subseteq Entries
    <3>1. CASE l \in Candidates(s)
      <4>1. PICK a \in Admissions(near[l], s, Evaluate(s, l)) : near'[l] = a.set
        BY <1>1, <3>1, FrameEffect
      <4>2. near[l] \in SUBSET Entries /\ Evaluate(s, l) \in Nat
        BY EvaluateNat
      <4>3. QED
        BY <4>1, <4>2, AdmissionsEntries
    <3>2. CASE l \notin Candidates(s)
      BY <1>1, <3>2, FrameEffect
    <3>3. QED
      BY <3>1, <3>2
  <2>4. near' \in [Players -> SUBSET Entries]
    BY <1>1, <2>3, FrameEffect
  <2>5. frame' \in [from: Players \cup {NoPlayer}, to: SUBSET Players]
    BY <1>1, <2>2, FrameEffect
  <2>6. QED
    BY <2>1, <2>4, <2>5
<1>2. ASSUME NEW p \in Players, PlayerGone(p) PROVE TalkTypes'
  BY <1>2 DEF PlayerGone, NoFrame
<1>3. ASSUME NEW rebuild \in BOOLEAN, EngineTick(rebuild) PROVE TalkTypes'
  <2>1. \A e \in Entries : Older(e) \in Entries
    BY DEF Older, Entries
  <2>2. near' \in [Players -> SUBSET Entries]
    BY <1>3, <2>1 DEF EngineTick
  <2>3. age' \in [Players -> Nat]
    BY <1>3 DEF EngineTick, Aged
  <2>4. QED
    BY <1>3, <2>2, <2>3 DEF EngineTick, NoFrame
<1>4. CASE UNCHANGED talk /\ players \subseteq players' /\ frame' = NoFrame
  BY <1>4 DEF talk, NoFrame
<1>5. CASE UNCHANGED vars
  BY <1>5 DEF vars, talk
<1>6. QED
  BY TalkSteps, <1>1, <1>2, <1>3, <1>4, <1>5 DEF busVars

(* The bus frames of one speaker frame: each goes to a present member who  *)
(* hears somebody and is not deafened.                                     *)
LEMMA SpokenFrames ==
    ASSUME NEW s, NEW keys, Speak(s, keys), NEW f \in bus'
    PROVE  /\ f.chan \in keys \ emitted
           /\ f.to \in members[f.chan] \cap players /\ "deafen" \notin Flags(f.to)
           /\ f.from = Mix(f.to, f.chan, since') /\ f.from # {}
           /\ f = [to |-> f.to, chan |-> f.chan, from |-> f.from]
<1>1. PICK c \in keys \ emitted : f \in EmitChannel(c, since')
  BY DEF Speak
<1>2. QED
  BY <1>1 DEF EmitChannel

(* The router keeps its types. *)
LEMMA RouterTypesStep ==
    ASSUME RegistryTypes, RouterTypes, [BusNext]_busVars
    PROVE  RouterTypes'
<1> USE DEF RouterTypes
<1>1. CASE Pass
  BY <1>1 DEF Pass, router
<1>2. ASSUME NEW p \in Players, NEW on \in BOOLEAN, Key(p, on) PROVE RouterTypes'
  BY <1>2 DEF Key, Beeps, RegistryTypes
<1>3. ASSUME NEW c \in Channels, DestroyChannel(c) PROVE RouterTypes'
  BY <1>3, BusConstants DEF DestroyChannel, PruneChannel, Stale
<1>4. ASSUME NEW p \in Players, RemovePlayer(p) PROVE RouterTypes'
  BY <1>4, BusConstants DEF RemovePlayer, PrunePlayer, Stale
<1>5. ASSUME NEW s \in Players, SpeakerFrame(s) PROVE RouterTypes'
  <2>1. CASE Silently
    BY <1>5, <2>1 DEF SpeakerFrame, Silently, Speak
  <2>2. ASSUME NEW keys \in SUBSET Keying(s), Speak(s, keys), decoders' = decoders \cup {s}
        PROVE  RouterTypes'
    <3>1. keys \subseteq Channels
      BY DEF Keying, RegistryTypes
    <3>2. bus' \subseteq [to: Players, chan: Channels, from: SUBSET Players]
      <4>1. ASSUME NEW c \in Channels, NEW l \in Players
            PROVE  Mix(l, c, since') \subseteq Players
        BY DEF Mix, Contributors, RegistryTypes
      <4>2. QED
        BY <2>2, <3>1, <4>1, SpokenFrames DEF RegistryTypes
    <3>3. since' \in [Players \X Channels -> 0..Stale]
      BY <2>2, BusConstants DEF Speak, Stale
    <3>4. QED
      BY <2>2, <3>1, <3>2, <3>3 DEF Speak
  <2>3. QED
    BY <1>5, <2>1, <2>2 DEF SpeakerFrame
<1>6. CASE Slot
  BY <1>6, BusConstants DEF Slot, Stale
<1>7. CASE CleanupTick
  BY <1>7 DEF CleanupTick, router
<1>8. CASE UNCHANGED busVars
  BY <1>8 DEF busVars, router
<1>9. QED
  BY <1>1, <1>2, <1>3, <1>4, <1>5, <1>6, <1>7, <1>8 DEF BusNext

(* The engine and the router start and stay within their types. *)
LEMMA TypeInit == BusInit => TypeOK
<1> SUFFICES ASSUME BusInit PROVE TypeOK
  OBVIOUS
<1>1. RegistryTypes
  BY Constants DEF BusInit, Init, RegistryTypes
<1>2. GridTypes
  BY Constants DEF BusInit, Init, GridTypes
<1>3. TalkTypes
  BY DEF BusInit, Init, TalkTypes, NoFrame
<1>4. RouterTypes
  BY BusConstants DEF BusInit, RouterTypes, Stale
<1>5. QED
  BY <1>1, <1>2, <1>3, <1>4 DEF TypeOK

LEMMA TypeStep == TypeOK /\ [BusNext]_busVars => TypeOK'
BY RegistryTypesStep, GridTypesStep, TalkTypesStep, RouterTypesStep DEF TypeOK

(* The variables of the engine and the router keep their types, whatever   *)
(* the order of packets, frames and ticks.                                 *)
THEOREM BusTypeCorrect == BusSpec => []TypeOK
BY TypeInit, TypeStep, PTL DEF BusSpec

-----------------------------------------------------------------------------
(* Memberships *)

LEMMA MembershipStep ==
    ASSUME RegistryTypes, MembershipSymmetric, [BusNext]_busVars
    PROVE  MembershipSymmetric'
<1> USE DEF RegistryTypes, MembershipSymmetric
<1>1. ASSUME NEW p \in Players, NEW place \in Places, PlayerPos(p, place)
      PROVE  MembershipSymmetric'
  BY <1>1 DEF PlayerPos
<1>2. ASSUME NEW p \in Players, NEW m \in Metas, PlayerMeta(p, m) PROVE MembershipSymmetric'
  BY <1>2 DEF PlayerMeta
<1>3. ASSUME NEW t \in Tunings, Config(t) PROVE MembershipSymmetric'
  BY <1>3 DEF Config
<1>4. ASSUME NEW c \in Channels, NEW f \in Filters, ChanCreate(c, f) \/ ChanFilter(c, f)
      PROVE  MembershipSymmetric'
  BY <1>4 DEF ChanCreate, ChanFilter
<1>5. ASSUME NEW p \in Players, NEW c \in Channels, ChanJoin(p, c) \/ ChanLeave(p, c)
      PROVE  MembershipSymmetric'
  <2>1. CASE ChanJoin(p, c)
    BY <2>1 DEF ChanJoin
  <2>2. CASE ChanLeave(p, c)
    BY <2>2 DEF ChanLeave
  <2>3. QED
    BY <1>5, <2>1, <2>2
<1>6. ASSUME NEW l \in Players, NEW t \in Players, NEW on \in BOOLEAN, PairMute(l, t, on)
      PROVE  MembershipSymmetric'
  BY <1>6 DEF PairMute
<1>7. ASSUME NEW p \in Players, NEW on \in BOOLEAN, Transmit(p, on)
      PROVE  MembershipSymmetric'
  BY <1>7 DEF Transmit
<1>8. ASSUME NEW d \in Channels, ChanDestroy(d) PROVE MembershipSymmetric'
  <2>1. \A c \in Channels, p \in Players : p \in members'[c] <=> c \in chans'[p]
    BY <1>8 DEF ChanDestroy, Unlisted
  <2>2. \A c \in Channels : members'[c] # {} => c \in channels'
    BY <1>8 DEF ChanDestroy
  <2>3. \A p \in Players : chans'[p] # {} => p \in players'
    BY <1>8 DEF ChanDestroy, Unlisted
  <2>4. QED
    BY <2>1, <2>2, <2>3
<1>9. ASSUME NEW q \in Players, PlayerGone(q) PROVE MembershipSymmetric'
  <2>1. \A c \in Channels, p \in Players : p \in members'[c] <=> c \in chans'[p]
    BY <1>9 DEF PlayerGone
  <2>2. \A c \in Channels : members'[c] \subseteq members[c]
    BY <1>9 DEF PlayerGone
  <2>3. \A p \in Players : chans'[p] # {} => p \in players'
    BY <1>9 DEF PlayerGone
  <2>4. channels' = channels
    BY <1>9 DEF PlayerGone
  <2>5. QED
    BY <2>1, <2>2, <2>3, <2>4
<1>10. CASE UNCHANGED registry
  BY <1>10 DEF registry
<1>11. QED
  BY RegistrySteps, <1>1, <1>2, <1>3, <1>4, <1>5, <1>6, <1>7, <1>8, <1>9, <1>10

-----------------------------------------------------------------------------
(* The grid *)

LEMMA GridStep ==
    ASSUME RegistryTypes, GridTypes, GridExact, [BusNext]_busVars
    PROVE  GridExact'
<1> USE NoCellAssumption DEF GridTypes, GridExact
<1>1. ASSUME NEW p \in Players, NEW place \in Places, PlayerPos(p, place) PROVE GridExact'
  <2> DEFINE k == CellOf(place)
  <2>1. k \in Cells /\ k # NoCell
    BY DEF Cells
  <2>2. pos' = [pos EXCEPT ![p] = place] /\ players' = players \cup {p}
    BY <1>1 DEF PlayerPos
  <2>3. CellOf(pos[p])' = k /\ \A q \in Players \ {p} : CellOf(pos[q])' = CellOf(pos[q])
    BY <2>2 DEF CellOf
  <2>4. where'[p] = k /\ \A q \in Players \ {p} : where'[q] = where[q]
    BY <1>1 DEF PlayerPos, GridUpdate
  <2> HIDE DEF k
  <2>5. ASSUME NEW j \in Cells, NEW q \in Players
        PROVE  cells'[j][q] = IF where'[q] = j THEN 1 ELSE 0
    <3>1. GridUpdate(p, k)
      BY <1>1 DEF PlayerPos, k
    <3>2. CASE where[p] = k
      BY <2>4, <3>1, <3>2 DEF GridUpdate
    <3>3. CASE where[p] = NoCell
      BY <2>1, <2>4, <3>1, <3>3 DEF GridUpdate
    <3>4. CASE where[p] # k /\ where[p] # NoCell
      <4> DEFINE out == EraseFromCell(cells, where[p], p)
      <4>1. where[p] \in Cells
        BY <3>4
      <4>2. out \in [Cells -> [Players -> Nat]]
        BY <4>1 DEF EraseFromCell
      <4>3. out[j][q] = IF q = p THEN 0 ELSE cells[j][q]
        <5>1. CASE j = where[p] /\ q = p
          BY <4>1, <5>1 DEF EraseFromCell
        <5>2. CASE ~(j = where[p] /\ q = p)
          BY <4>1, <5>2 DEF EraseFromCell
        <5>3. QED
          BY <5>1, <5>2
      <4>4. cells' = [out EXCEPT ![k][p] = @ + 1]
        BY <3>1, <3>4 DEF GridUpdate
      <4> HIDE DEF out
      <4>5. cells'[j][q] = IF j = k /\ q = p THEN out[j][q] + 1 ELSE out[j][q]
        BY <2>1, <4>2, <4>4
      <4>6. QED
        BY <2>4, <4>3, <4>5
    <3>5. QED
      BY <3>2, <3>3, <3>4
  <2>6. QED
    BY <2>2, <2>3, <2>4, <2>5
<1>2. ASSUME NEW p \in Players, PlayerGone(p) PROVE GridExact'
  <2>1. pos' = [pos EXCEPT ![p] = Origin] /\ players' = players \ {p}
    BY <1>2 DEF PlayerGone
  <2>2. \A q \in Players \ {p} : CellOf(pos[q])' = CellOf(pos[q])
    BY <2>1 DEF CellOf
  <2>3. where'[p] = NoCell /\ \A q \in Players \ {p} : where'[q] = where[q]
    BY <1>2 DEF PlayerGone, GridRemove
  <2>4. ASSUME NEW j \in Cells, NEW q \in Players
        PROVE  cells'[j][q] = IF where'[q] = j THEN 1 ELSE 0
    BY <1>2, <2>3 DEF PlayerGone, GridRemove, EraseFromCell
  <2>5. QED
    BY <2>1, <2>2, <2>3, <2>4
<1>3. ASSUME NEW rebuild \in BOOLEAN, EngineTick(rebuild) PROVE GridExact'
  <2>1. pos' = pos /\ players' = players
    BY <1>3 DEF EngineTick, registry
  <2>2. \A q \in Players : CellOf(pos[q])' = CellOf(pos[q])
    BY <2>1 DEF CellOf
  <2>3. CASE GridRebuild
    BY <2>1, <2>2, <2>3 DEF GridRebuild
  <2>4. CASE UNCHANGED <<where, cells>>
    BY <2>1, <2>2, <2>4
  <2>5. QED
    BY <1>3, <2>3, <2>4 DEF EngineTick
<1>4. CASE UNCHANGED grid /\ players \subseteq players'
  <2>1. pos' = pos /\ where' = where /\ cells' = cells
    BY <1>4 DEF grid
  <2>2. \A q \in Players : CellOf(pos[q])' = CellOf(pos[q])
    BY <2>1 DEF CellOf
  <2>3. QED
    BY <1>4, <2>1, <2>2
<1>5. QED
  BY GridSteps, <1>1, <1>2, <1>3, <1>4

-----------------------------------------------------------------------------
(* Talking *)

LEMMA TalkStep ==
    ASSUME TalkTypes, TalkAgrees, [BusNext]_busVars
    PROVE  TalkAgrees'
<1> USE Constants DEF TalkTypes, TalkAgrees
<1>1. ASSUME NEW s \in Players, AudioFrame(s) PROVE TalkAgrees'
  BY <1>1 DEF AudioFrame, Started, registry
<1>2. ASSUME NEW p \in Players, PlayerGone(p) PROVE TalkAgrees'
  BY <1>2 DEF PlayerGone
<1>3. ASSUME NEW rebuild \in BOOLEAN, EngineTick(rebuild) PROVE TalkAgrees'
  BY <1>3 DEF EngineTick, Silent, Aged, registry
<1>4. CASE UNCHANGED talk /\ players \subseteq players' /\ frame' = NoFrame
  BY <1>4 DEF talk
<1>5. CASE UNCHANGED vars
  BY <1>5 DEF vars, talk, registry
<1>6. QED
  BY TalkSteps, <1>1, <1>2, <1>3, <1>4, <1>5 DEF busVars

-----------------------------------------------------------------------------
(* Codec and filter state *)

(* The targets of beeps and spoken frames are present players, on existing *)
(* channels.                                                               *)
LEMMA BeepTargets ==
    ASSUME NEW p, NEW on, NEW f \in Beeps(p, on)
    PROVE  /\ f.to \in players \ {p} /\ f.chan \in channels /\ f.from = {}
           /\ f.to \in members[f.chan] /\ "deafen" \notin Flags(f.to)
BY DEF Beeps

LEMMA OwnedStep ==
    ASSUME RegistryTypes, RouterTypes, BusStateOwned, [BusNext]_busVars
    PROVE  BusStateOwned'
<1> USE DEF RouterTypes, BusStateOwned
<1>1. CASE Pass
  <2>1. players \subseteq players' /\ channels \subseteq channels'
    BY <1>1 DEF Pass, PlayerPos, PlayerMeta, Config, ChanCreate, ChanFilter, ChanJoin,
      ChanLeave, PairMute
  <2>2. UNCHANGED router
    BY <1>1 DEF Pass
  <2>3. QED
    BY <2>1, <2>2 DEF router, Stale
<1>2. ASSUME NEW p \in Players, NEW on \in BOOLEAN, Key(p, on) PROVE BusStateOwned'
  <2>1. players' = players \cup {p} /\ channels' = channels
    BY <1>2 DEF Key, Transmit
  <2>2. UNCHANGED <<streams, since, emitted, decoders>>
    BY <1>2 DEF Key
  <2>3. encoders' = encoders \cup {<<f.to, f.chan>> : f \in Beeps(p, on)}
    BY <1>2 DEF Key
  <2>4. encoders' \subseteq players' \X channels'
    BY <2>1, <2>3, BeepTargets
  <2>5. QED
    BY <2>1, <2>2, <2>4 DEF Stale
<1>3. ASSUME NEW c \in Channels, DestroyChannel(c) PROVE BusStateOwned'
  <2>1. players' = players /\ channels' = channels \ {c}
    BY <1>3 DEF DestroyChannel, ChanDestroy
  <2>2. QED
    BY <1>3, <2>1 DEF DestroyChannel, PruneChannel, Stale
<1>4. ASSUME NEW p \in Players, RemovePlayer(p) PROVE BusStateOwned'
  <2>1. players' = players \ {p} /\ channels' = channels
    BY <1>4 DEF RemovePlayer, PlayerGone
  <2>2. QED
    BY <1>4, <2>1 DEF RemovePlayer, PrunePlayer, Stale
<1>5. ASSUME NEW s \in Players, SpeakerFrame(s) PROVE BusStateOwned'
  <2>1. players' = players /\ channels' = channels /\ s \in players
    BY <1>5 DEF SpeakerFrame, AudioFrame, registry
  <2>2. decoders' \subseteq players'
    BY <1>5, <2>1 DEF SpeakerFrame
  <2>3. CASE Silently
    BY <2>1, <2>2, <2>3 DEF Silently, Stale
  <2>4. ASSUME NEW keys \in SUBSET Keying(s), Speak(s, keys) PROVE BusStateOwned'
    <3>1. keys \subseteq channels /\ keys \subseteq Channels
      BY DEF Keying, RegistryTypes
    <3>2. \A f \in bus' : f.to \in players /\ f.chan \in keys
      BY <2>4, SpokenFrames
    <3>3. encoders' \subseteq players' \X channels'
      <4>1. {<<f.to, f.chan>> : f \in bus'} \subseteq players \X channels
        BY <3>1, <3>2
      <4>2. encoders' = encoders \cup {<<f.to, f.chan>> : f \in bus'}
        BY <2>4 DEF Speak
      <4>3. QED
        BY <2>1, <4>1, <4>2
    <3>4. streams' \subseteq players' \X channels' /\ emitted' \subseteq channels'
      BY <2>1, <2>4, <3>1 DEF Speak
    <3>5. \A sc \in Players \X Channels : since'[sc] # Stale => sc \in streams'
      BY <2>4 DEF Speak
    <3>6. QED
      BY <2>2, <3>3, <3>4, <3>5 DEF Stale
  <2>5. QED
    BY <1>5, <2>3, <2>4 DEF SpeakerFrame
<1>6. CASE Slot
  <2>1. players' = players /\ channels' = channels
    BY <1>6 DEF Slot, registry
  <2>2. QED
    BY <1>6, <2>1, BusConstants DEF Slot, Stale
<1>7. CASE CleanupTick
  <2>1. players' = players /\ channels' = channels
    BY <1>7 DEF CleanupTick, Tick, EngineTick, registry
  <2>2. QED
    BY <1>7, <2>1 DEF CleanupTick, router, Stale
<1>8. CASE UNCHANGED busVars
  BY <1>8 DEF busVars, vars, registry, router, Stale
<1>9. QED
  BY <1>1, <1>2, <1>3, <1>4, <1>5, <1>6, <1>7, <1>8 DEF BusNext

-----------------------------------------------------------------------------
(* The inductive invariant: types, the two sides of each membership, the   *)
(* grid, the talking flags and the owners of codec state.                  *)
IInv == TypeOK /\ MembershipSymmetric /\ GridExact /\ TalkAgrees /\ BusStateOwned

LEMMA IInvInit == BusInit => IInv
<1> SUFFICES ASSUME BusInit PROVE IInv
  OBVIOUS
<1>1. MembershipSymmetric
  BY DEF BusInit, Init, MembershipSymmetric
<1>2. GridExact
  BY NoCellAssumption DEF BusInit, Init, GridExact
<1>3. TalkAgrees
  BY DEF BusInit, Init, TalkAgrees
<1>4. BusStateOwned
  BY DEF BusInit, BusStateOwned
<1>5. QED
  BY TypeInit, <1>1, <1>2, <1>3, <1>4 DEF IInv

LEMMA IInvStep == IInv /\ [BusNext]_busVars => IInv'
BY TypeStep, MembershipStep, GridStep, TalkStep, OwnedStep DEF IInv, TypeOK

LEMMA IInvAlways == BusSpec => []IInv
BY IInvInit, IInvStep, PTL DEF BusSpec

(* The channel's list of members and the players' lists of channels agree, *)
(* and list only who and what exists.                                      *)
THEOREM MembershipsAgree == BusSpec => []MembershipSymmetric
BY IInvAlways, PTL DEF IInv

(* The grid kept up to date move by move is the one a rebuild would make.  *)
THEOREM GridIsExact == BusSpec => []GridExact
BY IInvAlways, PTL DEF IInv

(* The bridges' view of who is talking is the engine's.                    *)
THEOREM TalkingAgrees == BusSpec => []TalkAgrees
BY IInvAlways, PTL DEF IInv

(* No decoder, stream or encoder outlives its player or its channel.       *)
THEOREM BusStateIsOwned == BusSpec => []BusStateOwned
BY IInvAlways, PTL DEF IInv

-----------------------------------------------------------------------------
(* Leaving *)

LEMMA GoneStep ==
    ASSUME IInv, [BusNext]_busVars, NEW p \in players \ players'
    PROVE  /\ \A c \in Channels : p \notin members'[c]
           /\ \A k \in Cells : cells'[k][p] = 0
           /\ \A q \in Players : p \notin mutes'[q]
           /\ chans'[p] = {} /\ mutes'[p] = {} /\ near'[p] = {} /\ p \notin keyed'
<1>1. RegistryTypes /\ GridTypes /\ TalkTypes /\ MembershipSymmetric /\ IInv'
  BY IInvStep DEF IInv, TypeOK
<1>2. p \in Players
  BY <1>1 DEF RegistryTypes
<1>3. PlayerGone(p)
  BY RegistrySteps DEF PlayerPos, PlayerMeta, Config, ChanCreate, ChanFilter, ChanJoin,
    ChanLeave, PairMute, Transmit, ChanDestroy, PlayerGone, registry
<1>4. \A c \in Channels : p \notin members'[c]
  BY <1>1, <1>2, <1>3 DEF PlayerGone, RegistryTypes, MembershipSymmetric
<1>5. where'[p] = NoCell
  BY <1>1, <1>2, <1>3 DEF PlayerGone, GridRemove, GridTypes
<1>6. \A k \in Cells : cells'[k][p] = 0
  BY <1>1, <1>2, <1>5, NoCellAssumption DEF IInv, GridExact
<1>7. \A q \in Players : p \notin mutes'[q]
  BY <1>3 DEF PlayerGone, Unmuted
<1>8. chans'[p] = {} /\ mutes'[p] = {} /\ near'[p] = {} /\ p \notin keyed'
  BY <1>1, <1>2, <1>3 DEF PlayerGone, Unmuted, RegistryTypes, TalkTypes
<1>9. QED
  BY <1>4, <1>6, <1>7, <1>8

(* Whatever the player was doing when it left, the next player with its id *)
(* inherits no membership, grid entry, near set, mute or key.              *)
THEOREM LeavesNothing == BusSpec => GoneLeavesNothing
<1>1. IInv /\ [BusNext]_busVars =>
        [\A p \in players \ players' :
         /\ \A c \in Channels : p \notin members'[c]
         /\ \A k \in Cells : cells'[k][p] = 0
         /\ \A q \in Players : p \notin mutes'[q]
         /\ chans'[p] = {} /\ mutes'[p] = {} /\ near'[p] = {} /\ p \notin keyed']_vars
  BY GoneStep
<1>2. QED
  BY <1>1, IInvAlways, PTL DEF BusSpec, GoneLeavesNothing

-----------------------------------------------------------------------------
(* Who hears what on a bus *)

(* The steps that send bus frames. *)
LEMMA BusSteps ==
    ASSUME [BusNext]_busVars
    PROVE  \/ bus' = {}
           \/ \E p \in Players, on \in BOOLEAN : Key(p, on)
           \/ \E s \in Players : \E keys \in SUBSET Keying(s) : AudioFrame(s) /\ Speak(s, keys)
           \/ UNCHANGED busVars
BY DEF BusNext, Pass, DestroyChannel, RemovePlayer, SpeakerFrame, Slot, CleanupTick, Silently

LEMMA AudienceStep ==
    ASSUME IInv, BusAudience, [BusNext]_busVars
    PROVE  BusAudience'
<1>1. ASSUME NEW p \in Players, NEW on \in BOOLEAN, Key(p, on), NEW f \in bus'
      PROVE  f.to \in members'[f.chan] \cap players' /\ f.from = {}
  <2>1. f \in Beeps(p, on) /\ members' = members /\ players \subseteq players'
    BY <1>1 DEF Key, Transmit
  <2>2. QED
    BY <2>1, BeepTargets
<1>2. ASSUME NEW s \in Players, NEW keys \in SUBSET Keying(s), AudioFrame(s), Speak(s, keys),
             NEW f \in bus'
      PROVE  /\ f.to \in members'[f.chan] \cap players'
             /\ f.from \subseteq members'[f.chan] \ {f.to}
  <2>1. members' = members /\ players' = players
    BY <1>2 DEF AudioFrame, registry
  <2>2. f.to \in members[f.chan] \cap players /\ f.from = Mix(f.to, f.chan, since')
    BY <1>2, SpokenFrames
  <2>3. Mix(f.to, f.chan, since') \subseteq members[f.chan] \ {f.to}
    BY DEF Mix, Contributors
  <2>4. QED
    BY <2>1, <2>2, <2>3
<1>3. CASE UNCHANGED busVars
  BY <1>3 DEF busVars, vars, registry, BusAudience
<1>4. QED
  BY BusSteps, <1>1, <1>2, <1>3 DEF BusAudience

(* J1: nobody outside a channel gets its audio, nobody gets their own      *)
(* voice back, and the voice of one who has left is not mixed any more.    *)
THEOREM BusReachesMembers == BusSpec => []BusAudience
<1>1. BusInit => BusAudience
  BY DEF BusInit, BusAudience
<1>2. QED
  BY <1>1, AudienceStep, IInvAlways, PTL DEF BusSpec

(* Who got a frame in person still would: nothing that decides it has      *)
(* changed.                                                                *)
HeardCarries == \A s, l \in Players : <<s, l>> \in heard => ProximityAudible(s, l)

LEMMA HeardStep ==
    ASSUME IInv, HeardCarries, [BusNext]_busVars
    PROVE  HeardCarries'
<1> SUFFICES ASSUME NEW s \in Players, NEW l \in Players, <<s, l>> \in heard'
             PROVE  ProximityAudible(s, l)'
  BY DEF HeardCarries
<1>1. CASE UNCHANGED busVars
  <2>1. /\ players' = players /\ meta' = meta /\ tune' = tune /\ pos' = pos
        /\ heard' = heard
    BY <1>1 DEF busVars, vars, registry, grid
  <2>2. QED
    BY <2>1 DEF HeardCarries, ProximityAudible, Audible, Evaluate, EffectiveRange
<1>2. CASE BusNext /\ ~UNCHANGED busVars
  <2>1. /\ <<s, l>> \in heard \cup ({frame'.from} \X frame'.to)
        /\ Unmoved(s, l)
    BY <1>2 DEF BusNext, Hearing
  <2>2. {s, l} \subseteq players' /\ Audible(s, l)' = Audible(s, l)
    BY <2>1 DEF Unmoved, Audible, Evaluate, EffectiveRange
  <2>3. CASE <<s, l>> \in heard
    BY <2>2, <2>3 DEF HeardCarries, ProximityAudible
  <2>4. CASE s = frame'.from /\ l \in frame'.to
    <3>1. CASE \E z \in Players : AudioFrame(z)
      <4>1. PICK z \in Players : AudioFrame(z)
        BY <3>1
      <4>2. z = s /\ l \in Candidates(s)
        BY <2>4, <4>1, FrameEffect
      <4>3. QED
        BY <2>2, <4>2 DEF Candidates, ProximityAudible
    <3>2. CASE frame' = NoFrame
      BY <2>4, <3>2 DEF NoFrame
    <3>3. QED
      BY <1>2, TalkSteps, <3>1, <3>2 DEF PlayerGone, EngineTick
  <2>5. QED
    BY <2>1, <2>3, <2>4
<1>3. QED
  BY <1>1, <1>2

LEMMA EchoStep ==
    ASSUME IInv, HeardCarries', NoEcho, [BusNext]_busVars
    PROVE  NoEcho'
<1>1. ASSUME NEW p \in Players, NEW on \in BOOLEAN, Key(p, on), NEW f \in bus'
      PROVE  f.from = {}
  <2>1. f \in Beeps(p, on)
    BY <1>1 DEF Key
  <2>2. QED
    BY <2>1, BeepTargets
<1>2. ASSUME NEW s \in Players, NEW keys \in SUBSET Keying(s), AudioFrame(s), Speak(s, keys),
             NEW f \in bus', NEW m \in Players, m \in f.from, SuppressDouble
      PROVE  <<m, f.to>> \notin heard'
  <2>1. f.to \in players /\ f.from = Mix(f.to, f.chan, since')
    BY <1>2, SpokenFrames
  <2>2. ~ProximityAudible(m, f.to)
    BY <1>2, <2>1 DEF Mix
  <2>3. ~ProximityAudible(m, f.to)'
    <3>1. players' = players /\ meta' = meta /\ tune' = tune /\ pos' = pos
      BY <1>2 DEF AudioFrame, registry, grid
    <3>2. {m, f.to} \subseteq players' /\ Audible(m, f.to)' <=>
          {m, f.to} \subseteq players /\ Audible(m, f.to)
      BY <3>1 DEF Audible, Evaluate, EffectiveRange
    <3>3. QED
      BY <2>2, <3>2 DEF ProximityAudible
  <2>4. f.to \in Players
    BY <2>1 DEF IInv, TypeOK, RegistryTypes
  <2>5. QED
    BY <2>3, <2>4 DEF HeardCarries
<1>3. CASE UNCHANGED busVars
  BY <1>3 DEF busVars, NoEcho
<1>4. QED
  BY BusSteps, <1>1, <1>2, <1>3 DEF NoEcho

(* J5: while a frame that a listener got in person can be mixed, and       *)
(* neither it nor its speaker has moved or had the range changed, no bus   *)
(* frame brings that voice again, whoever of the channel started the mix.  *)
THEOREM NoDoublePlay == BusSpec => []NoEcho
<1>1. BusInit => HeardCarries /\ NoEcho
  BY DEF BusInit, HeardCarries, NoEcho
<1>2. IInv /\ HeardCarries /\ [BusNext]_busVars => HeardCarries'
  BY HeardStep
<1>3. IInv /\ HeardCarries' /\ NoEcho /\ [BusNext]_busVars => NoEcho'
  BY EchoStep
<1>4. QED
  BY <1>1, <1>2, <1>3, IInvAlways, PTL DEF BusSpec

-----------------------------------------------------------------------------
(* The near sets *)

(* Leaving one element out makes room for another. *)
LEMMA Replaced ==
    ASSUME NEW S, IsFiniteSet(S), NEW w \in S, NEW rest \in SUBSET (S \ {w}), NEW x
    PROVE  IsFiniteSet(rest \cup {x}) /\ Cardinality(rest \cup {x}) <= Cardinality(S)
<1>1. /\ IsFiniteSet(S \ {w}) /\ Cardinality(S \ {w}) = Cardinality(S) - 1
      /\ Cardinality(S) \in Nat
  BY FS_RemoveElement, FS_CardinalityType
<1>2. /\ IsFiniteSet(rest) /\ Cardinality(rest) \in Nat
      /\ Cardinality(rest) <= Cardinality(S) - 1
  BY <1>1, FS_Subset, FS_CardinalityType
<1>3. /\ IsFiniteSet(rest \cup {x})
      /\ Cardinality(rest \cup {x}) =
           IF x \in rest THEN Cardinality(rest) ELSE Cardinality(rest) + 1
  BY <1>2, FS_AddElement
<1>4. QED
  BY <1>1, <1>2, <1>3

(* nearestAdmit never leaves more than NearestN entries. *)
LEMMA AdmissionsBounded ==
    ASSUME NEW set, IsFiniteSet(set), Cardinality(set) <= NearestN, NEW s, NEW v,
           NEW a \in Admissions(set, s, v)
    PROVE  IsFiniteSet(a.set) /\ Cardinality(a.set) <= NearestN
<1> DEFINE fresh == Fresh(set)
           new == [speaker |-> s, vol |-> v, age |-> 0]
           mine == {e \in fresh : e.speaker = s}
<1>1. /\ IsFiniteSet(fresh) /\ Cardinality(fresh) \in Nat /\ Cardinality(fresh) <= NearestN
      /\ NearestN \in Nat
  <2>1. fresh \in SUBSET set
    BY DEF Fresh
  <2>2. Cardinality(set) \in Nat /\ NearestN \in Nat
    BY FS_CardinalityType, Constants
  <2> HIDE DEF fresh
  <2>3. QED
    BY <2>1, <2>2, FS_Subset, FS_CardinalityType
<1>2. CASE a.set = set \/ a.set = fresh
  BY <1>1, <1>2
<1>3. ASSUME NEW w \in fresh, NEW rest \in SUBSET (fresh \ {w}), a.set = rest \cup {new}
      PROVE  IsFiniteSet(a.set) /\ Cardinality(a.set) <= NearestN
  <2> HIDE DEF fresh, new
  <2>1. IsFiniteSet(rest \cup {new}) /\ Cardinality(rest \cup {new}) <= Cardinality(fresh)
    BY <1>1, Replaced
  <2>2. Cardinality(rest \cup {new}) \in Nat
    BY <2>1, FS_CardinalityType
  <2>3. QED
    BY <1>1, <1>3, <2>1, <2>2
<1>4. CASE mine # {} /\ a.set = (fresh \ mine) \cup {new}
  <2>1. PICK w \in mine : TRUE
    BY <1>4
  <2>2. w \in fresh /\ fresh \ mine \in SUBSET (fresh \ {w})
    BY <2>1
  <2>3. QED
    BY <1>3, <1>4, <2>2
<1>5. CASE Room(fresh) /\ a.set = fresh \cup {new}
  <2> HIDE DEF fresh, new
  <2>1. /\ IsFiniteSet(fresh \cup {new})
        /\ Cardinality(fresh \cup {new}) =
             IF new \in fresh THEN Cardinality(fresh) ELSE Cardinality(fresh) + 1
    BY <1>1, FS_AddElement
  <2>2. QED
    BY <1>1, <1>5, <2>1 DEF Room
<1>6. CASE \E w \in fresh : a.set = (fresh \ {w}) \cup {new}
  BY <1>3, <1>6
<1>7. QED
  BY <1>2, <1>4, <1>5, <1>6 DEF Admissions, Admitted, Weakest

(* nearestAdmit leaves at most one entry per speaker, and one for the       *)
(* speaker it admits, which is as old as the frame.                        *)
OnePerSpeaker(set) == \A e, f \in set : e.speaker = f.speaker => e = f

LEMMA AdmissionsDistinct ==
    ASSUME NEW set, OnePerSpeaker(set), NEW s, NEW v, NEW a \in Admissions(set, s, v)
    PROVE  /\ OnePerSpeaker(a.set)
           /\ a.ok /\ NearestN > 0 => \E e \in a.set : e.speaker = s /\ e.vol = v /\ e.age = 0
<1> DEFINE fresh == Fresh(set)
           new == [speaker |-> s, vol |-> v, age |-> 0]
           mine == {e \in fresh : e.speaker = s}
<1>1. new.speaker = s /\ new.vol = v /\ new.age = 0 /\ fresh \subseteq set
  BY DEF Fresh
<1> HIDE DEF fresh, new
<1>2. CASE a.set = set /\ NearestN = 0
  BY <1>2
<1>3. CASE a.set = fresh /\ ~a.ok
  BY <1>1, <1>3 DEF OnePerSpeaker
<1>4. ASSUME NEW rest \in SUBSET (fresh \ mine), a.set = rest \cup {new}
      PROVE  OnePerSpeaker(a.set) /\ \E e \in a.set : e.speaker = s /\ e.vol = v /\ e.age = 0
  <2>1. rest \subseteq set /\ \A e \in rest : e.speaker # s
    BY <1>1, <1>4
  <2>2. QED
    BY <1>1, <1>4, <2>1 DEF OnePerSpeaker
<1>5. CASE NearestN # 0 /\ a.set \in Admitted(set, s, v)
  <2>1. CASE mine # {}
    BY <1>4, <1>5, <2>1 DEF Admitted, fresh, new
  <2>2. CASE mine = {}
    <3>1. \E rest \in SUBSET fresh : a.set = rest \cup {new}
      BY <1>5, <2>2 DEF Admitted, fresh, new
    <3>2. QED
      BY <1>4, <2>2, <3>1
  <2>3. QED
    BY <2>1, <2>2
<1>6. QED
  BY <1>2, <1>3, <1>5 DEF Admissions, fresh

(* The cap: no near set holds more than NearestN entries, all of different *)
(* speakers, and every frame that is delivered has its speaker's entry,    *)
(* brought up to date, in the listener's set.                              *)
NearBounded == \A l \in Players : IsFiniteSet(near[l]) /\ Cardinality(near[l]) <= NearestN
NearDistinct == \A l \in Players : OnePerSpeaker(near[l])
DeliveredIsListed ==
    frame.from # NoPlayer /\ NearestN > 0 =>
        \A l \in frame.to : \E e \in near[l] :
            e.speaker = frame.from /\ e.vol = Evaluate(frame.from, l) /\ e.age = 0
NearestCap == NearBounded /\ NearDistinct /\ DeliveredIsListed

LEMMA NearStep ==
    ASSUME TypeOK, NearBounded, [BusNext]_busVars
    PROVE  NearBounded'
<1> USE DEF NearBounded
<1>1. ASSUME NEW s \in Players, AudioFrame(s), NEW l \in Players
      PROVE  IsFiniteSet(near'[l]) /\ Cardinality(near'[l]) <= NearestN
  <2>1. CASE l \in Candidates(s)
    <3>1. PICK a \in Admissions(near[l], s, Evaluate(s, l)) : near'[l] = a.set
      BY <1>1, <2>1, FrameEffect
    <3>2. QED
      BY <3>1, AdmissionsBounded
  <2>2. CASE l \notin Candidates(s)
    BY <1>1, <2>2, FrameEffect
  <2>3. QED
    BY <2>1, <2>2
<1>2. ASSUME NEW p \in Players, PlayerGone(p), NEW l \in Players
      PROVE  IsFiniteSet(near'[l]) /\ Cardinality(near'[l]) <= NearestN
  BY <1>2, FS_EmptySet, Constants DEF PlayerGone, TypeOK, TalkTypes
<1>3. ASSUME NEW rebuild \in BOOLEAN, EngineTick(rebuild), NEW l \in Players
      PROVE  IsFiniteSet(near'[l]) /\ Cardinality(near'[l]) <= NearestN
  <2> DEFINE S == near[l]
             T == {Older(e) : e \in S}
             f == [e \in S |-> Older(e)]
  <2>1. near'[l] = T
    BY <1>3 DEF EngineTick
  <2>2. f \in Surjection(S, T)
    BY DEF Surjection
  <2>3. IsFiniteSet(S) /\ Cardinality(S) <= NearestN
    OBVIOUS
  <2> HIDE DEF S, T, f
  <2>4. IsFiniteSet(T) /\ Cardinality(T) <= Cardinality(S)
    BY <2>2, <2>3, FS_Surjection
  <2>5. Cardinality(S) \in Nat /\ Cardinality(T) \in Nat
    BY <2>3, <2>4, FS_CardinalityType
  <2>6. QED
    BY <2>1, <2>3, <2>4, <2>5, Constants
<1>4. CASE UNCHANGED near
  BY <1>4
<1>5. QED
  BY TalkSteps, <1>1, <1>2, <1>3, <1>4 DEF busVars, vars, talk

(* Entries grow older in step, and stay one per speaker. *)
LEMMA DistinctStep ==
    ASSUME TypeOK, NearDistinct, DeliveredIsListed, [BusNext]_busVars
    PROVE  NearDistinct' /\ DeliveredIsListed'
<1> USE DEF NearDistinct, DeliveredIsListed
<1>1. ASSUME NEW s \in Players, AudioFrame(s) PROVE NearDistinct' /\ DeliveredIsListed'
  <2>1. ASSUME NEW l \in Candidates(s)
        PROVE  /\ OnePerSpeaker(near'[l])
               /\ NearestN > 0 /\ l \in frame'.to =>
                    \E e \in near'[l] : e.speaker = s /\ e.vol = Evaluate(s, l) /\ e.age = 0
    <3>1. PICK a \in Admissions(near[l], s, Evaluate(s, l)) :
            near'[l] = a.set /\ (l \in frame'.to <=> a.ok)
      BY <1>1, <2>1, FrameEffect
    <3>2. l \in Players
      BY <2>1 DEF Candidates, Neighbours
    <3>3. QED
      BY <3>1, <3>2, AdmissionsDistinct
  <2>2. \A l \in Players \ Candidates(s) : near'[l] = near[l]
    BY <1>1, FrameEffect
  <2>3. frame'.from = s /\ frame'.to \subseteq Candidates(s)
    BY <1>1, FrameEffect
  <2>4. ASSUME NEW l PROVE Evaluate(s, l)' = Evaluate(s, l)
    BY <1>1 DEF AudioFrame, registry, grid, Evaluate, EffectiveRange
  <2>5. NearDistinct'
    BY <2>1, <2>2 DEF OnePerSpeaker
  <2>6. DeliveredIsListed'
    BY <2>1, <2>3, <2>4
  <2>7. QED
    BY <2>5, <2>6
<1>2. CASE frame' = NoFrame /\ UNCHANGED near
  BY <1>2 DEF NoFrame, OnePerSpeaker
<1>3. ASSUME NEW p \in Players, PlayerGone(p) PROVE NearDistinct' /\ DeliveredIsListed'
  <2>1. \A l \in Players : near'[l] = {} \/ near'[l] = near[l]
    BY <1>3 DEF PlayerGone, TypeOK, TalkTypes
  <2>2. frame' = NoFrame
    BY <1>3 DEF PlayerGone
  <2>3. QED
    BY <2>1, <2>2 DEF NoFrame, OnePerSpeaker
<1>4. ASSUME NEW rebuild \in BOOLEAN, EngineTick(rebuild)
      PROVE  NearDistinct' /\ DeliveredIsListed'
  <2>1. \A l \in Players : near'[l] = {Older(e) : e \in near[l]}
    BY <1>4 DEF EngineTick
  <2>2. ASSUME NEW l \in Players, NEW e \in near[l] PROVE Older(e).speaker = e.speaker
    BY DEF Older, TypeOK, TalkTypes, Entries
  <2>3. NearDistinct'
    BY <2>1, <2>2 DEF OnePerSpeaker
  <2>4. frame' = NoFrame
    BY <1>4 DEF EngineTick
  <2>5. QED
    BY <2>3, <2>4 DEF NoFrame
<1>5. CASE UNCHANGED vars
  <2>1. near' = near /\ frame' = frame /\ pos' = pos /\ meta' = meta /\ tune' = tune
    BY <1>5 DEF vars, talk, grid, registry
  <2>2. ASSUME NEW s, NEW l PROVE Evaluate(s, l)' = Evaluate(s, l)
    BY <2>1 DEF Evaluate, EffectiveRange
  <2>3. QED
    BY <2>1, <2>2 DEF OnePerSpeaker
<1>6. QED
  BY TalkSteps, <1>1, <1>2, <1>3, <1>4, <1>5 DEF busVars, talk

(* nearest_n is kept, for any cap and any number of speakers: the entries  *)
(* behind the cap are of different speakers and never more than NearestN,  *)
(* and nobody is heard without one, with the volume of the last frame.     *)
THEOREM NearestNIsKept == BusSpec => []NearestCap
<1>1. BusInit => NearBounded /\ NearDistinct /\ DeliveredIsListed
  BY FS_EmptySet, Constants
     DEF BusInit, Init, NearBounded, NearDistinct, DeliveredIsListed, OnePerSpeaker, NoFrame
<1>2. TypeOK /\ NearBounded /\ [BusNext]_busVars => NearBounded'
  BY NearStep
<1>3. TypeOK /\ NearDistinct /\ DeliveredIsListed /\ [BusNext]_busVars
        => NearDistinct' /\ DeliveredIsListed'
  BY DistinctStep
<1>4. QED
  BY <1>1, <1>2, <1>3, BusTypeCorrect, PTL DEF BusSpec, NearestCap

-----------------------------------------------------------------------------
(* Earshot *)

(* Two points closer than r are in cells at most Span(r) apart, wherever   *)
(* the borders lie.                                                        *)
LEMMA SpanCovers ==
    ASSUME NEW a \in Int, NEW b \in Int, NEW r \in Nat, Dist(a, b) < r
    PROVE  Dist(a \div CellSize, b \div CellSize) <= Span(r)
<1> DEFINE A == a \div CellSize
           B == b \div CellSize
           S == (r + CellSize - 1) \div CellSize
<1> USE Constants
<1>1. A \in Int /\ CellSize * A <= a /\ a < CellSize * A + CellSize
  OBVIOUS
<1>2. B \in Int /\ CellSize * B <= b /\ b < CellSize * B + CellSize
  OBVIOUS
<1>3. S \in Int /\ r <= CellSize * S
  OBVIOUS
<1> HIDE DEF A, B, S
<1>4. ASSUME NEW x \in Int, NEW y \in Int, CellSize * x - CellSize * y - CellSize < r
      PROVE  x - y <= S
  <2>1. SUFFICES ASSUME S + y < x PROVE FALSE
    BY <1>3
  <2>2. CellSize * (S + y) + CellSize <= CellSize * x
    <3>1. S + y + 1 <= x
      BY <1>3, <2>1
    <3>2. CellSize * (S + y + 1) <= CellSize * x
      BY <1>3, <3>1
    <3>3. QED
      BY <1>3, <3>2
  <2>3. CellSize * (S + y) = CellSize * S + CellSize * y
    BY <1>3
  <2>4. /\ CellSize * (S + y) \in Int /\ CellSize * S \in Int
        /\ CellSize * y \in Int /\ CellSize * x \in Int
    BY <1>3
  <2>5. QED
    BY <1>3, <1>4, <2>2, <2>3, <2>4
<1>5. A - B <= S /\ B - A <= S
  <2>1. CellSize * A \in Int /\ CellSize * B \in Int
    BY <1>1, <1>2
  <2>2. CellSize * A - CellSize * B - CellSize < r
    BY <1>1, <1>2, <2>1 DEF Dist
  <2>3. CellSize * B - CellSize * A - CellSize < r
    BY <1>1, <1>2, <2>1 DEF Dist
  <2>4. QED
    BY <1>1, <1>2, <1>4, <2>2, <2>3
<1>6. Dist(A, B) <= S
  BY <1>1, <1>2, <1>3, <1>5 DEF Dist
<1>7. QED
  BY <1>6 DEF A, B, S, Span

(* Every present player on the grid to whom the speaker is audible is      *)
(* found by the search of the neighbouring cells.                          *)
LEMMA EarshotFound ==
    ASSUME TypeOK, GridExact, NEW s \in Players, NEW l \in Players \ {s},
           where[l] # NoCell, Audible(s, l)
    PROVE  l \in Neighbours(s)
<1> DEFINE k == CellOf(pos[l])
<1>1. where[l] = k /\ k \in Cells
  BY DEF TypeOK, GridTypes, GridExact
<1>2. cells[k][l] > 0
  BY <1>1 DEF GridExact
<1>3. pos[s][1] = pos[l][1] /\ Dist(pos[s][2], pos[l][2]) < EffectiveRange(s)
  BY DEF Audible, Evaluate
<1>4. pos[s][2] \in Int /\ pos[l][2] \in Int
  BY Constants DEF TypeOK, GridTypes
<1>5. EffectiveRange(s) \in Nat
  BY EvaluateNat DEF TypeOK
<1>6. Dist(pos[l][2] \div CellSize, pos[s][2] \div CellSize) <= Span(EffectiveRange(s))
  <2>1. Dist(pos[l][2], pos[s][2]) < EffectiveRange(s)
    BY <1>3, <1>4 DEF Dist
  <2>2. QED
    BY <1>4, <1>5, <2>1, SpanCovers
<1>7. k[1] = pos[s][1] /\ Dist(k[2], CellOf(pos[s])[2]) <= Span(EffectiveRange(s))
  BY <1>3, <1>6 DEF CellOf
<1>8. QED
  BY <1>1, <1>2, <1>7 DEF Neighbours

(* The grid is only an index: the candidates it yields for a frame are     *)
(* exactly the present players on it who would be found by looking at      *)
(* everyone.                                                               *)
GridTransparent ==
    \A s \in Players : "dead" \notin Flags(s) =>
        Candidates(s) = {l \in players \ {s} :
                           /\ where[l] # NoCell /\ Audible(s, l)
                           /\ "deafen" \notin Flags(l) /\ s \notin mutes[l]}

LEMMA CandidatesFound == TypeOK /\ GridExact => GridTransparent
<1> SUFFICES ASSUME TypeOK, GridExact, NEW s \in Players PROVE
      Candidates(s) \subseteq {l \in players \ {s} : where[l] # NoCell}
      /\ \A l \in players \ {s} : where[l] # NoCell /\ Audible(s, l) => l \in Neighbours(s)
  BY DEF GridTransparent, Candidates, Neighbours
<1>1. ASSUME NEW l \in Candidates(s)
      PROVE  l \in players \ {s} /\ where[l] # NoCell
  <2>1. l \in players \ {s} /\ l \in Players /\ \E k \in Cells : cells[k][l] > 0
    BY <1>1 DEF Candidates, Neighbours
  <2>2. PICK k \in Cells : where[l] = k
    BY <2>1 DEF GridExact
  <2>3. QED
    BY <2>1, <2>2, NoCellAssumption
<1>2. ASSUME NEW l \in players \ {s}, where[l] # NoCell, Audible(s, l)
      PROVE  l \in Neighbours(s)
  BY <1>2, EarshotFound DEF TypeOK, RegistryTypes
<1>3. QED
  BY <1>1, <1>2

(* Wherever the cell borders lie, whatever the ranges and however players  *)
(* have moved, searching the neighbouring cells misses nobody in earshot.  *)
THEOREM GridSearchIsComplete == BusSpec => []GridTransparent
<1>1. IInv => GridTransparent
  BY CandidatesFound DEF IInv
<1>2. QED
  BY <1>1, IInvAlways, PTL

-----------------------------------------------------------------------------
(* Who hears a frame in person *)

(* In a non-empty near set there is a weakest entry. *)
LEMMA WeakestExists ==
    ASSUME NEW set \in SUBSET Entries, set # {}
    PROVE  \E w \in set : w \in Weakest(set)
<1> DEFINE vols == {e.vol : e \in set}
<1>1. vols \subseteq Nat /\ vols # {}
  BY DEF Entries
<1>2. PICK v \in vols : \A u \in vols : v <= u
  <2> HIDE DEF vols
  <2>1. QED
    BY <1>1, Least
<1>3. PICK w \in set : w.vol = v
  OBVIOUS
<1>4. QED
  BY <1>2, <1>3 DEF Weakest

(* A frame that nearestAdmit refuses leaves a near set that is full of     *)
(* other, fresh and at least as loud speakers.                             *)
LEMMA Refused ==
    ASSUME NEW set \in SUBSET Entries, IsFiniteSet(set), Cardinality(set) <= NearestN,
           NEW s, NEW v \in Nat, NEW a \in Admissions(set, s, v), ~a.ok
    PROVE  /\ Cardinality(a.set) = NearestN /\ NearestN > 0
           /\ \A e \in a.set : e.speaker # s /\ e.age <= FreshTicks /\ e.vol >= v
<1>1. NearestN # 0 /\ Admitted(set, s, v) = {} /\ a.set = Fresh(set)
  BY DEF Admissions
<1> DEFINE fresh == Fresh(set)
<1>2. /\ \A e \in fresh : e.speaker # s
      /\ ~Room(fresh)
      /\ \A w \in Weakest(fresh) : ~(w.vol < v)
  BY <1>1 DEF Admitted
<1>3. fresh \in SUBSET Entries /\ fresh \in SUBSET set
  BY DEF Fresh
<1>4. /\ IsFiniteSet(fresh) /\ Cardinality(fresh) <= Cardinality(set)
      /\ Cardinality(fresh) \in Nat /\ Cardinality(set) \in Nat
  <2> HIDE DEF fresh
  <2>1. QED
    BY <1>3, FS_Subset, FS_CardinalityType
<1>5. Cardinality(fresh) = NearestN /\ NearestN > 0
  BY <1>1, <1>2, <1>4, Constants DEF Room
<1>6. fresh # {}
  BY <1>5, FS_EmptySet
<1>7. PICK w \in fresh : w \in Weakest(fresh)
  BY <1>3, <1>6, WeakestExists
<1>8. \A e \in fresh : e.vol >= v
  <2>1. \A e \in fresh : e.vol \in Nat
    BY <1>3 DEF Entries
  <2>2. w.vol >= v
    BY <1>2, <1>7, <2>1
  <2>3. \A e \in fresh : w.vol <= e.vol
    BY <1>7 DEF Weakest
  <2>4. QED
    BY <2>1, <2>2, <2>3
<1>9. \A e \in fresh : e.age <= FreshTicks
  BY DEF Fresh
<1>10. QED
  BY <1>1, <1>2, <1>5, <1>8, <1>9

LEMMA LoudestStep ==
    ASSUME IInv, NearBounded, LoudestHeard, [BusNext]_busVars
    PROVE  LoudestHeard'
<1> DEFINE open(s, l) == /\ Audible(s, l) /\ "dead" \notin Flags(s)
                         /\ "deafen" \notin Flags(l) /\ s \notin mutes[l]
<1>1. ASSUME NEW s \in Players, AudioFrame(s) PROVE LoudestHeard'
  <2>1. /\ players' = players /\ meta' = meta /\ mutes' = mutes /\ tune' = tune
        /\ pos' = pos /\ where' = where /\ frame'.from = s /\ frame'.to \subseteq Candidates(s)
    BY <1>1, FrameEffect DEF AudioFrame, registry, grid
  <2>2. ASSUME NEW l
        PROVE  Evaluate(s, l)' = Evaluate(s, l) /\ Audible(s, l)' = Audible(s, l)
               /\ open(s, l)' = open(s, l)
    BY <2>1 DEF Audible, Evaluate, EffectiveRange, Flags
  <2>3. \A l \in Candidates(s) : l \in players /\ open(s, l)
    BY DEF Candidates
  <2>4. ASSUME NEW l \in players \ ({s} \cup frame'.to), where[l] # NoCell, open(s, l)
        PROVE  /\ Cardinality(near'[l]) = NearestN /\ NearestN > 0
               /\ \A e \in near'[l] : /\ e.speaker # s /\ e.age <= FreshTicks
                                      /\ e.vol >= Evaluate(s, l)
    <3>1. l \in Players /\ near[l] \in SUBSET Entries /\ Evaluate(s, l) \in Nat
      BY EvaluateNat DEF IInv, TypeOK, RegistryTypes, TalkTypes
    <3>2. l \in Neighbours(s)
      BY <2>4, <3>1, EarshotFound DEF IInv
    <3>3. l \in Candidates(s)
      BY <2>4, <3>2 DEF Candidates
    <3>4. PICK a \in Admissions(near[l], s, Evaluate(s, l)) : near'[l] = a.set /\ ~a.ok
      BY <1>1, <2>4, <3>3, FrameEffect
    <3>5. QED
      BY <3>1, <3>4, Refused DEF NearBounded
  <2>5. QED
    BY <2>1, <2>2, <2>3, <2>4 DEF LoudestHeard
<1>2. CASE frame' = NoFrame
  BY <1>2 DEF LoudestHeard, NoFrame
<1>3. CASE UNCHANGED vars
  <2>1. /\ players' = players /\ meta' = meta /\ mutes' = mutes /\ tune' = tune
        /\ pos' = pos /\ where' = where /\ frame' = frame /\ near' = near
    BY <1>3 DEF vars, registry, grid, talk
  <2>2. ASSUME NEW s, NEW l
        PROVE  /\ Evaluate(s, l)' = Evaluate(s, l) /\ Audible(s, l)' = Audible(s, l)
               /\ Flags(s)' = Flags(s) /\ Flags(l)' = Flags(l)
    BY <2>1 DEF Audible, Evaluate, EffectiveRange, Flags
  <2>3. QED
    BY <2>1, <2>2 DEF LoudestHeard
<1>4. QED
  BY TalkSteps, <1>1, <1>2, <1>3 DEF PlayerGone, EngineTick, busVars

(* A frame reaches everyone in earshot who may hear it, and misses only    *)
(* those whose near set is full of speakers that are at least as loud:     *)
(* for any cell size, any ranges and any cap.                              *)
THEOREM LoudestAreHeard == BusSpec => []LoudestHeard
<1>1. BusInit => LoudestHeard
  BY DEF BusInit, Init, LoudestHeard, NoFrame
<1>2. QED
  BY <1>1, LoudestStep, IInvAlways, NearestNIsKept, PTL DEF BusSpec, NearestCap
=============================================================================
