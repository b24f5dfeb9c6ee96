-------------------------- MODULE ControlLinkProofs --------------------------
(***************************************************************************)
(* Theorems about the control link, for any players, ids, attributes and   *)
(* buffer sizes.                                                           *)
(***************************************************************************)
EXTENDS LinkRefinement, InductionLemmas

(* What the variables hold. *)
Conf == [Attrs -> Values \cup {0}]
Channels == [on : BOOLEAN, conf : Conf, members : SUBSET Players]
Tables == [Ids -> Channels]
Msgs ==
    [type : {"create"}, chan : Ids, conf : Conf]
    \cup [type : {"destroy"}, chan : Ids]
    \cup [type : {"join", "leave"}, player : Players, chan : Ids]
    \cup [type : {"set"}, chan : Ids, attr : Attrs, val : Values]
    \cup [type : {"push", "bind", "gone"}, player : Players]
    \cup [type : {"config"}]
Events == [event : {"start", "stop", "timeout", "key"}, player : Players]

TypeOK ==
    /\ inGame \subseteq Players /\ nextId \in Ids /\ mirror \in Tables
    /\ view \subseteq Players /\ wire \in Seq(Msgs) /\ statusQ \in Seq(Events)
    /\ replica \in Tables /\ known \subseteq Players /\ active \subseteq Players
    /\ vague \subseteq Players /\ missed \subseteq Players

-----------------------------------------------------------------------------
(* A datagram on the channel tables *)

LEMMA TablesType ==
    ASSUME NEW r \in Tables, NEW c \in Ids
    PROVE  /\ r[c] \in Channels /\ r[c].on \in BOOLEAN /\ r[c].conf \in Conf
           /\ r[c].members \subseteq Players
           /\ r[c] = [on |-> r[c].on, conf |-> r[c].conf, members |-> r[c].members]
BY DEF Tables, Channels

LEMMA NoTableType == NoChannel \in Channels /\ [c \in Ids |-> NoChannel] \in Tables
BY DEF NoChannel, Channels, Conf, Tables

(* The parts a datagram of each kind has. *)
LEMMA Parts ==
    ASSUME NEW m \in Msgs
    PROVE  /\ m.type \in {"create", "destroy", "join", "leave", "set"} => m.chan \in Ids
           /\ m.type \in {"join", "leave", "push", "bind", "gone"} => m.player \in Players
           /\ m.type = "create" => m.conf \in Conf
           /\ m.type = "set" => m.attr \in Attrs /\ m.val \in Values
           /\ m.type \in {"create", "destroy", "join", "leave", "set", "push", "bind",
                          "gone", "config"}
           /\ m.type = "gone" => m = [type |-> "gone", player |-> m.player]
BY DEF Msgs

(* What a datagram makes of channel c, when that was h. *)
Effect(h, m, c) ==
    CASE m.type = "create" /\ c = m.chan ->
           [on |-> TRUE, conf |-> m.conf, members |-> h.members]
      [] m.type = "destroy" /\ c = m.chan -> NoChannel
      [] m.type = "join" /\ c = m.chan /\ h.on -> [h EXCEPT !.members = @ \cup {m.player}]
      [] m.type = "leave" /\ c = m.chan -> [h EXCEPT !.members = @ \ {m.player}]
      [] m.type = "set" /\ c = m.chan /\ h.on -> [h EXCEPT !.conf[m.attr] = m.val]
      [] m.type = "gone" -> [h EXCEPT !.members = @ \ {m.player}]
      [] OTHER -> h

LEMMA AppliedTo ==
    ASSUME NEW r \in Tables, NEW m \in Msgs, NEW c \in Ids
    PROVE  Applied(r, m)[c] = Effect(r[c], m, c)
<1> USE DEF Tables, Channels, Effect
<1>1. CASE m.type = "create"
  BY <1>1 DEF Applied, Created
<1>2. CASE m.type = "destroy"
  BY <1>2 DEF Applied, Destroyed
<1>3. CASE m.type = "join"
  BY <1>3 DEF Applied, Joined
<1>4. CASE m.type = "leave"
  BY <1>4 DEF Applied, Left
<1>5. CASE m.type = "set"
  BY <1>5 DEF Applied, Set
<1>6. CASE m.type = "gone"
  BY <1>6 DEF Applied, Removed
<1>7. CASE m.type \in {"push", "bind", "config"}
  BY <1>7 DEF Applied
<1>8. QED
  BY <1>1, <1>2, <1>3, <1>4, <1>5, <1>6, <1>7, Parts

(* It leaves a channel. *)
LEMMA EffectType ==
    ASSUME NEW h \in Channels, NEW m \in Msgs, NEW c
    PROVE  Effect(h, m, c) \in Channels
<1>1. CASE m.type = "create"
  BY <1>1, Parts DEF Effect, Channels
<1>2. CASE m.type = "destroy"
  BY <1>2, NoTableType DEF Effect
<1>3. CASE m.type \in {"join", "leave", "gone"}
  BY <1>3, Parts DEF Effect, Channels
<1>4. CASE m.type = "set"
  BY <1>4, Parts DEF Effect, Channels, Conf
<1>5. CASE m.type \in {"push", "bind", "config"}
  BY <1>5 DEF Effect
<1>6. QED
  BY <1>1, <1>2, <1>3, <1>4, <1>5, Parts

(* The channel it names is the only one it changes, a departure those with *)
(* the player.                                                             *)
LEMMA Elsewhere ==
    ASSUME NEW h \in Channels, NEW m \in Msgs, NEW c,
           m.type \in {"create", "destroy", "join", "leave", "set"} => c # m.chan,
           m.type = "gone" => m.player \notin h.members
    PROVE  Effect(h, m, c) = h
<1>1. CASE m.type = "gone"
  <2>1. h.members \ {m.player} = h.members
    BY <1>1
  <2>2. [h EXCEPT !.members = h.members] = h
    BY DEF Channels
  <2>3. Effect(h, m, c) = [h EXCEPT !.members = h.members \ {m.player}]
    BY <1>1 DEF Effect
  <2>4. QED
    BY <2>1, <2>2, <2>3
<1>2. CASE m.type # "gone"
  BY <1>2 DEF Effect
<1>3. QED
  BY <1>1, <1>2

(* Only a join adds a member, and a departure takes one away. *)
LEMMA Members ==
    ASSUME NEW h \in Channels, NEW m \in Msgs, NEW c, NEW p,
           p \in Effect(h, m, c).members
    PROVE  /\ p \in h.members \/ (m.type = "join" /\ m.player = p)
           /\ ~(m.type = "gone" /\ m.player = p)
<1>1. CASE m.type \in {"create", "set"}
  BY <1>1 DEF Effect, Channels
<1>2. CASE m.type = "destroy"
  BY <1>2 DEF Effect, NoChannel
<1>3. CASE m.type \in {"join", "leave", "gone"}
  BY <1>3 DEF Effect, Channels
<1>4. CASE m.type \in {"push", "bind", "config"}
  BY <1>4 DEF Effect
<1>5. QED
  BY <1>1, <1>2, <1>3, <1>4, Parts

(* A channel that does not exist keeps nothing. *)
LEMMA OffStays ==
    ASSUME NEW h \in Channels, NEW m \in Msgs, NEW c,
           ~h.on => h = NoChannel, ~Effect(h, m, c).on
    PROVE  Effect(h, m, c) = NoChannel
<1>1. CASE m.type = "create"
  BY <1>1 DEF Effect
<1>2. CASE m.type = "destroy"
  BY <1>2 DEF Effect
<1>3. CASE m.type \in {"join", "set"}
  BY <1>3 DEF Effect, Channels
<1>4. CASE m.type \in {"leave", "gone"}
  <2>1. ~h.on
    BY <1>4 DEF Effect, Channels
  <2>2. NoChannel.members \ {m.player} = NoChannel.members
    BY DEF NoChannel
  <2>3. [NoChannel EXCEPT !.members = NoChannel.members] = NoChannel
    BY DEF NoChannel
  <2>4. QED
    BY <1>4, <2>1, <2>2, <2>3 DEF Effect
<1>5. CASE m.type \in {"push", "bind", "config"}
  BY <1>5 DEF Effect
<1>6. QED
  BY <1>1, <1>2, <1>3, <1>4, <1>5, Parts

LEMMA AppliedType ==
    ASSUME NEW r \in Tables, NEW m \in Msgs
    PROVE  Applied(r, m) \in Tables
<1>1. ASSUME NEW c \in Ids PROVE Applied(r, m)[c] \in Channels
  <2>1. r[c] \in Channels
    BY DEF Tables
  <2>2. QED
    BY <2>1, AppliedTo, EffectType
<1>2. Applied(r, m) = [c \in Ids |-> Applied(r, m)[c]]
  <2>1. CASE m.type = "gone"
    BY <2>1 DEF Applied, Removed
  <2>2. CASE m.type # "gone"
    BY <2>2, Parts DEF Tables, Applied, Created, Destroyed, Joined, Left, Set
  <2>3. QED
    BY <2>1, <2>2
<1>3. QED
  BY <1>1, <1>2 DEF Tables

-----------------------------------------------------------------------------
(* All that is under way to the relay *)
Steps(w) == [i \in 1..Len(w) |-> [v \in Tables |-> Applied(v, w[i])]]

LEMMA AllAppliedUnfolds ==
    ASSUME NEW r \in Tables, NEW w \in Seq(Msgs)
    PROVE  \E f : Unfolds(f, r, Steps(w), Len(w), Tables) /\ AllApplied(r, w) = f[Len(w)]
<1> DEFINE n == Len(w)
           a == CHOOSE f : f = [i \in 0..n |->
                     IF i = 0 THEN r ELSE Applied(f[i - 1], w[i])]
<1>0. n \in Nat /\ n = Len(w) /\ \A i \in 1..n : w[i] \in Msgs
  OBVIOUS
<1> HIDE DEF n
<1>1. Steps(w) \in [1..n -> [Tables -> Tables]]
  BY <1>0, AppliedType DEF Steps
<1>2. PICK f : Unfolds(f, r, Steps(w), n, Tables)
  BY <1>0, <1>1, Recursion
<1>3. ASSUME NEW i \in 1..n PROVE f[i] = Applied(f[i - 1], w[i])
  BY <1>0, <1>2 DEF Unfolds, Steps
<1>4. f = [i \in 0..n |-> IF i = 0 THEN r ELSE Applied(f[i - 1], w[i])]
  <2>1. \A i \in 0..n : i = 0 \/ i \in 1..n
    BY <1>0
  <2>2. QED
    BY <1>2, <1>3, <2>1 DEF Unfolds
<1>5. a = [i \in 0..n |-> IF i = 0 THEN r ELSE Applied(a[i - 1], w[i])]
  BY <1>4
<1>6. AllApplied(r, w) = a[n]
  BY <1>0 DEF AllApplied
<1> HIDE DEF a
<1>7. /\ a[0] = r
      /\ \A i \in 1..n : a[i] = Applied(a[i - 1], w[i])
  <2>1. 0 \in 0..n /\ \A i \in 1..n : i \in 0..n /\ i # 0
    BY <1>0
  <2>2. QED
    BY <1>5, <2>1
<1>8. a[n] = f[n]
  <2> DEFINE T == {i \in 0..n : a[i] = f[i]}
  <2>1. 0 \in T
    BY <1>0, <1>2, <1>7 DEF Unfolds
  <2>2. ASSUME NEW i \in 1..n, i - 1 \in T PROVE i \in T
    BY <1>3, <1>7, <2>2
  <2>3. n \in T
    <3> HIDE DEF T
    <3>1. \A i \in 0..n : i \in T
      BY <1>0, <2>1, <2>2, UpTo
    <3>2. QED
      BY <1>0, <3>1
  <2>4. QED
    BY <2>3
<1>9. QED
  BY <1>0, <1>2, <1>6, <1>8

LEMMA AllAppliedType ==
    ASSUME NEW r \in Tables, NEW w \in Seq(Msgs)
    PROVE  AllApplied(r, w) \in Tables
<1>1. PICK f : Unfolds(f, r, Steps(w), Len(w), Tables) /\ AllApplied(r, w) = f[Len(w)]
  BY AllAppliedUnfolds
<1>2. Len(w) \in 0..Len(w)
  OBVIOUS
<1>3. QED
  BY <1>1, <1>2 DEF Unfolds

LEMMA AllAppliedNone ==
    ASSUME NEW r \in Tables
    PROVE  AllApplied(r, <<>>) = r
<1>1. <<>> \in Seq(Msgs) /\ Len(<<>>) = 0
  OBVIOUS
<1>2. QED
  BY <1>1, AllAppliedUnfolds DEF Unfolds

LEMMA AllAppliedAppend ==
    ASSUME NEW r \in Tables, NEW w \in Seq(Msgs), NEW m \in Msgs
    PROVE  AllApplied(r, Append(w, m)) = Applied(AllApplied(r, w), m)
<1> DEFINE n == Len(w)
           z == Append(w, m)
<1>1. /\ n \in Nat /\ n = Len(w) /\ z \in Seq(Msgs) /\ Len(z) = n + 1 /\ z[n + 1] = m
      /\ \A i \in 1..n : z[i] = w[i] /\ i \in 1..(n + 1)
      /\ n + 1 \in 1..(n + 1)
  OBVIOUS
<1> HIDE DEF n, z
<1>2. PICK f : Unfolds(f, r, Steps(w), n, Tables) /\ AllApplied(r, w) = f[n]
  BY <1>1, AllAppliedUnfolds
<1>3. PICK g : Unfolds(g, r, Steps(z), n + 1, Tables) /\ AllApplied(r, z) = g[n + 1]
  BY <1>1, AllAppliedUnfolds
<1>4. \A i \in 1..n : Steps(z)[i] = Steps(w)[i]
  BY <1>1 DEF Steps
<1>5. g[n + 1] = Steps(z)[n + 1][f[n]]
  BY <1>1, <1>2, <1>3, <1>4, OneMore
<1>6. Steps(z)[n + 1] = [v \in Tables |-> Applied(v, m)]
  BY <1>1 DEF Steps
<1>7. f[n] \in Tables
  BY <1>2, AllAppliedType
<1>8. QED
  BY <1>2, <1>3, <1>5, <1>6, <1>7 DEF z

LEMMA AllAppliedTail ==
    ASSUME NEW r \in Tables, NEW w \in Seq(Msgs), w # <<>>
    PROVE  AllApplied(Applied(r, Head(w)), Tail(w)) = AllApplied(r, w)
<1> DEFINE n == Len(Tail(w))
           z == Tail(w)
           s == Applied(r, Head(w))
<1>1. /\ n \in Nat /\ n = Len(z) /\ z \in Seq(Msgs) /\ Len(w) = n + 1 /\ Head(w) = w[1]
      /\ Head(w) \in Msgs
      /\ \A i \in 1..n : z[i] = w[i + 1] /\ i + 1 \in 1..(n + 1)
      /\ 1 \in 1..(n + 1)
  OBVIOUS
<1>2. s \in Tables
  BY <1>1, AppliedType
<1> HIDE DEF n, z
<1>3. Steps(w)[1][r] = s
  BY <1>1 DEF Steps
<1> HIDE DEF s
<1>4. PICK f : Unfolds(f, r, Steps(w), n + 1, Tables) /\ AllApplied(r, w) = f[n + 1]
  BY <1>1, AllAppliedUnfolds
<1>5. PICK g : Unfolds(g, s, Steps(z), n, Tables) /\ AllApplied(s, z) = g[n]
  BY <1>1, <1>2, AllAppliedUnfolds
<1>6. \A i \in 1..n : Steps(z)[i] = Steps(w)[i + 1]
  BY <1>1 DEF Steps
<1>8. g[n] = f[n + 1]
  <2>1. Follows(g, Steps(z), n, f, r, Steps(w), n + 1, Tables)
    BY <1>1, <1>3, <1>4, <1>5, <1>6 DEF Follows
  <2>2. QED
    BY <2>1, OneLess
<1>9. QED
  BY <1>4, <1>5, <1>8 DEF s, z

-----------------------------------------------------------------------------
(* An event and the gamemode *)
LEMMA ToldType ==
    ASSUME NEW S \in SUBSET Players, NEW e \in Events
    PROVE  Told(S, e) \in SUBSET Players
BY DEF Told, Events

-----------------------------------------------------------------------------
(* All that is under way to the gamemode *)
Turns(w) == [i \in 1..Len(w) |-> [v \in SUBSET Players |-> Told(v, w[i])]]

LEMMA AllToldUnfolds ==
    ASSUME NEW r \in SUBSET Players, NEW w \in Seq(Events)
    PROVE  \E f : Unfolds(f, r, Turns(w), Len(w), SUBSET Players) /\ AllTold(r, w) = f[Len(w)]
<1> DEFINE n == Len(w)
           t == CHOOSE f : f = [i \in 0..n |->
                     IF i = 0 THEN r ELSE Told(f[i - 1], w[i])]
<1>0. n \in Nat /\ n = Len(w) /\ \A i \in 1..n : w[i] \in Events
  OBVIOUS
<1> HIDE DEF n
<1>1. Turns(w) \in [1..n -> [SUBSET Players -> SUBSET Players]]
  BY <1>0, ToldType DEF Turns
<1>2. PICK f : Unfolds(f, r, Turns(w), n, SUBSET Players)
  BY <1>0, <1>1, Recursion
<1>3. ASSUME NEW i \in 1..n PROVE f[i] = Told(f[i - 1], w[i])
  BY <1>0, <1>2 DEF Unfolds, Turns
<1>4. f = [i \in 0..n |-> IF i = 0 THEN r ELSE Told(f[i - 1], w[i])]
  <2>1. \A i \in 0..n : i = 0 \/ i \in 1..n
    BY <1>0
  <2>2. QED
    BY <1>2, <1>3, <2>1 DEF Unfolds
<1>5. t = [i \in 0..n |-> IF i = 0 THEN r ELSE Told(t[i - 1], w[i])]
  BY <1>4
<1>6. AllTold(r, w) = t[n]
  BY <1>0 DEF AllTold
<1> HIDE DEF t
<1>7. /\ t[0] = r
      /\ \A i \in 1..n : t[i] = Told(t[i - 1], w[i])
  <2>1. 0 \in 0..n /\ \A i \in 1..n : i \in 0..n /\ i # 0
    BY <1>0
  <2>2. QED
    BY <1>5, <2>1
<1>8. t[n] = f[n]
  <2> DEFINE T == {i \in 0..n : t[i] = f[i]}
  <2>1. 0 \in T
    BY <1>0, <1>2, <1>7 DEF Unfolds
  <2>2. ASSUME NEW i \in 1..n, i - 1 \in T PROVE i \in T
    BY <1>3, <1>7, <2>2
  <2>3. n \in T
    <3> HIDE DEF T
    <3>1. \A i \in 0..n : i \in T
      BY <1>0, <2>1, <2>2, UpTo
    <3>2. QED
      BY <1>0, <3>1
  <2>4. QED
    BY <2>3
<1>9. QED
  BY <1>0, <1>2, <1>6, <1>8

LEMMA AllToldType ==
    ASSUME NEW r \in SUBSET Players, NEW w \in Seq(Events)
    PROVE  AllTold(r, w) \in SUBSET Players
<1>1. PICK f : Unfolds(f, r, Turns(w), Len(w), SUBSET Players) /\ AllTold(r, w) = f[Len(w)]
  BY AllToldUnfolds
<1>2. Len(w) \in 0..Len(w)
  OBVIOUS
<1>3. QED
  BY <1>1, <1>2 DEF Unfolds

LEMMA AllToldNone ==
    ASSUME NEW r \in SUBSET Players
    PROVE  AllTold(r, <<>>) = r
<1>1. <<>> \in Seq(Events) /\ Len(<<>>) = 0
  OBVIOUS
<1>2. QED
  BY <1>1, AllToldUnfolds DEF Unfolds

LEMMA AllToldAppend ==
    ASSUME NEW r \in SUBSET Players, NEW w \in Seq(Events), NEW e \in Events
    PROVE  AllTold(r, Append(w, e)) = Told(AllTold(r, w), e)
<1> DEFINE n == Len(w)
           z == Append(w, e)
<1>1. /\ n \in Nat /\ n = Len(w) /\ z \in Seq(Events) /\ Len(z) = n + 1 /\ z[n + 1] = e
      /\ \A i \in 1..n : z[i] = w[i] /\ i \in 1..(n + 1)
      /\ n + 1 \in 1..(n + 1)
  OBVIOUS
<1> HIDE DEF n, z
<1>2. PICK f : Unfolds(f, r, Turns(w), n, SUBSET Players) /\ AllTold(r, w) = f[n]
  BY <1>1, AllToldUnfolds
<1>3. PICK g : Unfolds(g, r, Turns(z), n + 1, SUBSET Players) /\ AllTold(r, z) = g[n + 1]
  BY <1>1, AllToldUnfolds
<1>4. \A i \in 1..n : Turns(z)[i] = Turns(w)[i]
  BY <1>1 DEF Turns
<1>5. g[n + 1] = Turns(z)[n + 1][f[n]]
  BY <1>1, <1>2, <1>3, <1>4, OneMore
<1>6. Turns(z)[n + 1] = [v \in SUBSET Players |-> Told(v, e)]
  BY <1>1 DEF Turns
<1>7. f[n] \in SUBSET Players
  BY <1>2, AllToldType
<1>8. QED
  BY <1>2, <1>3, <1>5, <1>6, <1>7 DEF z

LEMMA AllToldTail ==
    ASSUME NEW r \in SUBSET Players, NEW w \in Seq(Events), w # <<>>
    PROVE  AllTold(Told(r, Head(w)), Tail(w)) = AllTold(r, w)
<1> DEFINE n == Len(Tail(w))
           z == Tail(w)
           s == Told(r, Head(w))
<1>1. /\ n \in Nat /\ n = Len(z) /\ z \in Seq(Events) /\ Len(w) = n + 1 /\ Head(w) = w[1]
      /\ Head(w) \in Events
      /\ \A i \in 1..n : z[i] = w[i + 1] /\ i + 1 \in 1..(n + 1)
      /\ 1 \in 1..(n + 1)
  OBVIOUS
<1>2. s \in SUBSET Players
  BY <1>1, ToldType
<1> HIDE DEF n, z
<1>3. Turns(w)[1][r] = s
  BY <1>1 DEF Turns
<1> HIDE DEF s
<1>4. PICK f : Unfolds(f, r, Turns(w), n + 1, SUBSET Players) /\ AllTold(r, w) = f[n + 1]
  BY <1>1, AllToldUnfolds
<1>5. PICK g : Unfolds(g, s, Turns(z), n, SUBSET Players) /\ AllTold(s, z) = g[n]
  BY <1>1, <1>2, AllToldUnfolds
<1>6. \A i \in 1..n : Turns(z)[i] = Turns(w)[i + 1]
  BY <1>1 DEF Turns
<1>8. g[n] = f[n + 1]
  <2>1. Follows(g, Turns(z), n, f, r, Turns(w), n + 1, SUBSET Players)
    BY <1>1, <1>3, <1>4, <1>5, <1>6 DEF Follows
  <2>2. QED
    BY <2>1, OneLess
<1>9. QED
  BY <1>4, <1>5, <1>8 DEF s, z

-----------------------------------------------------------------------------
(* Types *)

LEMMA IdsWrap == nextId \in Ids => (nextId + 1) % IdSpace \in Ids
BY Constants DEF Ids

LEMMA QueueType ==
    ASSUME NEW S, NEW q \in Seq(S), q # <<>>
    PROVE  Head(q) \in S /\ Tail(q) \in Seq(S)
OBVIOUS

LEMMA SendType ==
    ASSUME wire \in Seq(Msgs), NEW m \in Msgs, NEW hurt, NEW heal, Send(m, hurt, heal)
    PROVE  wire' \in Seq(Msgs)
BY DEF Send

LEMMA ChanOpType ==
    ASSUME TypeOK, NEW m \in Msgs, NEW hurt, NEW heal, ChanOp(m, hurt, heal), nextId' \in Ids
    PROVE  TypeOK'
<1>1. mirror' \in Tables
  BY AppliedType DEF ChanOp, TypeOK
<1>2. wire' \in Seq(Msgs)
  BY SendType DEF ChanOp, TypeOK
<1>3. QED
  BY <1>1, <1>2 DEF ChanOp, TypeOK, relay

LEMMA EmitType ==
    ASSUME TypeOK, NEW p \in Players, NEW ev \in {"start", "stop", "timeout", "key"}, Emit(p, ev)
    PROVE  statusQ' \in Seq(Events) /\ vague' \subseteq Players
<1>1. [event |-> ev, player |-> p] \in Events
  BY DEF Events
<1>2. statusQ' \in Seq(Events)
  BY <1>1 DEF Emit, TypeOK
<1>3. vague' \subseteq Players
  BY DEF Emit, TypeOK
<1>4. QED
  BY <1>2, <1>3

LEMMA TypeInit == Init => TypeOK
<1> SUFFICES ASSUME Init PROVE TypeOK
  OBVIOUS
<1>1. 1 \in Ids
  BY Constants DEF Ids
<1>2. QED
  BY <1>1, NoTableType DEF Init, TypeOK

(* The datagrams of the natives are what the relay expects. *)
LEMMA Sent ==
    /\ \A c \in Ids, f \in [Attrs -> Values] : [type |-> "create", chan |-> c, conf |-> f] \in Msgs
    /\ \A c \in Ids : [type |-> "destroy", chan |-> c] \in Msgs
    /\ \A t \in {"join", "leave"}, p \in Players, c \in Ids :
         [type |-> t, player |-> p, chan |-> c] \in Msgs
    /\ \A c \in Ids, a \in Attrs, v \in Values :
         [type |-> "set", chan |-> c, attr |-> a, val |-> v] \in Msgs
    /\ \A t \in {"push", "bind", "gone"}, p \in Players : [type |-> t, player |-> p] \in Msgs
    /\ [type |-> "config"] \in Msgs
BY DEF Msgs, Conf

LEMMA TypeStep == TypeOK /\ [Next]_vars => TypeOK'
<1> SUFFICES ASSUME TypeOK, [Next]_vars PROVE TypeOK'
  OBVIOUS
<1> USE Sent
<1>1. ASSUME NEW f \in [Attrs -> Values], CreateChannel(f) PROVE TypeOK'
  BY <1>1, ChanOpType, IdsWrap DEF CreateChannel, TypeOK
<1>2. ASSUME NEW c \in Ids, DestroyChannel(c) PROVE TypeOK'
  BY <1>2, ChanOpType DEF DestroyChannel, TypeOK
<1>3. ASSUME NEW p \in Players, NEW c \in Ids, JoinChannel(p, c) PROVE TypeOK'
  BY <1>3, ChanOpType DEF JoinChannel, TypeOK
<1>4. ASSUME NEW p \in Players, NEW c \in Ids, LeaveChannel(p, c) PROVE TypeOK'
  BY <1>4, ChanOpType DEF LeaveChannel, TypeOK
<1>5. ASSUME NEW c \in Ids, NEW a \in Attrs, NEW v \in Values, SetChannel(c, a, v) PROVE TypeOK'
  BY <1>5, ChanOpType DEF SetChannel, TypeOK
<1>6. ASSUME NEW p \in Players, Push(p) PROVE TypeOK'
  BY <1>6, SendType DEF Push, TypeOK, bridge, relay
<1>7. CASE PushConfig
  BY <1>7, SendType DEF PushConfig, TypeOK, bridge, relay
<1>8. ASSUME NEW p \in Players, OnPlayerConnect(p) PROVE TypeOK'
  BY <1>8, SendType DEF OnPlayerConnect, TypeOK, relay
<1>9. ASSUME NEW p \in Players, OnPlayerDisconnect(p) PROVE TypeOK'
  <2>1. mirror' \in Tables
    <3>1. Removed(mirror, p) = Applied(mirror, [type |-> "gone", player |-> p])
      BY DEF Applied
    <3>2. QED
      BY <1>9, <3>1, AppliedType DEF OnPlayerDisconnect, TypeOK
  <2>2. wire' \in Seq(Msgs)
    BY <1>9, SendType DEF OnPlayerDisconnect, Gone, TypeOK
  <2>3. vague' \subseteq Players /\ missed' \subseteq Players
    BY <1>9 DEF OnPlayerDisconnect, Gone, TypeOK
  <2>4. QED
    BY <1>9, <2>1, <2>2, <2>3 DEF OnPlayerDisconnect, TypeOK, relay
<1>10. CASE ProcessTick
  <2>1. Head(statusQ) \in Events /\ Tail(statusQ) \in Seq(Events)
    BY <1>10, QueueType DEF ProcessTick, TypeOK
  <2>2. Head(statusQ).player \in Players
    BY <2>1 DEF Events
  <2>3. view' \subseteq Players
    BY <1>10, <2>1, ToldType DEF ProcessTick, NextStatus, TypeOK
  <2>4. wire' \in Seq(Msgs)
    BY <1>10, <2>2, SendType DEF ProcessTick, NextStatus, TypeOK
  <2>5. QED
    BY <1>10, <2>1, <2>3, <2>4 DEF ProcessTick, NextStatus, TypeOK, relay
<1>11. CASE RelayControl
  <2>1. Head(wire) \in Msgs /\ Tail(wire) \in Seq(Msgs)
    BY <1>11, QueueType DEF RelayControl, TypeOK
  <2>2. replica' \in Tables
    BY <1>11, <2>1, AppliedType DEF RelayControl, TypeOK
  <2>3. known' \subseteq Players /\ active' \subseteq Players /\ vague' \subseteq Players
    BY <1>11, <2>1, Parts DEF RelayControl, TypeOK
  <2>4. QED
    BY <1>11, <2>1, <2>2, <2>3 DEF RelayControl, TypeOK, bridge
<1>12. ASSUME NEW p \in Players, StartTalking(p) PROVE TypeOK'
  BY <1>12, EmitType DEF StartTalking, TypeOK, bridge
<1>13. ASSUME NEW p \in Players, StopTalking(p) PROVE TypeOK'
  BY <1>13, EmitType DEF StopTalking, TypeOK, bridge
<1>14. ASSUME NEW p \in Players, NEW ev \in {"timeout", "key"}, Report(p, ev) PROVE TypeOK'
  BY <1>14, EmitType DEF Report, TypeOK, bridge, relay
<1>15. CASE Crash
  BY <1>15, NoTableType DEF Crash, TypeOK, bridge
<1>16. CASE Restart
  BY <1>16 DEF Restart, TypeOK, bridge, history
<1>17. CASE UNCHANGED vars
  BY <1>17 DEF vars, TypeOK, bridge, relay, history
<1>18. QED
  BY <1>1, <1>2, <1>3, <1>4, <1>5, <1>6, <1>7, <1>8, <1>9, <1>10, <1>11, <1>12, <1>13,
    <1>14, <1>15, <1>16, <1>17 DEF Next, Bridge, Relay

(* The control link's variables keep their types: the relay is never sent  *)
(* an operation on a channel or player it could not know.                  *)
THEOREM LinkTypes == Spec => []TypeOK
BY TypeInit, TypeStep, PTL DEF Spec

-----------------------------------------------------------------------------
(* MirrorAgrees: the strengthening is that a channel which does not exist  *)
(* is empty at the bridge, so that a relay which starts anew agrees on it. *)
FreshOff == \A c \in Ids : ~mirror[c].on => mirror[c] = NoChannel
Mirrored == MirrorAgrees /\ FreshOff

(* A datagram is applied at the bridge and sent.  It may be lost only on   *)
(* the channels of hurt, and agrees by itself on those of heal.            *)
LEMMA MirrorSend ==
    ASSUME TypeOK, Mirrored, NEW m \in Msgs, NEW hurt, NEW heal, Send(m, hurt, heal),
           mirror' = Applied(mirror, m), replica' = replica,
           \A c \in Ids \ hurt : Effect(mirror[c], m, c) = mirror[c],
           \A c \in Ids \cap heal : \A h \in Channels : Effect(h, m, c) = NoChannel
    PROVE  Mirrored'
<1> DEFINE far == AllApplied(replica, wire)
<1>1. /\ far \in Tables /\ mirror \in Tables /\ replica \in Tables /\ wire \in Seq(Msgs)
      /\ \A c \in Ids : far[c] \in Channels /\ mirror[c] \in Channels
  BY AllAppliedType DEF TypeOK, Tables
<1>2. \A c \in Ids : mirror'[c] = Effect(mirror[c], m, c)
  BY <1>1, AppliedTo
<1>3. FreshOff'
  BY <1>1, <1>2, OffStays DEF Mirrored, FreshOff
<1>4. CASE Fits
  <2>1. AllApplied(replica', wire') = Applied(far, m)
    BY <1>1, <1>4, AllAppliedAppend DEF Send
  <2>2. \A c \in Ids : AllApplied(replica', wire')[c] = Effect(far[c], m, c)
    BY <1>1, <2>1, AppliedTo
  <2> HIDE DEF far
  <2>3. ASSUME NEW c \in Ids \ torn'
        PROVE  AllApplied(replica', wire')[c] = mirror'[c]
    <3>1. c \in heal \/ c \notin torn
      BY <1>4, <2>3 DEF Send
    <3>2. CASE c \in heal
      BY <1>1, <1>2, <2>2, <3>2
    <3>3. CASE c \notin torn
      <4>1. far[c] = mirror[c]
        BY <3>3 DEF Mirrored, MirrorAgrees, far
      <4>2. QED
        BY <1>2, <2>2, <4>1
    <3>4. QED
      BY <3>1, <3>2, <3>3
  <2>4. QED
    BY <1>3, <2>3 DEF Mirrored, MirrorAgrees
<1>5. CASE ~Fits
  <2>1. wire' = wire /\ torn' = torn \cup hurt
    BY <1>5 DEF Send
  <2>2. ASSUME NEW c \in Ids \ torn' PROVE AllApplied(replica', wire')[c] = mirror'[c]
    BY <1>2, <2>1, <2>2 DEF Mirrored, MirrorAgrees
  <2>3. QED
    BY <1>3, <2>2 DEF Mirrored, MirrorAgrees
<1>6. QED
  BY <1>4, <1>5

LEMMA MirrorInit == Init => Mirrored
<1> SUFFICES ASSUME Init PROVE Mirrored
  OBVIOUS
<1>1. AllApplied(replica, wire) = replica
  BY AllAppliedNone, NoTableType DEF Init
<1>2. QED
  BY <1>1 DEF Init, Mirrored, MirrorAgrees, FreshOff

(* What leaves the two tables and the wire alone, or sends what changes no *)
(* channel.                                                                *)
LEMMA MirrorKept ==
    ASSUME TypeOK, Mirrored, mirror' = mirror, replica' = replica,
           \/ wire' = wire /\ torn' = torn
           \/ \E t \in {"push", "bind"}, p \in Players : Send([type |-> t, player |-> p], {}, {})
           \/ Send([type |-> "config"], {}, {})
    PROVE  Mirrored'
<1>1. CASE wire' = wire /\ torn' = torn
  BY <1>1 DEF Mirrored, MirrorAgrees, FreshOff
<1>2. ASSUME NEW m \in Msgs, m.type \in {"push", "bind", "config"}, Send(m, {}, {})
      PROVE  Mirrored'
  <2>1. \A h, c : Effect(h, m, c) = h
    BY <1>2 DEF Effect
  <2>2. Applied(mirror, m) = mirror
    BY <1>2 DEF Applied
  <2>3. QED
    BY <1>2, <2>1, <2>2, MirrorSend
<1>3. QED
  BY <1>1, <1>2, Sent

LEMMA MirrorStep == TypeOK /\ Mirrored /\ [Next]_vars => Mirrored'
<1> SUFFICES ASSUME TypeOK, Mirrored, [Next]_vars PROVE Mirrored'
  OBVIOUS
<1>0. \A c \in Ids : mirror[c] \in Channels
  BY DEF TypeOK, Tables
<1>1. ASSUME NEW f \in [Attrs -> Values], CreateChannel(f) PROVE Mirrored'
  <2> DEFINE m == [type |-> "create", chan |-> nextId, conf |-> f]
  <2>1. m \in Msgs /\ m.type = "create" /\ m.chan = nextId
    BY Sent DEF TypeOK
  <2>2. ChanOp(m, {nextId}, {})
    BY <1>1 DEF CreateChannel
  <2> HIDE DEF m
  <2>3. \A c \in Ids \ {nextId} : Effect(mirror[c], m, c) = mirror[c]
    BY <1>0, <2>1, Elsewhere
  <2>4. QED
    BY <2>1, <2>2, <2>3, MirrorSend DEF ChanOp, relay
<1>2. ASSUME NEW d \in Ids, DestroyChannel(d) PROVE Mirrored'
  <2> DEFINE m == [type |-> "destroy", chan |-> d]
  <2>1. m \in Msgs /\ m.type = "destroy" /\ m.chan = d
    BY Sent
  <2>2. ChanOp(m, {d}, {d})
    BY <1>2 DEF DestroyChannel
  <2> HIDE DEF m
  <2>3. \A c \in Ids \ {d} : Effect(mirror[c], m, c) = mirror[c]
    BY <1>0, <2>1, Elsewhere
  <2>4. \A h \in Channels : Effect(h, m, d) = NoChannel
    BY <2>1 DEF Effect
  <2>5. QED
    BY <2>1, <2>2, <2>3, <2>4, MirrorSend DEF ChanOp, relay
<1>3. ASSUME NEW p \in Players, NEW d \in Ids, JoinChannel(p, d) \/ LeaveChannel(p, d)
      PROVE  Mirrored'
  <2>1. PICK m \in Msgs : m.type \in {"join", "leave"} /\ m.chan = d /\ ChanOp(m, {d}, {})
    BY <1>3, Sent DEF JoinChannel, LeaveChannel
  <2>2. \A c \in Ids \ {d} : Effect(mirror[c], m, c) = mirror[c]
    BY <1>0, <2>1, Elsewhere
  <2>3. QED
    BY <2>1, <2>2, MirrorSend DEF ChanOp, relay
<1>4. ASSUME NEW d \in Ids, NEW a \in Attrs, NEW v \in Values, SetChannel(d, a, v)
      PROVE  Mirrored'
  <2> DEFINE m == [type |-> "set", chan |-> d, attr |-> a, val |-> v]
  <2>1. m \in Msgs /\ m.type = "set" /\ m.chan = d
    BY Sent
  <2>2. ChanOp(m, {d}, {})
    BY <1>4 DEF SetChannel
  <2> HIDE DEF m
  <2>3. \A c \in Ids \ {d} : Effect(mirror[c], m, c) = mirror[c]
    BY <1>0, <2>1, Elsewhere
  <2>4. QED
    BY <2>1, <2>2, <2>3, MirrorSend DEF ChanOp, relay
<1>5. ASSUME NEW p \in Players, OnPlayerDisconnect(p) PROVE Mirrored'
  <2> DEFINE m == [type |-> "gone", player |-> p]
             hurt == {c \in Ids : p \in mirror[c].members}
  <2>1. m \in Msgs /\ m.type = "gone" /\ m.player = p
    BY Sent
  <2>2. Send(m, hurt, {}) /\ mirror' = Removed(mirror, p) /\ replica' = replica
    BY <1>5 DEF OnPlayerDisconnect, Gone, relay
  <2> HIDE DEF m
  <2>3. Applied(mirror, m) = Removed(mirror, p)
    BY <2>1 DEF Applied
  <2>4. \A c \in Ids \ hurt : Effect(mirror[c], m, c) = mirror[c]
    BY <1>0, <2>1, Elsewhere
  <2> HIDE DEF hurt
  <2>5. QED
    BY <2>1, <2>2, <2>3, <2>4, MirrorSend
<1>6. ASSUME NEW p \in Players, Push(p) \/ OnPlayerConnect(p) PROVE Mirrored'
  BY <1>6, MirrorKept DEF Push, OnPlayerConnect, bridge, relay
<1>7. CASE PushConfig
  BY <1>7, MirrorKept DEF PushConfig, bridge, relay
<1>8. CASE ProcessTick
  <2>1. Head(statusQ).player \in Players
    <3>1. Head(statusQ) \in Events
      BY <1>8, QueueType DEF ProcessTick, TypeOK
    <3>2. QED
      BY <3>1 DEF Events
  <2>2. QED
    BY <1>8, <2>1, MirrorKept DEF ProcessTick, NextStatus, relay
<1>9. CASE RelayControl
  <2>1. AllApplied(replica', wire') = AllApplied(replica, wire)
    BY <1>9, AllAppliedTail DEF RelayControl, TypeOK
  <2>2. mirror' = mirror /\ torn' = torn
    BY <1>9 DEF RelayControl, bridge
  <2>3. QED
    BY <2>1, <2>2 DEF Mirrored, MirrorAgrees, FreshOff
<1>10. CASE \E p \in Players : StartTalking(p) \/ StopTalking(p)
  BY <1>10, MirrorKept DEF StartTalking, StopTalking, bridge
<1>11. CASE \E p \in Players, ev \in {"timeout", "key"} : Report(p, ev)
  BY <1>11, MirrorKept DEF Report, bridge, relay
<1>12. CASE Crash
  <2>1. AllApplied(replica', wire') = [c \in Ids |-> NoChannel]
    BY <1>12, AllAppliedNone, NoTableType DEF Crash
  <2>2. mirror' = mirror /\ torn' = {c \in Ids : mirror[c].on}
    BY <1>12 DEF Crash, bridge
  <2>3. QED
    BY <2>1, <2>2 DEF Mirrored, MirrorAgrees, FreshOff
<1>13. CASE Restart
  BY <1>13, MirrorKept DEF Restart, bridge, history
<1>14. CASE UNCHANGED vars
  BY <1>14, MirrorKept DEF vars, bridge, relay, history
<1>15. QED
  BY <1>1, <1>2, <1>3, <1>4, <1>5, <1>6, <1>7, <1>8, <1>9, <1>10, <1>11, <1>12, <1>13,
    <1>14 DEF Next, Bridge, Relay

(* Once the datagrams under way are applied, bridge and relay agree on     *)
(* every channel but those of which one was lost: whatever channels the    *)
(* gamemode makes, and however often the relay crashes.                    *)
THEOREM BridgeMirrored == Spec => []MirrorAgrees
<1>1. Init => TypeOK /\ Mirrored
  BY TypeInit, MirrorInit
<1>2. TypeOK /\ Mirrored /\ [Next]_vars => (TypeOK /\ Mirrored)'
  BY TypeStep, MirrorStep
<1>3. TypeOK /\ Mirrored => MirrorAgrees
  BY DEF Mirrored
<1>4. QED
  BY <1>1, <1>2, <1>3, PTL DEF Spec

-----------------------------------------------------------------------------
(* ViewFollows: the strengthening is what holds of a player whose          *)
(* departure is under way, which the gamemode may think silent, but not    *)
(* talking, too early.                                                     *)
Heard ==
    \A p \in Players \ vague :
      /\ p \in AllTold(view, statusQ) => p \in active
      /\ p \in active /\ ~Leaving(p) => p \in AllTold(view, statusQ)

(* The events of the queue say nothing of those they do not name. *)
LEMMA ToldOthers ==
    ASSUME NEW S \in SUBSET Players, NEW q \in Seq(Events), NEW p,
           \A i \in 1..Len(q) : q[i].player # p
    PROVE  p \in AllTold(S, q) <=> p \in S
<1> DEFINE n == Len(q)
<1>0. n \in Nat /\ n = Len(q) /\ \A i \in 1..n : q[i] \in Events
  OBVIOUS
<1> HIDE DEF n
<1>1. PICK f : Unfolds(f, S, Turns(q), n, SUBSET Players) /\ AllTold(S, q) = f[n]
  BY <1>0, AllToldUnfolds
<1> DEFINE T == {i \in 0..n : p \in f[i] <=> p \in S}
<1>2. 0 \in T
  BY <1>0, <1>1 DEF Unfolds
<1>3. ASSUME NEW i \in 1..n, i - 1 \in T PROVE i \in T
  <2>1. f[i] = Told(f[i - 1], q[i])
    BY <1>0, <1>1 DEF Unfolds, Turns
  <2>2. q[i].player # p
    BY <1>0
  <2>3. p \in f[i] <=> p \in f[i - 1]
    BY <2>1, <2>2 DEF Told
  <2>4. QED
    BY <1>3, <2>3
<1>4. n \in T
  <2> HIDE DEF T
  <2>1. \A i \in 0..n : i \in T
    BY <1>0, <1>2, <1>3, UpTo
  <2>2. QED
    BY <1>0, <2>1
<1>5. QED
  BY <1>1, <1>4

(* Taking one player off before the events takes nobody else off after     *)
(* them, and adds nobody.                                                  *)
LEMMA ToldWithout ==
    ASSUME NEW S \in SUBSET Players, NEW q \in Seq(Events), NEW p, NEW x
    PROVE  /\ x \in AllTold(S \ {p}, q) => x \in AllTold(S, q)
           /\ x # p /\ x \in AllTold(S, q) => x \in AllTold(S \ {p}, q)
<1> DEFINE n == Len(q)
<1>0. n \in Nat /\ n = Len(q) /\ \A i \in 1..n : q[i] \in Events
  OBVIOUS
<1> HIDE DEF n
<1>1. PICK f : Unfolds(f, S, Turns(q), n, SUBSET Players) /\ AllTold(S, q) = f[n]
  BY <1>0, AllToldUnfolds
<1>2. PICK g : Unfolds(g, S \ {p}, Turns(q), n, SUBSET Players) /\ AllTold(S \ {p}, q) = g[n]
  BY <1>0, AllToldUnfolds
<1> DEFINE T == {i \in 0..n : (x \in g[i] => x \in f[i]) /\ (x # p /\ x \in f[i] => x \in g[i])}
<1>3. 0 \in T
  BY <1>0, <1>1, <1>2 DEF Unfolds
<1>4. ASSUME NEW i \in 1..n, i - 1 \in T PROVE i \in T
  <2>1. f[i] = Told(f[i - 1], q[i]) /\ g[i] = Told(g[i - 1], q[i])
    BY <1>0, <1>1, <1>2 DEF Unfolds, Turns
  <2>2. QED
    BY <1>4, <2>1 DEF Told
<1>5. n \in T
  <2> HIDE DEF T
  <2>1. \A i \in 0..n : i \in T
    BY <1>0, <1>3, <1>4, UpTo
  <2>2. QED
    BY <1>0, <2>1
<1>6. QED
  BY <1>1, <1>2, <1>5

(* What the wire's new end makes of departures under way. *)
LEMMA LeavingSend ==
    ASSUME wire \in Seq(Msgs), NEW m \in Msgs, NEW hurt, NEW heal, Send(m, hurt, heal), NEW p
    PROVE  /\ Leaving(p) => Leaving(p)'
           /\ Leaving(p)' /\ m # [type |-> "gone", player |-> p] => Leaving(p)
           /\ Fits /\ m = [type |-> "gone", player |-> p] => Leaving(p)'
<1>1. CASE Fits
  <2>1. wire' = Append(wire, m) /\ Len(wire') = Len(wire) + 1 /\ Len(wire) \in Nat
        /\ DOMAIN wire = 1..Len(wire) /\ DOMAIN wire' = 1..(Len(wire) + 1)
        /\ wire'[Len(wire) + 1] = m /\ \A i \in 1..Len(wire) : wire'[i] = wire[i]
    BY <1>1 DEF Send
  <2>2. QED
    BY <2>1 DEF Leaving
<1>2. CASE ~Fits
  BY <1>2 DEF Send, Leaving
<1>3. QED
  BY <1>1, <1>2

(* A step that leaves the gamemode, the queue and the talkers alone and    *)
(* calls nobody back.                                                      *)
LEMMA HeardKept ==
    ASSUME Heard, view' = view, statusQ' = statusQ, active' = active, vague' = vague,
           \A p \in Players : Leaving(p) => Leaving(p)'
    PROVE  Heard'
BY DEF Heard

(* Events, as they are sent. *)
LEMMA HeardEmit ==
    ASSUME TypeOK, Heard, NEW p \in Players, NEW ev \in {"start", "stop", "timeout", "key"},
           Emit(p, ev), view' = view, wire' = wire,
           active' = CASE ev = "start" -> active \cup {p}
                       [] ev = "stop"  -> active \ {p}
                       [] OTHER        -> active
    PROVE  Heard'
<1> DEFINE ok == heard /\ Len(statusQ) < StatusCap
           e == [event |-> ev, player |-> p]
           told == AllTold(view, statusQ)
<1>1. \A x \in Players : Leaving(x)' <=> Leaving(x)
  BY DEF Leaving
<1>2. CASE ok
  <2>1. e \in Events /\ statusQ' = Append(statusQ, e)
    BY <1>2 DEF Emit, Events
  <2>2. AllTold(view', statusQ') = Told(told, e)
    BY <2>1, AllToldAppend DEF TypeOK
  <2>3. vague' = IF ev \notin {"start", "stop"} THEN vague ELSE vague \ {p}
    BY <1>2 DEF Emit
  <2> HIDE DEF told
  <2>4. AllTold(view', statusQ') = CASE ev = "start" -> told \cup {p}
                                     [] ev = "stop"  -> told \ {p}
                                     [] OTHER        -> told
    BY <2>2 DEF Told
  <2>5. \A x \in Players \ vague :
          (x \in told => x \in active) /\ (x \in active /\ ~Leaving(x) => x \in told)
    BY DEF Heard, told
  <2>6. QED
    BY <1>1, <2>3, <2>4, <2>5 DEF Heard
<1>3. CASE ~ok
  <2>1. statusQ' = statusQ
        /\ vague' = IF ev \notin {"start", "stop"} THEN vague ELSE vague \cup {p}
    BY <1>3 DEF Emit
  <2>2. QED
    BY <1>1, <2>1 DEF Heard
<1>4. QED
  BY <1>2, <1>3

LEMMA HeardInit == Init => Heard
<1> SUFFICES ASSUME Init PROVE Heard
  OBVIOUS
<1>1. AllTold(view, statusQ) = {}
  BY AllToldNone DEF Init
<1>2. QED
  BY <1>1 DEF Init, Heard

LEMMA HeardStep == TypeOK /\ Heard /\ [Next]_vars => Heard'
<1> SUFFICES ASSUME TypeOK, Heard, [Next]_vars PROVE Heard'
  OBVIOUS
<1>1. ASSUME NEW m \in Msgs, NEW hurt, NEW heal, Send(m, hurt, heal)
      PROVE  \A p \in Players : Leaving(p) => Leaving(p)'
  BY <1>1, LeavingSend DEF TypeOK
<1>2. ASSUME NEW m \in Msgs, NEW hurt, NEW heal, ChanOp(m, hurt, heal) PROVE Heard'
  BY <1>1, <1>2, HeardKept DEF ChanOp, relay
<1>3. CASE \E f \in [Attrs -> Values] : CreateChannel(f)
  BY <1>2, <1>3, Sent DEF CreateChannel, TypeOK
<1>4. CASE \E c \in Ids : DestroyChannel(c)
  BY <1>2, <1>4, Sent DEF DestroyChannel
<1>5. CASE \E p \in Players, c \in Ids : JoinChannel(p, c) \/ LeaveChannel(p, c)
  BY <1>2, <1>5, Sent DEF JoinChannel, LeaveChannel
<1>6. CASE \E c \in Ids, a \in Attrs, v \in Values : SetChannel(c, a, v)
  BY <1>2, <1>6, Sent DEF SetChannel
<1>7. ASSUME NEW p \in Players, Push(p) \/ OnPlayerConnect(p) PROVE Heard'
  BY <1>1, <1>7, Sent, HeardKept DEF Push, OnPlayerConnect, bridge, relay
<1>8. CASE PushConfig
  BY <1>1, <1>8, Sent, HeardKept DEF PushConfig, bridge, relay
<1>9. ASSUME NEW p \in Players, OnPlayerDisconnect(p) PROVE Heard'
  <2> DEFINE m == [type |-> "gone", player |-> p]
             hurt == {c \in Ids : p \in mirror[c].members}
  <2>1. m \in Msgs /\ Send(m, hurt, {})
    BY <1>9, Sent DEF OnPlayerDisconnect, Gone
  <2>2. view' = view \ {p} /\ statusQ' = statusQ /\ active' = active
        /\ vague' = IF Fits THEN vague ELSE vague \cup {p}
    BY <1>9 DEF OnPlayerDisconnect, Gone, relay
  <2>3. \A x \in Players : Leaving(x) => Leaving(x)'
    BY <1>1, <2>1
  <2>4. p \notin vague' => Leaving(p)'
    BY <2>1, <2>2, LeavingSend DEF TypeOK
  <2> HIDE DEF m, hurt
  <2>5. ASSUME NEW x \in Players
        PROVE  /\ x \in AllTold(view', statusQ') => x \in AllTold(view, statusQ)
               /\ x # p /\ x \in AllTold(view, statusQ) => x \in AllTold(view', statusQ')
    BY <2>2, ToldWithout DEF TypeOK
  <2>6. vague \subseteq vague'
    BY <2>2
  <2>7. QED
    BY <2>2, <2>3, <2>4, <2>5, <2>6 DEF Heard
<1>10. CASE ProcessTick
  <2>1. Head(statusQ) \in Events
    BY <1>10, QueueType DEF ProcessTick, TypeOK
  <2>2. AllTold(view', statusQ') = AllTold(view, statusQ)
    BY <1>10, AllToldTail DEF ProcessTick, NextStatus, TypeOK
  <2>3. Head(statusQ).player \in Players
    BY <2>1 DEF Events
  <2>4. \A p \in Players : Leaving(p) => Leaving(p)'
    <3>1. CASE wire' = wire
      BY <3>1 DEF Leaving
    <3>2. CASE Send([type |-> "bind", player |-> Head(statusQ).player], {}, {})
      BY <1>1, <2>3, <3>2, Sent
    <3>3. QED
      BY <1>10, <3>1, <3>2 DEF ProcessTick, NextStatus
  <2>5. active' = active /\ vague' = vague
    BY <1>10 DEF ProcessTick, relay
  <2>6. QED
    BY <2>2, <2>4, <2>5 DEF Heard
<1>11. CASE RelayControl
  <2> DEFINE m == Head(wire)
             told == AllTold(view, statusQ)
  <2>1. m \in Msgs
    BY <1>11, QueueType DEF RelayControl, TypeOK
  <2>2. /\ AllTold(view', statusQ') = told
        /\ active' = IF m.type = "gone" THEN active \ {m.player} ELSE active
        /\ vague' = IF m.type = "gone" /\ (Pending(m.player) \/ m.player \in view)
                    THEN vague \cup {m.player} ELSE vague
    BY <1>11 DEF RelayControl, bridge
  <2>3. ASSUME NEW p \in Players, Leaving(p), m # [type |-> "gone", player |-> p]
        PROVE  Leaving(p)'
    <3>1. PICK i \in 1..Len(wire) : wire[i] = [type |-> "gone", player |-> p]
      BY <2>3 DEF Leaving, TypeOK
    <3>2. wire' = Tail(wire) /\ wire # <<>> /\ wire \in Seq(Msgs)
      BY <1>11 DEF RelayControl, TypeOK
    <3>3. i # 1
      BY <2>3, <3>1, <3>2
    <3>4. i - 1 \in DOMAIN wire' /\ wire'[i - 1] = wire[i]
      BY <3>2, <3>3
    <3>5. QED
      BY <3>1, <3>4 DEF Leaving
  <2>4. ASSUME NEW p \in Players, ~Pending(p), p \notin view PROVE p \notin told
    <3>1. \A i \in 1..Len(statusQ) : statusQ[i].player # p
      BY <2>4 DEF Pending, TypeOK
    <3>2. QED
      BY <2>4, <3>1, ToldOthers DEF TypeOK
  <2>5. \A p \in Players \ vague :
          (p \in told => p \in active) /\ (p \in active /\ ~Leaving(p) => p \in told)
    BY DEF Heard
  <2> HIDE DEF told, m
  <2>6. CASE m.type = "gone"
    <3>1. ASSUME NEW p \in Players \ vague', p # m.player
          PROVE  (p \in told => p \in active') /\ (p \in active' /\ ~Leaving(p)' => p \in told)
      <4>1. m # [type |-> "gone", player |-> p]
        BY <3>1
      <4>2. QED
        BY <2>2, <2>3, <2>5, <2>6, <3>1, <4>1
    <3>2. m.player \in Players /\ (m.player \notin vague' => m.player \notin told)
      BY <2>1, <2>2, <2>4, <2>6, Parts
    <3>3. m.player \notin active'
      BY <2>2, <2>6
    <3>4. QED
      BY <2>2, <3>1, <3>2, <3>3 DEF Heard
  <2>7. CASE m.type # "gone"
    <3>1. \A p \in Players : m # [type |-> "gone", player |-> p]
      BY <2>7
    <3>2. QED
      BY <2>2, <2>3, <2>5, <2>7, <3>1 DEF Heard
  <2>8. QED
    BY <2>6, <2>7
<1>12. ASSUME NEW p \in Players, StartTalking(p) PROVE Heard'
  BY <1>12, HeardEmit DEF StartTalking, bridge
<1>13. ASSUME NEW p \in Players, StopTalking(p) PROVE Heard'
  BY <1>13, HeardEmit DEF StopTalking, bridge
<1>14. ASSUME NEW p \in Players, NEW ev \in {"timeout", "key"}, Report(p, ev) PROVE Heard'
  BY <1>14, HeardEmit DEF Report, bridge, relay
<1>15. CASE Crash
  <2>1. view' = view /\ statusQ' = statusQ /\ active' = {} /\ wire' = <<>>
        /\ vague' = vague \cup active \cup {p \in Players : Pending(p)}
    BY <1>15 DEF Crash, bridge
  <2>2. ASSUME NEW p \in Players \ vague' PROVE p \notin AllTold(view, statusQ)
    BY <2>1 DEF Heard
  <2>3. QED
    BY <2>1, <2>2 DEF Heard
<1>16. CASE Restart
  BY <1>16, HeardKept DEF Restart, bridge, history, Leaving
<1>17. CASE UNCHANGED vars
  BY <1>17, HeardKept DEF vars, bridge, relay, history, Leaving
<1>18. QED
  BY <1>3, <1>4, <1>5, <1>6, <1>7, <1>8, <1>9, <1>10, <1>11, <1>12, <1>13, <1>14, <1>15,
    <1>16, <1>17 DEF Next, Bridge, Relay

(* Once the events under way are handled, the gamemode's picture of who    *)
(* talks is the relay's, but for players of whom an event was lost or      *)
(* overtaken: for any number of players and any size of the queue.         *)
THEOREM TalkersFollow == Spec => []ViewFollows
<1>1. Init => TypeOK /\ Heard
  BY TypeInit, HeardInit
<1>2. TypeOK /\ Heard /\ [Next]_vars => (TypeOK /\ Heard)'
  BY TypeStep, HeardStep
<1>3. TypeOK /\ Heard => ViewFollows
  BY DEF Heard, ViewFollows
<1>4. QED
  BY <1>1, <1>2, <1>3, PTL DEF Spec

-----------------------------------------------------------------------------
(* GhostFree: the strengthening is that nothing on the wire brings a       *)
(* departed player back once its departure has been read.                  *)
Brings(m, p) == m.type \in {"push", "join"} /\ m.player = p
Departed(p) ==
    \E i \in DOMAIN wire :
      /\ wire[i] = [type |-> "gone", player |-> p]
      /\ \A j \in DOMAIN wire : j > i => ~Brings(wire[j], p)
Absent(p) ==
    /\ p \notin known \cup active
    /\ \A c \in Ids : p \notin replica[c].members
    /\ \A j \in DOMAIN wire : ~Brings(wire[j], p)
Settled == \A p \in Players \ (inGame \cup missed) : Departed(p) \/ Absent(p)

(* A datagram that does not bring the player back changes nothing for it. *)
LEMMA StaysAway ==
    ASSUME wire \in Seq(Msgs), NEW m \in Msgs, NEW hurt, NEW heal, Send(m, hurt, heal),
           NEW p, ~Brings(m, p), known' = known, active' = active, replica' = replica
    PROVE  (Departed(p) => Departed(p)') /\ (Absent(p) => Absent(p)')
<1>1. CASE Fits
  <2>1. /\ Len(wire) \in Nat /\ DOMAIN wire = 1..Len(wire) /\ DOMAIN wire' = 1..(Len(wire) + 1)
        /\ wire'[Len(wire) + 1] = m /\ \A i \in 1..Len(wire) : wire'[i] = wire[i]
    BY <1>1 DEF Send
  <2>2. ASSUME NEW j \in DOMAIN wire' PROVE wire'[j] = m \/ j \in DOMAIN wire
    BY <2>1
  <2>3. ASSUME Departed(p) PROVE Departed(p)'
    <3>1. PICK i \in 1..Len(wire) :
            /\ wire[i] = [type |-> "gone", player |-> p]
            /\ \A j \in 1..Len(wire) : j > i => ~Brings(wire[j], p)
      BY <2>1, <2>3 DEF Departed
    <3>2. i \in DOMAIN wire' /\ wire'[i] = [type |-> "gone", player |-> p]
      BY <2>1, <3>1
    <3>3. ASSUME NEW j \in DOMAIN wire', j > i PROVE ~Brings(wire'[j], p)
      BY <2>1, <2>2, <3>1, <3>3
    <3>4. QED
      BY <3>2, <3>3 DEF Departed
  <2>4. ASSUME Absent(p) PROVE Absent(p)'
    <3>1. \A j \in DOMAIN wire' : ~Brings(wire'[j], p)
      BY <2>1, <2>2, <2>4 DEF Absent
    <3>2. QED
      BY <2>4, <3>1 DEF Absent
  <2>5. QED
    BY <2>3, <2>4
<1>2. CASE ~Fits
  BY <1>2 DEF Send, Departed, Absent
<1>3. QED
  BY <1>1, <1>2

(* A departure that is sent is the last word on the wire. *)
LEMMA LastWord ==
    ASSUME wire \in Seq(Msgs), NEW p \in Players, NEW hurt, NEW heal, Fits,
           Send([type |-> "gone", player |-> p], hurt, heal)
    PROVE  Departed(p)'
<1> DEFINE m == [type |-> "gone", player |-> p]
           k == Len(wire) + 1
<1>1. /\ DOMAIN wire' = 1..k /\ k \in Nat /\ k \in 1..k /\ wire'[k] = m
  BY Sent DEF Send
<1> HIDE DEF k
<1>2. \A j \in DOMAIN wire' : ~(j > k)
  BY <1>1
<1>3. QED
  BY <1>1, <1>2 DEF Departed

LEMMA SettledInit == Init => Settled
<1> SUFFICES ASSUME Init PROVE Settled
  OBVIOUS
<1>1. \A c \in Ids : replica[c].members = {}
  BY DEF Init, NoChannel
<1>2. DOMAIN wire = {}
  BY DEF Init
<1>3. QED
  BY <1>1, <1>2 DEF Init, Settled, Absent

LEMMA SettledStep == TypeOK /\ Settled /\ [Next]_vars => Settled'
<1> SUFFICES ASSUME TypeOK, Settled, [Next]_vars PROVE Settled'
  OBVIOUS
<1>1. ASSUME NEW m \in Msgs, NEW hurt, NEW heal, Send(m, hurt, heal),
             known' = known, active' = active, replica' = replica,
             inGame \subseteq inGame', missed' = missed,
             m.type \in {"push", "join"} => m.player \in inGame'
      PROVE  Settled'
  <2>1. \A p \in Players \ (inGame' \cup missed') : ~Brings(m, p)
    BY <1>1 DEF Brings
  <2>2. QED
    BY <1>1, <2>1, StaysAway DEF Settled, TypeOK
<1>2. ASSUME NEW m \in Msgs, NEW hurt, NEW heal, ChanOp(m, hurt, heal),
             m.type # "push", m.type = "join" => m.player \in inGame
      PROVE  Settled'
  BY <1>1, <1>2 DEF ChanOp, relay
<1>3. CASE \E f \in [Attrs -> Values] : CreateChannel(f)
  BY <1>2, <1>3, Sent DEF CreateChannel, TypeOK
<1>4. CASE \E c \in Ids : DestroyChannel(c)
  BY <1>2, <1>4, Sent DEF DestroyChannel
<1>5. CASE \E p \in Players, c \in Ids : JoinChannel(p, c) \/ LeaveChannel(p, c)
  BY <1>2, <1>5, Sent DEF JoinChannel, LeaveChannel
<1>6. CASE \E c \in Ids, a \in Attrs, v \in Values : SetChannel(c, a, v)
  BY <1>2, <1>6, Sent DEF SetChannel
<1>7. CASE \E p \in Players : Push(p) \/ OnPlayerConnect(p)
  BY <1>1, <1>7, Sent DEF Push, OnPlayerConnect, bridge, relay
<1>8. CASE PushConfig
  BY <1>1, <1>8, Sent DEF PushConfig, bridge, relay
<1>9. ASSUME NEW p \in Players, OnPlayerDisconnect(p) PROVE Settled'
  <2> DEFINE m == [type |-> "gone", player |-> p]
             hurt == {c \in Ids : p \in mirror[c].members}
  <2>1. m \in Msgs /\ Send(m, hurt, {}) /\ \A x : ~Brings(m, x)
    BY <1>9, Sent DEF OnPlayerDisconnect, Gone, Brings
  <2>2. /\ known' = known /\ active' = active /\ replica' = replica /\ inGame' = inGame \ {p}
        /\ missed' = IF Fits THEN missed \ {p} ELSE missed \cup {p}
    BY <1>9 DEF OnPlayerDisconnect, Gone, relay
  <2> HIDE DEF hurt
  <2>3. \A x \in Players : (Departed(x) => Departed(x)') /\ (Absent(x) => Absent(x)')
    <3> HIDE DEF m
    <3>1. QED
      BY <2>1, <2>2, StaysAway DEF TypeOK
  <2>4. p \notin missed' => Departed(p)'
    BY <2>1, <2>2, LastWord DEF TypeOK
  <2>5. \A x \in Players \ (inGame' \cup missed') : x # p => x \notin inGame \cup missed
    BY <2>2
  <2>6. QED
    BY <2>3, <2>4, <2>5 DEF Settled
<1>10. CASE ProcessTick
  <2>1. Head(statusQ) \in Events
    BY <1>10, QueueType DEF ProcessTick, TypeOK
  <2>2. Head(statusQ).player \in Players
    BY <2>1 DEF Events
  <2>3. CASE wire' = wire
    BY <1>10, <2>3 DEF ProcessTick, relay, Settled, Departed, Absent
  <2>4. CASE Send([type |-> "bind", player |-> Head(statusQ).player], {}, {})
    BY <1>1, <1>10, <2>2, <2>4, Sent DEF ProcessTick, relay
  <2>5. QED
    BY <1>10, <2>3, <2>4 DEF ProcessTick, NextStatus
<1>11. CASE RelayControl
  <2> DEFINE m == Head(wire)
             n == Len(Tail(wire))
  <2>1. m \in Msgs /\ replica \in Tables
    BY <1>11, QueueType DEF RelayControl, TypeOK
  <2>2. /\ n \in Nat /\ DOMAIN wire = 1..(n + 1) /\ DOMAIN wire' = 1..n /\ wire[1] = m
        /\ 1 \in 1..(n + 1)
        /\ \A j \in 1..n : wire'[j] = wire[j + 1] /\ j + 1 \in 1..(n + 1)
    BY <1>11 DEF RelayControl, TypeOK
  <2>3. /\ replica' = Applied(replica, m)
        /\ active' = IF m.type = "gone" THEN active \ {m.player} ELSE active
        /\ known' = CASE m.type = "push" -> known \cup {m.player}
                      [] m.type = "join" /\ replica[m.chan].on -> known \cup {m.player}
                      [] m.type = "gone" -> known \ {m.player}
                      [] OTHER -> known
        /\ inGame' = inGame /\ missed' = missed
    BY <1>11 DEF RelayControl, bridge
  <2> HIDE DEF m, n
  <2>4. ASSUME NEW c \in Ids, NEW p, p \in replica'[c].members
        PROVE  (p \in replica[c].members \/ Brings(m, p)) /\ ~(m.type = "gone" /\ m.player = p)
    <3>1. replica[c] \in Channels /\ p \in Effect(replica[c], m, c).members
      BY <2>1, <2>3, <2>4, AppliedTo DEF Tables
    <3>2. QED
      BY <2>1, <3>1, Members DEF Brings
  <2>5. ASSUME NEW p \in Players, Absent(p) PROVE Absent(p)'
    <3>1. ~Brings(m, p) /\ \A j \in 1..n : ~Brings(wire'[j], p)
      BY <2>2, <2>5 DEF Absent
    <3>2. p \notin known' \cup active'
      BY <2>3, <2>5, <3>1 DEF Absent, Brings
    <3>3. \A c \in Ids : p \notin replica'[c].members
      BY <2>4, <2>5, <3>1 DEF Absent
    <3>4. QED
      BY <2>2, <3>1, <3>2, <3>3 DEF Absent
  <2>6. ASSUME NEW p \in Players, Departed(p) PROVE Departed(p)' \/ Absent(p)'
    <3>1. PICK i \in 1..(n + 1) :
            /\ wire[i] = [type |-> "gone", player |-> p]
            /\ \A j \in 1..(n + 1) : j > i => ~Brings(wire[j], p)
      BY <2>2, <2>6 DEF Departed
    <3>2. CASE i = 1
      <4>1. m.type = "gone" /\ m.player = p
        BY <2>2, <3>1, <3>2
      <4>2. p \notin known' \cup active'
        BY <2>3, <4>1
      <4>3. \A c \in Ids : p \notin replica'[c].members
        BY <2>4, <4>1
      <4>4. \A j \in 1..n : j + 1 > i
        BY <3>2
      <4>5. \A j \in DOMAIN wire' : ~Brings(wire'[j], p)
        BY <2>2, <3>1, <4>4
      <4>6. QED
        BY <4>2, <4>3, <4>5 DEF Absent
    <3>3. CASE i # 1
      <4>1. i - 1 \in 1..n /\ (i - 1) + 1 = i
        BY <2>2, <3>3
      <4>2. i - 1 \in DOMAIN wire' /\ wire'[i - 1] = [type |-> "gone", player |-> p]
        BY <2>2, <3>1, <4>1
      <4>3. \A j \in 1..n : j > i - 1 => j + 1 > i
        BY <2>2
      <4>4. \A j \in DOMAIN wire' : j > i - 1 => ~Brings(wire'[j], p)
        BY <2>2, <3>1, <4>3
      <4>5. QED
        BY <4>2, <4>4 DEF Departed
    <3>4. QED
      BY <3>2, <3>3
  <2>7. QED
    BY <2>3, <2>5, <2>6 DEF Settled
<1>12. ASSUME NEW p \in Players, StartTalking(p) PROVE Settled'
  <2>1. /\ known' = known /\ replica' = replica /\ wire' = wire
        /\ active' = active \cup {p} /\ p \in known /\ inGame' = inGame /\ missed' = missed
    BY <1>12 DEF StartTalking, bridge
  <2>2. QED
    BY <2>1 DEF Settled, Departed, Absent
<1>13. ASSUME NEW p \in Players, StopTalking(p) PROVE Settled'
  BY <1>13 DEF StopTalking, bridge, Settled, Departed, Absent
<1>14. CASE \E p \in Players, ev \in {"timeout", "key"} : Report(p, ev)
  BY <1>14 DEF Report, bridge, relay, Settled, Departed, Absent
<1>15. CASE Crash
  <2>1. /\ known' = {} /\ active' = {} /\ replica' = [c \in Ids |-> NoChannel]
        /\ DOMAIN wire' = {}
    BY <1>15 DEF Crash
  <2>2. \A c \in Ids : replica'[c].members = {}
    BY <2>1 DEF NoChannel
  <2>3. QED
    BY <2>1, <2>2 DEF Settled, Absent
<1>16. CASE Restart
  BY <1>16 DEF Restart, bridge, history, Settled, Departed, Absent
<1>17. CASE UNCHANGED vars
  BY <1>17 DEF vars, bridge, relay, history, Settled, Departed, Absent
<1>18. QED
  BY <1>3, <1>4, <1>5, <1>6, <1>7, <1>8, <1>9, <1>10, <1>11, <1>12, <1>13, <1>14, <1>15,
    <1>16, <1>17 DEF Next, Bridge, Relay

(* Whoever has left the game is unknown at the relay as soon as the notice *)
(* has been read, unless it was lost: no operation sent before or after    *)
(* brings the player back.                                                 *)
THEOREM NoGhosts == Spec => []GhostFree
<1>1. Init => TypeOK /\ Settled
  BY TypeInit, SettledInit
<1>2. TypeOK /\ Settled /\ [Next]_vars => (TypeOK /\ Settled)'
  BY TypeStep, SettledStep
<1>3. Settled => GhostFree
  BY DEF Settled, Departed, Absent, Leaving, GhostFree
<1>4. QED
  BY <1>1, <1>2, <1>3, PTL DEF Spec

-----------------------------------------------------------------------------
(* ControlLink implements ReplicaSpec. *)
Far == AllApplied(replica, wire)
Seen == AllTold(view, statusQ)

(* What is not changed is not changed in the promise either. *)
LEMMA SameAbstract ==
    ASSUME mirror' = mirror, Far' = Far, inGame' = inGame, leavingBar' = leavingBar,
           missed' = missed, active' = active, Seen' = Seen
    PROVE  UNCHANGED Promise!vars
BY DEF Promise!vars, Far, Seen

LEMMA FarType == TypeOK => Far \in Tables /\ Seen \in SUBSET Players
BY AllAppliedType, AllToldType DEF TypeOK, Far, Seen

(* A datagram that is sent: applied as a whole, or lost.  Only a departure *)
(* makes anybody leave.                                                    *)
LEMMA SendMaps ==
    ASSUME TypeOK, NEW m \in Msgs, NEW hurt, NEW heal, Send(m, hurt, heal), replica' = replica
    PROVE  /\ Far' = IF Fits THEN Applied(Far, m) ELSE Far
           /\ m.type # "gone" => leavingBar' = leavingBar
           /\ \A p \in Players : m = GoneMsg(p) =>
                leavingBar' = IF Fits THEN leavingBar \cup {p} ELSE leavingBar
<1>1. Far' = IF Fits THEN Applied(Far, m) ELSE Far
  BY AllAppliedAppend DEF TypeOK, Send, Far
<1>2. wire \in Seq(Msgs)
  BY DEF TypeOK
<1>3. ASSUME m.type # "gone" PROVE leavingBar' = leavingBar
  <2>1. \A p \in Players : m # [type |-> "gone", player |-> p]
    BY <1>3
  <2>2. \A p \in Players : Leaving(p)' <=> Leaving(p)
    BY <1>2, <2>1, LeavingSend
  <2>3. QED
    BY <2>2 DEF leavingBar
<1>4. ASSUME NEW p \in Players, m = GoneMsg(p)
      PROVE  leavingBar' = IF Fits THEN leavingBar \cup {p} ELSE leavingBar
  <2>1. CASE Fits
    <3>1. \A x \in Players : x # p => m # [type |-> "gone", player |-> x]
      BY <1>4 DEF GoneMsg
    <3>2. \A x \in Players : Leaving(x)' <=> Leaving(x) \/ x = p
      BY <1>2, <1>4, <2>1, <3>1, LeavingSend DEF GoneMsg
    <3>3. QED
      BY <2>1, <3>2 DEF leavingBar
  <2>2. CASE ~Fits
    BY <2>2 DEF Send, leavingBar, Leaving
  <2>3. QED
    BY <2>1, <2>2
<1>5. QED
  BY <1>1, <1>3, <1>4

(* The natives that change a channel are the operations of the promise. *)
LEMMA NativesAreMsgs ==
    ASSUME TypeOK, NEW m \in NativeOps(inGame)
    PROVE  m \in Msgs /\ m.type # "gone"
BY DEF NativeOps, Msgs, TypeOK, Conf

LEMMA ChangeMaps ==
    ASSUME TypeOK, NEW m \in NativeOps(inGame), NEW hurt, NEW heal, ChanOp(m, hurt, heal)
    PROVE  Promise!Next
<1>1. m \in Msgs /\ m.type # "gone"
  BY NativesAreMsgs
<1>2. /\ mirror' = Applied(mirror, m) /\ Send(m, hurt, heal) /\ replica' = replica
      /\ inGame' = inGame /\ missed' = missed /\ active' = active
      /\ view' = view /\ statusQ' = statusQ
  BY DEF ChanOp, relay
<1>3. Far' = Far \/ Far' = Applied(Far, m)
  BY <1>1, <1>2, SendMaps
<1>4. leavingBar' = leavingBar
  BY <1>1, <1>2, SendMaps
<1>5. Seen' = Seen
  BY <1>2 DEF Seen
<1>6. Promise!Change(m)
  BY <1>2, <1>3, <1>4, <1>5 DEF Promise!Change, Far, Seen
<1>7. QED
  BY <1>6 DEF Promise!Next

(* What the natives send that changes no channel is no step of the promise. *)
LEMMA PlainMaps ==
    ASSUME TypeOK, NEW m \in Msgs, m.type \in {"push", "bind", "config"}, replica' = replica,
           Send(m, {}, {})
    PROVE  Far' = Far /\ leavingBar' = leavingBar
<1>1. Applied(Far, m) = Far
  BY DEF Applied
<1>2. QED
  BY <1>1, SendMaps

LEMMA DisconnectMaps ==
    ASSUME TypeOK, NEW p \in Players, OnPlayerDisconnect(p)
    PROVE  Promise!Next
<1> DEFINE hurt == {c \in Ids : p \in mirror[c].members}
<1>1. /\ p \in inGame /\ inGame' = inGame \ {p} /\ view' = view \ {p} /\ active' = active
      /\ replica' = replica /\ statusQ' = statusQ /\ mirror' = Removed(mirror, p)
      /\ Send(GoneMsg(p), hurt, {})
      /\ missed' = IF Fits THEN missed \ {p} ELSE missed \cup {p}
  BY DEF OnPlayerDisconnect, Gone, GoneMsg, relay
<1> HIDE DEF hurt
<1>2. GoneMsg(p) \in Msgs
  BY Sent DEF GoneMsg
<1>3. mirror' = Applied(mirror, GoneMsg(p))
  BY <1>1 DEF Applied, GoneMsg
<1>4. /\ Far' = IF Fits THEN Applied(Far, GoneMsg(p)) ELSE Far
      /\ leavingBar' = IF Fits THEN leavingBar \cup {p} ELSE leavingBar
  BY <1>1, <1>2, SendMaps
<1>5. Seen' \in {Seen, Seen \ {p}}
  <2>1. Seen' = AllTold(view \ {p}, statusQ)
    BY <1>1 DEF Seen
  <2>2. \A x : /\ x \in Seen' => x \in Seen
               /\ x # p /\ x \in Seen => x \in Seen'
    BY <2>1, ToldWithout DEF TypeOK, Seen
  <2>3. Seen' \subseteq Players /\ Seen \subseteq Players
    <3>1. view \ {p} \in SUBSET Players
      BY DEF TypeOK
    <3>2. QED
      BY <2>1, <3>1, AllToldType, FarType DEF TypeOK
  <2>4. CASE p \in Seen'
    BY <2>2, <2>3, <2>4
  <2>5. CASE p \notin Seen'
    BY <2>2, <2>3, <2>5
  <2>6. QED
    BY <2>4, <2>5
<1>6. Promise!Disconnect(p)
  <2>1. CASE Fits
    BY <1>1, <1>3, <1>4, <1>5, <2>1 DEF Promise!Disconnect, Far, Seen
  <2>2. CASE ~Fits
    BY <1>1, <1>3, <1>4, <1>5, <2>2 DEF Promise!Disconnect, Far, Seen
  <2>3. QED
    BY <2>1, <2>2
<1>7. QED
  BY <1>6 DEF Promise!Next

(* What the relay reads was applied in the promise when it was sent, but   *)
(* for the silence of those who leave.                                     *)
LEMMA ReadMaps ==
    ASSUME TypeOK, RelayControl
    PROVE  Promise!Next \/ UNCHANGED Promise!vars
<1> DEFINE m == Head(wire)
<1>1. /\ m \in Msgs /\ wire \in Seq(Msgs) /\ wire # <<>> /\ wire' = Tail(wire)
      /\ mirror' = mirror /\ inGame' = inGame /\ missed' = missed
      /\ view' = view /\ statusQ' = statusQ
      /\ active' = IF m.type = "gone" THEN active \ {m.player} ELSE active
  BY QueueType DEF RelayControl, TypeOK, bridge
<1>2. Far' = Far
  BY AllAppliedTail DEF RelayControl, TypeOK, Far
<1>3. Seen' = Seen
  BY <1>1 DEF Seen
<1>4. ASSUME NEW x \in Players
      PROVE  /\ Leaving(x)' => Leaving(x)
             /\ Leaving(x) /\ m # GoneMsg(x) => Leaving(x)'
             /\ m = GoneMsg(x) => Leaving(x)
  <2>1. /\ Len(wire) \in Nat /\ DOMAIN wire = 1..Len(wire) /\ DOMAIN wire' = 1..(Len(wire) - 1)
        /\ wire[1] = m /\ 1 \in 1..Len(wire)
        /\ \A i \in 1..(Len(wire) - 1) : wire'[i] = wire[i + 1] /\ i + 1 \in 1..Len(wire)
    BY <1>1
  <2>2. \A i \in 1..Len(wire) : i = 1 \/ (i - 1 \in 1..(Len(wire) - 1) /\ wire'[i - 1] = wire[i])
    BY <2>1
  <2>3. ASSUME Leaving(x)' PROVE Leaving(x)
    <3>1. PICK i \in 1..(Len(wire) - 1) : wire'[i] = GoneMsg(x)
      BY <2>1, <2>3 DEF Leaving, GoneMsg
    <3>2. wire[i + 1] = GoneMsg(x) /\ i + 1 \in 1..Len(wire)
      BY <2>1, <3>1
    <3>3. QED
      BY <2>1, <3>2 DEF Leaving, GoneMsg
  <2>4. ASSUME Leaving(x), m # GoneMsg(x) PROVE Leaving(x)'
    <3>1. PICK i \in 1..Len(wire) : wire[i] = GoneMsg(x)
      BY <2>1, <2>4 DEF Leaving, GoneMsg
    <3>2. i - 1 \in 1..(Len(wire) - 1) /\ wire'[i - 1] = GoneMsg(x)
      BY <2>1, <2>2, <2>4, <3>1
    <3>3. QED
      BY <2>1, <3>2 DEF Leaving, GoneMsg
  <2>5. m = GoneMsg(x) => Leaving(x)
    BY <2>1 DEF Leaving, GoneMsg
  <2>6. QED
    BY <2>3, <2>4, <2>5
<1> HIDE DEF m
<1>5. CASE m.type = "gone"
  <2>1. PICK p \in Players : p = m.player /\ m = GoneMsg(p)
    BY <1>1, <1>5, Parts DEF GoneMsg
  <2>2. p \in leavingBar
    BY <1>4, <2>1 DEF leavingBar
  <2>3. \A x \in Players : x # p => m # GoneMsg(x)
    BY <2>1 DEF GoneMsg
  <2>4. leavingBar' \in {leavingBar, leavingBar \ {p}}
    <3>1. \A x \in Players : x # p => (Leaving(x)' <=> Leaving(x))
      BY <1>4, <2>3
    <3>2. CASE Leaving(p)'
      BY <1>4, <3>1, <3>2 DEF leavingBar
    <3>3. CASE ~Leaving(p)'
      BY <3>1, <3>3 DEF leavingBar
    <3>4. QED
      BY <3>2, <3>3
  <2>5. active' = active \ {p}
    BY <1>1, <1>5, <2>1
  <2>6. Promise!Departs(p)
    BY <1>1, <1>2, <1>3, <2>2, <2>4, <2>5 DEF Promise!Departs, Far, Seen
  <2>7. QED
    BY <2>6 DEF Promise!Next
<1>6. CASE m.type # "gone"
  <2>1. \A x \in Players : m # GoneMsg(x)
    BY <1>6 DEF GoneMsg
  <2>2. leavingBar' = leavingBar
    BY <1>4, <2>1 DEF leavingBar
  <2>3. active' = active
    BY <1>1, <1>6
  <2>4. QED
    BY <1>1, <1>2, <1>3, <2>2, <2>3, SameAbstract
<1>7. QED
  BY <1>5, <1>6

(* What an event adds to the gamemode's picture, if it is sent. *)
LEMMA EmitMaps ==
    ASSUME TypeOK, NEW p \in Players, NEW ev \in {"start", "stop", "timeout", "key"},
           Emit(p, ev), view' = view
    PROVE  \/ Seen' = Seen
           \/ Seen' = CASE ev = "start" -> Seen \cup {p}
                        [] ev = "stop"  -> Seen \ {p}
                        [] OTHER        -> Seen
<1> DEFINE e == [event |-> ev, player |-> p]
<1>1. e \in Events
  BY DEF Events
<1>2. CASE statusQ' = statusQ
  BY <1>2 DEF Seen
<1>3. CASE statusQ' = Append(statusQ, e)
  <2>1. Seen' = Told(Seen, e)
    BY <1>1, <1>3, AllToldAppend DEF TypeOK, Seen
  <2>2. QED
    BY <2>1 DEF Told
<1>4. QED
  BY <1>2, <1>3 DEF Emit

LEMMA StartMaps ==
    ASSUME TypeOK, Settled, NEW p \in Players, StartTalking(p)
    PROVE  Promise!Next
<1>1. /\ p \in known \ active /\ active' = active \cup {p} /\ mirror' = mirror
      /\ replica' = replica /\ wire' = wire /\ inGame' = inGame /\ missed' = missed
      /\ view' = view
  BY DEF StartTalking, bridge
<1>2. p \in inGame \cup leavingBar \cup missed
  BY <1>1 DEF Settled, Departed, Absent, Leaving, leavingBar
<1>3. Seen' \in {Seen, Seen \cup {p}}
  BY <1>1, EmitMaps DEF StartTalking
<1>4. Far' = Far /\ leavingBar' = leavingBar
  BY <1>1 DEF Far, leavingBar, Leaving
<1>5. Promise!Starts(p)
  BY <1>1, <1>2, <1>3, <1>4 DEF Promise!Starts, Far, Seen
<1>6. QED
  BY <1>5 DEF Promise!Next

LEMMA StopMaps ==
    ASSUME TypeOK, NEW p \in Players, StopTalking(p)
    PROVE  Promise!Next
<1>1. /\ p \in active /\ active' = active \ {p} /\ mirror' = mirror
      /\ replica' = replica /\ wire' = wire /\ inGame' = inGame /\ missed' = missed
      /\ view' = view
  BY DEF StopTalking, bridge
<1>2. Seen' \in {Seen, Seen \ {p}}
  BY <1>1, EmitMaps DEF StopTalking
<1>3. Far' = Far /\ leavingBar' = leavingBar
  BY <1>1 DEF Far, leavingBar, Leaving
<1>4. Promise!Stops(p)
  BY <1>1, <1>2, <1>3 DEF Promise!Stops, Far, Seen
<1>5. QED
  BY <1>4 DEF Promise!Next

LEMMA CrashMaps ==
    ASSUME TypeOK, Crash
    PROVE  Promise!Next
<1>1. /\ mirror' = mirror /\ inGame' = inGame /\ missed' = {} /\ active' = {}
      /\ replica' = [c \in Ids |-> NoChannel] /\ wire' = <<>>
      /\ view' = view /\ statusQ' = statusQ
  BY DEF Crash, bridge
<1>2. Far' = [c \in Ids |-> NoChannel]
  BY <1>1, AllAppliedNone, NoTableType DEF Far
<1>3. leavingBar' = {}
  BY <1>1 DEF leavingBar, Leaving
<1>4. Seen' = Seen
  BY <1>1 DEF Seen
<1>5. Promise!Forget
  BY <1>1, <1>2, <1>3, <1>4 DEF Promise!Forget, Far, Seen
<1>6. QED
  BY <1>5 DEF Promise!Next

LEMMA PromiseInit == Init => Promise!Init
<1> SUFFICES ASSUME Init PROVE Promise!Init
  OBVIOUS
<1>1. AllApplied(replica, wire) = [c \in Ids |-> NoChannel]
  BY AllAppliedNone, NoTableType DEF Init
<1>2. AllTold(view, statusQ) = {}
  BY AllToldNone DEF Init
<1>3. leavingBar = {}
  BY DEF Init, leavingBar, Leaving
<1>4. QED
  BY <1>1, <1>2, <1>3 DEF Init, Promise!Init

LEMMA PromiseStep == TypeOK /\ Settled /\ [Next]_vars => [Promise!Next]_(Promise!vars)
<1> SUFFICES ASSUME TypeOK, Settled, [Next]_vars
             PROVE  Promise!Next \/ UNCHANGED Promise!vars
  OBVIOUS
<1> USE DEF NativeOps
<1>1. ASSUME NEW f \in [Attrs -> Values], CreateChannel(f) PROVE Promise!Next
  <2>1. [type |-> "create", chan |-> nextId, conf |-> f] \in NativeOps(inGame)
    BY DEF TypeOK
  <2>2. QED
    BY <1>1, <2>1, ChangeMaps DEF CreateChannel
<1>2. ASSUME NEW c \in Ids, DestroyChannel(c) PROVE Promise!Next
  BY <1>2, ChangeMaps DEF DestroyChannel
<1>3. ASSUME NEW p \in Players, NEW c \in Ids, JoinChannel(p, c) PROVE Promise!Next
  BY <1>3, ChangeMaps DEF JoinChannel
<1>4. ASSUME NEW p \in Players, NEW c \in Ids, LeaveChannel(p, c) PROVE Promise!Next
  BY <1>4, ChangeMaps DEF LeaveChannel
<1>5. ASSUME NEW c \in Ids, NEW a \in Attrs, NEW v \in Values, SetChannel(c, a, v)
      PROVE  Promise!Next
  BY <1>5, ChangeMaps DEF SetChannel
<1>6. ASSUME NEW p \in Players, Push(p) PROVE UNCHANGED Promise!vars
  <2>1. Far' = Far /\ leavingBar' = leavingBar
    BY <1>6, Sent, PlainMaps DEF Push, relay
  <2>2. QED
    BY <1>6, <2>1, SameAbstract DEF Push, bridge, relay, Seen
<1>7. CASE PushConfig
  <2>1. Far' = Far /\ leavingBar' = leavingBar
    BY <1>7, Sent, PlainMaps DEF PushConfig, relay
  <2>2. QED
    BY <1>7, <2>1, SameAbstract DEF PushConfig, bridge, relay, Seen
<1>8. ASSUME NEW p \in Players, OnPlayerConnect(p) PROVE Promise!Next
  <2>1. Far' = Far /\ leavingBar' = leavingBar
    BY <1>8, Sent, PlainMaps DEF OnPlayerConnect, relay
  <2>2. Promise!Connect(p)
    BY <1>8, <2>1 DEF OnPlayerConnect, relay, Promise!Connect, Far, Seen
  <2>3. QED
    BY <2>2 DEF Promise!Next
<1>9. ASSUME NEW p \in Players, OnPlayerDisconnect(p) PROVE Promise!Next
  BY <1>9, DisconnectMaps
<1>10. CASE ProcessTick
  <2>1. Head(statusQ) \in Events
    BY <1>10, QueueType DEF ProcessTick, TypeOK
  <2>2. Head(statusQ).player \in Players
    BY <2>1 DEF Events
  <2>3. Seen' = Seen
    BY <1>10, AllToldTail DEF ProcessTick, NextStatus, TypeOK, Seen
  <2>4. replica' = replica
    BY <1>10 DEF ProcessTick, relay
  <2>5. Far' = Far /\ leavingBar' = leavingBar
    <3>1. CASE wire' = wire
      BY <2>4, <3>1 DEF Far, leavingBar, Leaving
    <3>2. CASE Send([type |-> "bind", player |-> Head(statusQ).player], {}, {})
      BY <2>2, <2>4, <3>2, Sent, PlainMaps
    <3>3. QED
      BY <1>10, <3>1, <3>2 DEF ProcessTick, NextStatus
  <2>6. QED
    BY <1>10, <2>3, <2>5, SameAbstract DEF ProcessTick, relay
<1>11. CASE RelayControl
  BY <1>11, ReadMaps
<1>12. ASSUME NEW p \in Players, StartTalking(p) PROVE Promise!Next
  BY <1>12, StartMaps
<1>13. ASSUME NEW p \in Players, StopTalking(p) PROVE Promise!Next
  BY <1>13, StopMaps
<1>14. ASSUME NEW p \in Players, NEW ev \in {"timeout", "key"}, Report(p, ev)
       PROVE  UNCHANGED Promise!vars
  <2>1. Seen' = Seen
    BY <1>14, EmitMaps DEF Report, bridge
  <2>2. Far' = Far /\ leavingBar' = leavingBar
    BY <1>14 DEF Report, relay, Far, leavingBar, Leaving
  <2>3. QED
    BY <1>14, <2>1, <2>2, SameAbstract DEF Report, bridge, relay
<1>15. CASE Crash
  BY <1>15, CrashMaps
<1>16. CASE Restart
  BY <1>16, SameAbstract DEF Restart, bridge, history, Far, Seen, leavingBar, Leaving
<1>17. CASE UNCHANGED vars
  BY <1>17, SameAbstract DEF vars, bridge, relay, history, Far, Seen, leavingBar, Leaving
<1>18. QED
  BY <1>1, <1>2, <1>3, <1>4, <1>5, <1>6, <1>7, <1>8, <1>9, <1>10, <1>11, <1>12, <1>13,
    <1>14, <1>15, <1>16, <1>17 DEF Next, Bridge, Relay

(* The control link implements ReplicaSpec, for any players, ids and       *)
(* attributes and buffers of any size: seen from the natives, an operation *)
(* takes effect at the relay as a whole and in its turn or not at all,     *)
(* whatever is lost, and the gamemode is shown nothing that did not occur. *)
THEOREM LinkImplements == Spec => LinkPromise
<1>1. Init => TypeOK /\ Settled
  BY TypeInit, SettledInit
<1>2. TypeOK /\ Settled /\ [Next]_vars => (TypeOK /\ Settled)'
  BY TypeStep, SettledStep
<1>3. QED
  BY <1>1, <1>2, PromiseInit, PromiseStep, PTL DEF Spec, LinkPromise, Promise!Spec
=============================================================================
