--------------------------- MODULE PlaybackProofs ----------------------------
(***************************************************************************)
(* Theorems about the playback, for any jitter depths and any number of    *)
(* frames.                                                                 *)
(***************************************************************************)
EXTENDS PlayoutRefinement, SequenceTheorems, FiniteSetTheorems, InductionLemmas

(* The variables' types; the target stays between its limits and the       *)
(* buffer below the hard cap.                                              *)
TypeOK ==
    /\ sent \in Nat /\ net \subseteq Nat /\ played \in Int
    /\ jitter \in Seq(Nat) /\ Len(jitter) <= JitterCap
    /\ target \in JitterMin..JitterMax

-----------------------------------------------------------------------------
(* The jitter buffer *)

(* A frame goes to the first place before which all frames are earlier.    *)
LEMMA InsertAfter ==
    ASSUME NEW q \in Seq(Nat), NEW n \in Nat
    PROVE  /\ Insert(q, n) \in Seq(Nat) /\ Len(Insert(q, n)) = Len(q) + 1
           /\ \E k \in 0..Len(q) :
                /\ \A i \in 1..k : q[i] < n /\ Insert(q, n)[i] = q[i]
                /\ Insert(q, n)[k + 1] = n
                /\ \A i \in (k + 1)..Len(q) : Insert(q, n)[i + 1] = q[i]
                /\ k < Len(q) => q[k + 1] >= n
<1> DEFINE l == Len(q)
           before == {k \in 0..l : \A i \in 1..k : q[i] < n}
           k == CHOOSE x \in before : \A j \in before : j <= x
<1>1. l \in Nat /\ l = Len(q) /\ \A i \in 1..l : q[i] \in Nat
  OBVIOUS
<1>2. Insert(q, n) = SubSeq(q, 1, (1 + k) - 1) \o <<n>> \o SubSeq(q, 1 + k, Len(q))
  BY DEF Insert, InsertAt
<1>3. before \in SUBSET (0..l) /\ before # {}
  <2>1. 0 \in before
    BY <1>1
  <2>2. QED
    BY <2>1
<1> HIDE DEF l
<1>4. k \in before /\ \A j \in before : j <= k
  <2> HIDE DEF before
  <2>1. \E x \in before : \A j \in before : j <= x
    BY <1>1, <1>3, Greatest
  <2>2. QED
    BY <2>1
<1>5. k \in 0..l /\ \A i \in 1..k : q[i] < n
  BY <1>4
<1>6. ASSUME k < l PROVE q[k + 1] >= n
  <2>1. k + 1 \in 0..l /\ k + 1 \notin before
    <3>1. k + 1 \in 0..l /\ ~(k + 1 <= k)
      BY <1>1, <1>5, <1>6
    <3>2. QED
      BY <1>4, <3>1
  <2>2. PICK i \in 1..(k + 1) : ~(q[i] < n)
    BY <2>1
  <2>3. i = k + 1
    BY <1>5, <2>2
  <2>4. QED
    BY <1>1, <2>1, <2>2, <2>3
<1> HIDE DEF before, k
<1> DEFINE a == SubSeq(q, 1, k)
           b == SubSeq(q, k + 1, l)
<1>7. /\ a \in Seq(Nat) /\ Len(a) = k /\ \A i \in 1..k : a[i] = q[i]
  <2>1. \A i \in 1..k : q[i] \in Nat /\ 1 + i - 1 = i
    BY <1>1, <1>5
  <2>2. k \in Int /\ k - 1 + 1 = k /\ (IF 1 <= k THEN k - 1 + 1 ELSE 0) = k
    BY <1>5
  <2>3. QED
    BY <2>1, <2>2, SubSeqProperties
<1>8. /\ b \in Seq(Nat) /\ Len(b) = l - k /\ \A i \in 1..(l - k) : b[i] = q[k + i]
  <2>1. \A i \in (k + 1)..l : q[i] \in Nat
    BY <1>1, <1>5
  <2>2. k + 1 \in Int /\ l \in Int /\ l - (k + 1) + 1 = l - k
        /\ (IF k + 1 <= l THEN l - (k + 1) + 1 ELSE 0) = l - k
    BY <1>1, <1>5
  <2>3. \A i \in 1..(l - k) : (k + 1) + i - 1 = k + i
    BY <1>1, <1>5
  <2>4. QED
    BY <2>1, <2>2, <2>3, SubSeqProperties
<1>9. Insert(q, n) = a \o <<n>> \o b
  <2>1. (1 + k) - 1 = k /\ 1 + k = k + 1
    BY <1>5
  <2>2. QED
    BY <1>1, <1>2, <2>1
<1> HIDE DEF a, b
<1> DEFINE c == a \o <<n>>
<1>10. c \in Seq(Nat) /\ Len(c) = k + 1 /\ \A i \in 1..(k + 1) : c[i] = IF i <= k THEN a[i] ELSE n
  BY <1>5, <1>7
<1> HIDE DEF c
<1>11. /\ c \o b \in Seq(Nat) /\ Len(c \o b) = l + 1
       /\ \A i \in 1..(l + 1) : (c \o b)[i] = IF i <= k + 1 THEN c[i] ELSE b[i - (k + 1)]
  <2>1. Len(c) + Len(b) = l + 1
    BY <1>1, <1>5, <1>8, <1>10
  <2>2. /\ c \o b \in Seq(Nat) /\ Len(c \o b) = Len(c) + Len(b)
        /\ \A i \in 1..Len(c) + Len(b) :
             (c \o b)[i] = IF i <= Len(c) THEN c[i] ELSE b[i - Len(c)]
    BY <1>8, <1>10, ConcatProperties
  <2>3. QED
    BY <1>10, <2>1, <2>2
<1>12. Insert(q, n) = c \o b
  BY <1>9 DEF c
<1>13. \A i \in 1..k : Insert(q, n)[i] = q[i]
  <2>1. \A i \in 1..k : i \in 1..(k + 1) /\ i \in 1..(l + 1) /\ i <= k
    BY <1>1, <1>5
  <2>2. QED
    BY <1>7, <1>10, <1>11, <1>12, <2>1
<1>14. Insert(q, n)[k + 1] = n
  <2>1. k + 1 \in 1..(k + 1) /\ k + 1 \in 1..(l + 1) /\ ~(k + 1 <= k)
    BY <1>1, <1>5
  <2>2. QED
    BY <1>10, <1>11, <1>12, <2>1
<1>15. ASSUME NEW i \in (k + 1)..l PROVE Insert(q, n)[i + 1] = q[i]
  <2>1. /\ i + 1 \in 1..(l + 1) /\ ~(i + 1 <= k + 1)
        /\ i - k \in 1..(l - k) /\ (i + 1) - (k + 1) = i - k /\ k + (i - k) = i
    BY <1>1, <1>5
  <2>2. Insert(q, n)[i + 1] = b[(i + 1) - (k + 1)]
    BY <1>11, <1>12, <2>1
  <2>3. QED
    BY <1>8, <2>1, <2>2
<1>16. QED
  BY <1>1, <1>5, <1>6, <1>11, <1>12, <1>13, <1>14, <1>15

(* The cap takes at most the first frame. *)
LEMMA CappedType ==
    ASSUME NEW q \in Seq(Nat), Len(q) <= JitterCap + 1
    PROVE  /\ Capped(q) \in Seq(Nat) /\ Len(Capped(q)) <= JitterCap
           /\ Capped(q) = q \/ (Capped(q) = Tail(q) /\ q # <<>> /\ Len(q) > JitterCap)
<1>0. JitterCap \in Nat
  BY Constants
<1>1. CASE Len(q) > JitterCap
  <2>1. q # <<>> /\ Capped(q) = Tail(q)
    <3>1. Capped(q) = Tail(q)
      BY ONLY <1>1 DEF Capped
    <3>2. Len(q) # 0
      <4>1. Len(q) \in Nat
        BY ONLY q \in Seq(Nat)
      <4>2. QED
        BY ONLY <4>1, <1>0, <1>1
    <3>3. q # <<>>
      BY ONLY <3>2
    <3>4. QED
      BY ONLY <3>1, <3>3
  <2>2. Tail(q) \in Seq(Nat) /\ Len(Tail(q)) = Len(q) - 1 /\ Len(q) \in Nat
    <3>1. q # <<>>
      BY <2>1
    <3>2. QED
      BY ONLY q \in Seq(Nat), <3>1
  <2>4. Len(Tail(q)) <= JitterCap
    BY ONLY <1>0, <2>2, Len(q) <= JitterCap + 1
  <2>5. QED
    BY <1>1, <2>1, <2>2, <2>4
<1>2. CASE ~(Len(q) > JitterCap)
  <2>1. Capped(q) = q
    BY ONLY <1>2 DEF Capped
  <2>2. Len(q) <= JitterCap
    <3>1. Len(q) \in Nat
      BY ONLY q \in Seq(Nat)
    <3>2. QED
      BY ONLY <3>1, <1>0, <1>2
  <2>3. QED
    BY ONLY <2>1, <2>2, q \in Seq(Nat)
<1>3. QED
  BY <1>1, <1>2

LEMMA TypeInit == Init => TypeOK
BY Constants DEF Init, TypeOK

LEMMA TypeStep == TypeOK /\ [Next]_vars => TypeOK'
<1> SUFFICES ASSUME TypeOK, [Next]_vars PROVE TypeOK'
  OBVIOUS
<1> USE DEF TypeOK
<1>1. CASE Speak
  BY <1>1 DEF Speak, stream
<1>2. ASSUME NEW n \in net, Lose(n) PROVE TypeOK'
  BY <1>2 DEF Lose, stream
<1>3. ASSUME NEW n \in net, Push(n) PROVE TypeOK'
  <2>1. Insert(jitter, n) \in Seq(Nat) /\ Len(Insert(jitter, n)) = Len(jitter) + 1
    BY InsertAfter
  <2>2. jitter' = Capped(Insert(jitter, n)) /\ net' \subseteq Nat
    BY <1>3 DEF Push
  <2>3. jitter' \in Seq(Nat) /\ Len(jitter') <= JitterCap
    BY <2>1, <2>2, CappedType, Constants
  <2>4. sent' = sent /\ played' = played /\ target' = target
    BY <1>3 DEF Push
  <2>5. QED
    BY <2>2, <2>3, <2>4
<1>4. CASE RemoveSpeaker
  BY <1>4, Constants DEF RemoveSpeaker, link
<1>5. CASE Tick
  <2>1. CASE jitter # <<>> /\ Play
    <3>1. /\ played' \in Nat /\ jitter' \in Seq(Nat) /\ Len(jitter') = Len(jitter) - 1
          /\ Len(jitter) \in Nat
      BY <2>1, HeadTailProperties DEF Play
    <3>2. target' \in JitterMin..JitterMax
      <4>1. target' = target \/ (target' = target - 1 /\ target > JitterMin)
        BY <2>1 DEF Play
      <4>2. JitterMin \in Nat /\ JitterMax \in Nat
        BY Constants
      <4>3. QED
        BY <4>1, <4>2
    <3>3. sent' = sent /\ net' = net
      BY <1>5 DEF Tick
    <3>4. Len(jitter') <= JitterCap
      BY <3>1, Constants
    <3>5. QED
      BY <3>1, <3>2, <3>3, <3>4
  <2>2. CASE Starved
    BY <1>5, <2>2, Constants DEF Tick, Starved
  <2>3. CASE UNCHANGED stream
    BY <1>5, <2>3 DEF Tick, stream
  <2>4. QED
    BY <1>5, <2>1, <2>2, <2>3 DEF Tick
<1>6. CASE Restart
  BY <1>6 DEF Restart, RestartOnDevice, link, stream
<1>7. CASE Open
  BY <1>7 DEF Open, OpenAndStart, link, stream
<1>8. CASE UNCHANGED vars
  BY <1>8 DEF vars, link, stream
<1>9. QED
  BY <1>1, <1>2, <1>3, <1>4, <1>5, <1>6, <1>7, <1>8 DEF Next

(* The playback's variables keep their types: the target depth stays       *)
(* within its limits, the buffer within its cap.                           *)
THEOREM PlaybackTypes == Spec => []TypeOK
BY TypeInit, TypeStep, PTL DEF Spec

-----------------------------------------------------------------------------
(* The mix thread runs only while it has a client and a renderer. *)
THEOREM MixerIsSafe == Spec => []MixerHasDevice
<1>1. Init => MixerHasDevice
  BY DEF Init, MixerHasDevice
<1>2. MixerHasDevice /\ [Next]_vars => MixerHasDevice'
  <2> SUFFICES ASSUME MixerHasDevice, [Next]_vars PROVE MixerHasDevice'
    OBVIOUS
  <2> USE DEF MixerHasDevice
  <2>1. CASE Restart
    BY <2>1 DEF Restart, RestartOnDevice, StopStream
  <2>2. ASSUME NEW c \in BOOLEAN, NEW r \in BOOLEAN, NEW s \in BOOLEAN, OpenAndStart(c, r, s)
        PROVE  MixerHasDevice'
    <3>1. (s => c /\ r) /\ running' = s /\ client' = (client \/ c) /\ render' = (render \/ r)
      BY <2>2 DEF OpenAndStart
    <3>2. QED
      BY <3>1, Zenon
  <2>3. CASE Speak \/ RemoveSpeaker \/ Tick \/ (\E n \in net : Lose(n) \/ Push(n))
    BY <2>3 DEF Speak, RemoveSpeaker, Tick, Lose, Push, device
  <2>4. CASE UNCHANGED vars
    BY <2>4 DEF vars, device
  <2>5. QED
    BY <2>1, <2>2, <2>3, <2>4 DEF Next, Open
<1>3. QED
  BY <1>1, <1>2, PTL DEF Spec

-----------------------------------------------------------------------------
(* A frame is thrown away only while a playout could start: the cap is     *)
(* above any target that underruns can reach.                              *)
THEOREM NeverStarvedByCap == Spec => EvictsOnlyWhenReady
<1> DEFINE A == \A n \in net : Push(n) /\ Len(jitter') <= Len(jitter) => Len(jitter) >= target
<1>1. TypeOK => A
  <2> SUFFICES ASSUME TypeOK, NEW n \in net, Push(n), Len(jitter') <= Len(jitter)
               PROVE  Len(jitter) >= target
    OBVIOUS
  <2> DEFINE q == Insert(jitter, n)
  <2>1. q \in Seq(Nat) /\ Len(q) = Len(jitter) + 1 /\ Len(jitter) \in Nat
    BY InsertAfter DEF TypeOK
  <2>2. jitter' = Capped(q)
    BY DEF Push
  <2> HIDE DEF q
  <2>3. jitter' # q
    BY <2>1
  <2>4. Len(q) > JitterCap
    BY <2>1, <2>2, <2>3 DEF Capped
  <2>5. QED
    BY <2>1, <2>4, Constants DEF TypeOK
<1> HIDE DEF A
<1>2. Spec => [][A]_vars
  BY <1>1, PlaybackTypes, PTL
<1>3. QED
  BY <1>2 DEF A, EvictsOnlyWhenReady

-----------------------------------------------------------------------------
(* PlayoutInOrder: the buffer is sorted, every frame is on its way, in the *)
(* buffer or through, and what is in the buffer comes after what was       *)
(* played unless it was late.                                              *)
Sorted(q) == \A i, j \in 1..Len(q) : i < j => q[i] < q[j]
Ordered ==
    /\ Sorted(jitter)
    /\ \A i \in 1..Len(jitter) :
         /\ jitter[i] > played \/ jitter[i] \in late
         /\ jitter[i] < sent /\ jitter[i] \notin net
    /\ \A n \in net : n < sent /\ n # played
    /\ played < sent

LEMMA SortedInsert ==
    ASSUME NEW q \in Seq(Nat), NEW n \in Nat, Sorted(q), \A i \in 1..Len(q) : q[i] # n
    PROVE  /\ Sorted(Insert(q, n))
           /\ \A j \in 1..Len(Insert(q, n)) :
                Insert(q, n)[j] = n \/ \E i \in 1..Len(q) : Insert(q, n)[j] = q[i]
<1> DEFINE l == Len(q)
           z == Insert(q, n)
<1>1. l \in Nat /\ l = Len(q) /\ \A i \in 1..l : q[i] \in Nat
  OBVIOUS
<1>2. PICK k \in 0..l :
        /\ \A i \in 1..k : q[i] < n /\ z[i] = q[i]
        /\ z[k + 1] = n
        /\ \A i \in (k + 1)..l : z[i + 1] = q[i]
        /\ k < l => q[k + 1] >= n
  BY InsertAfter
<1>3. z \in Seq(Nat) /\ Len(z) = l + 1
  BY InsertAfter
<1> HIDE DEF l, z
<1>4. \A i \in (k + 1)..l : q[i] > n
  <2> SUFFICES ASSUME NEW i \in (k + 1)..l PROVE q[i] > n
    OBVIOUS
  <2>1. k + 1 \in 1..l /\ i \in 1..l /\ k < l
    BY <1>1
  <2>2. q[k + 1] >= n /\ q[k + 1] # n /\ q[k + 1] \in Nat /\ q[i] \in Nat
    BY <1>1, <1>2, <2>1
  <2>3. CASE i = k + 1
    BY <2>2, <2>3
  <2>4. CASE i # k + 1
    <3>1. k + 1 < i
      BY <2>1, <2>4
    <3>2. q[k + 1] < q[i]
      BY <1>1, <2>1, <3>1 DEF Sorted
    <3>3. QED
      BY <2>2, <3>2
  <2>5. QED
    BY <2>3, <2>4
<1>5. ASSUME NEW j \in 1..(l + 1)
      PROVE  \/ j \in 1..k /\ z[j] = q[j] /\ q[j] < n
             \/ j = k + 1 /\ z[j] = n
             \/ j - 1 \in (k + 1)..l /\ z[j] = q[j - 1] /\ q[j - 1] > n
  <2>1. CASE j <= k
    <3>1. j \in 1..k
      BY <2>1
    <3>2. QED
      BY <1>2, <3>1
  <2>2. CASE j = k + 1
    BY <1>2, <2>2
  <2>3. CASE j > k + 1
    <3>1. j - 1 \in (k + 1)..l /\ (j - 1) + 1 = j
      BY <1>1, <2>3
    <3>2. QED
      BY <1>2, <1>4, <3>1
  <2>4. QED
    BY <2>1, <2>2, <2>3
<1>6. ASSUME NEW i \in 1..(l + 1), NEW j \in 1..(l + 1), i < j PROVE z[i] < z[j]
  <2>1. CASE i \in 1..k
    <3>1. z[i] = q[i] /\ q[i] < n /\ i \in 1..l /\ q[i] \in Nat
      BY <1>1, <1>2, <2>1
    <3>2. CASE j \in 1..k
      <4>1. z[j] = q[j] /\ j \in 1..l
        BY <1>1, <1>2, <3>2
      <4>2. QED
        BY <1>1, <1>6, <3>1, <4>1 DEF Sorted
    <3>3. CASE j \notin 1..k
      <4>1. z[j] = n \/ (j - 1 \in (k + 1)..l /\ z[j] = q[j - 1] /\ q[j - 1] > n)
        BY <1>5, <3>3
      <4>2. j - 1 \in (k + 1)..l => q[j - 1] \in Nat
        BY <1>1
      <4>3. QED
        BY <3>1, <4>1, <4>2
    <3>4. QED
      BY <3>2, <3>3
  <2>2. CASE i = k + 1
    <3>1. j - 1 \in (k + 1)..l /\ z[j] = q[j - 1] /\ q[j - 1] > n
      BY <1>5, <1>6, <2>2
    <3>2. QED
      BY <1>2, <2>2, <3>1
  <2>3. CASE i > k + 1
    <3>1. /\ i - 1 \in (k + 1)..l /\ z[i] = q[i - 1]
          /\ j - 1 \in (k + 1)..l /\ z[j] = q[j - 1]
      BY <1>5, <1>6, <2>3
    <3>2. i - 1 \in 1..l /\ j - 1 \in 1..l /\ i - 1 < j - 1
      BY <1>1, <1>6, <3>1
    <3>3. QED
      BY <1>1, <3>1, <3>2 DEF Sorted
  <2>4. QED
    BY <2>1, <2>2, <2>3
<1>7. \A j \in 1..(l + 1) : z[j] = n \/ \E i \in 1..l : z[j] = q[i]
  <2>1. \A i \in (k + 1)..l : i \in 1..l
    BY <1>1
  <2>2. \A i \in 1..k : i \in 1..l
    BY <1>1
  <2>3. QED
    BY <1>5, <2>1, <2>2
<1>8. QED
  BY <1>1, <1>3, <1>6, <1>7 DEF Sorted, z

(* What is left when the first frame is gone comes after it. *)
LEMMA SortedTail ==
    ASSUME NEW q \in Seq(Nat), Sorted(q), q # <<>>
    PROVE  /\ Sorted(Tail(q)) /\ Head(q) = q[1] /\ 1 \in 1..Len(q)
           /\ \A i \in 1..Len(Tail(q)) :
                /\ Tail(q)[i] > Head(q)
                /\ \E j \in 1..Len(q) : Tail(q)[i] = q[j]
<1> DEFINE n == Len(Tail(q))
           z == Tail(q)
<1>1. /\ n \in Nat /\ n = Len(z) /\ Len(q) = n + 1 /\ Head(q) = q[1] /\ 1 \in 1..(n + 1)
      /\ \A i \in 1..n : z[i] = q[i + 1] /\ i + 1 \in 1..(n + 1) /\ 1 < i + 1
      /\ \A i \in 1..(n + 1) : q[i] \in Nat
  OBVIOUS
<1> HIDE DEF n, z
<1>2. ASSUME NEW i \in 1..n, NEW j \in 1..n, i < j PROVE z[i] < z[j]
  <2>1. i + 1 < j + 1
    BY <1>1, <1>2
  <2>2. QED
    BY <1>1, <2>1 DEF Sorted
<1>3. \A i \in 1..n : z[i] > Head(q)
  BY <1>1 DEF Sorted
<1>4. QED
  BY <1>1, <1>2, <1>3 DEF Sorted, z

LEMMA OrderedInit == Init => Ordered
BY DEF Init, Ordered, Sorted

LEMMA OrderedStep == TypeOK /\ Ordered /\ [Next]_vars => Ordered'
<1> SUFFICES ASSUME TypeOK, Ordered, [Next]_vars PROVE Ordered'
  OBVIOUS
<1>1. CASE Speak
  BY <1>1 DEF Speak, stream, TypeOK, Ordered
<1>2. ASSUME NEW n \in net, Lose(n) PROVE Ordered'
  BY <1>2 DEF Lose, stream, Ordered
<1>3. ASSUME NEW n \in net, Push(n) PROVE Ordered'
  <2> DEFINE q == Insert(jitter, n)
             Fine(i) == /\ q[i] > played \/ q[i] \in late'
                        /\ q[i] < sent /\ q[i] \notin net'
  <2>1. /\ jitter' = Capped(q) /\ net' = net \ {n} /\ sent' = sent /\ played' = played
        /\ late' = IF n < played THEN late \cup {n} ELSE late
    BY <1>3 DEF Push
  <2>2. n \in Nat /\ n < sent /\ n # played /\ played \in Int
    BY DEF Ordered, TypeOK
  <2>3. \A i \in 1..Len(jitter) : jitter[i] # n
    BY DEF Ordered
  <2>4. /\ q \in Seq(Nat) /\ Sorted(q) /\ Len(q) <= JitterCap + 1
        /\ \A j \in 1..Len(q) : q[j] = n \/ \E i \in 1..Len(jitter) : q[j] = jitter[i]
    <3>1. jitter \in Seq(Nat) /\ Sorted(jitter)
      BY DEF TypeOK, Ordered
    <3>2. q \in Seq(Nat) /\ Len(q) = Len(jitter) + 1
      BY <2>2, <3>1, InsertAfter
    <3>3. Len(q) <= JitterCap + 1
      BY <3>1, <3>2, Constants DEF TypeOK
    <3>4. QED
      BY <2>2, <2>3, <3>1, <3>2, <3>3, SortedInsert
  <2> HIDE DEF q
  <2>5. ASSUME NEW j \in 1..Len(q) PROVE Fine(j)
    <3>1. CASE q[j] = n
      BY <2>1, <2>2, <3>1
    <3>2. CASE \E i \in 1..Len(jitter) : q[j] = jitter[i]
      BY <2>1, <3>2 DEF Ordered
    <3>3. QED
      BY <2>4, <3>1, <3>2
  <2>6. /\ Sorted(jitter')
        /\ \A i \in 1..Len(jitter') : \E j \in 1..Len(q) : jitter'[i] = q[j]
    <3>1. CASE jitter' = q
      BY <2>4, <3>1
    <3>2. CASE jitter' = Tail(q) /\ q # <<>>
      BY <2>4, <3>2, SortedTail
    <3>3. QED
      BY <2>1, <2>4, <3>1, <3>2, CappedType
  <2>7. QED
    BY <2>1, <2>2, <2>5, <2>6 DEF Ordered
<1>4. CASE RemoveSpeaker
  BY <1>4 DEF RemoveSpeaker, link, Ordered, Sorted, TypeOK
<1>5. CASE Tick
  <2>1. sent' = sent /\ net' = net
    BY <1>5 DEF Tick
  <2>2. CASE jitter # <<>> /\ Play
    <3>1. /\ played' = jitter[1] /\ jitter' = Tail(jitter) /\ late' = late
          /\ 1 \in 1..Len(jitter) /\ Sorted(jitter')
          /\ \A i \in 1..Len(jitter') :
               jitter'[i] > played' /\ \E j \in 1..Len(jitter) : jitter'[i] = jitter[j]
      BY <2>2, SortedTail DEF Play, Ordered, TypeOK
    <3>2. played' < sent /\ played' \notin net
      BY <3>1 DEF Ordered
    <3>3. QED
      BY <2>1, <3>1, <3>2 DEF Ordered
  <2>3. CASE Starved \/ UNCHANGED stream
    BY <2>1, <2>3 DEF Starved, stream, Ordered
  <2>4. QED
    BY <1>5, <2>2, <2>3 DEF Tick
<1>6. CASE Restart
  BY <1>6 DEF Restart, RestartOnDevice, link, stream, Ordered
<1>7. CASE Open
  BY <1>7 DEF Open, OpenAndStart, link, stream, Ordered
<1>8. CASE UNCHANGED vars
  BY <1>8 DEF vars, link, stream, Ordered
<1>9. QED
  BY <1>1, <1>2, <1>3, <1>4, <1>5, <1>6, <1>7, <1>8 DEF Next

(* A frame is played after a later one only when it arrived after that one *)
(* had been played, in whatever order the network delivers.                *)
THEOREM BufferReorders == Spec => PlayoutInOrder
<1> DEFINE A == played' # played => played' > played \/ played' \in late \/ played' = -1
<1>1. TypeOK /\ Ordered /\ [Next]_vars => [A]_vars
  <2> SUFFICES ASSUME TypeOK, Ordered, Next, played' # played
               PROVE  played' > played \/ played' \in late \/ played' = -1
    OBVIOUS
  <2>1. CASE Tick
    <3>1. jitter # <<>> /\ played' = Head(jitter)
      BY <2>1 DEF Tick, Play, Starved, stream
    <3>2. played' = jitter[1] /\ 1 \in 1..Len(jitter)
      BY <3>1, SortedTail DEF Ordered, TypeOK
    <3>3. QED
      BY <3>2 DEF Ordered
  <2>2. CASE RemoveSpeaker
    BY <2>2 DEF RemoveSpeaker
  <2>3. CASE Speak \/ Restart \/ Open \/ (\E n \in net : Lose(n) \/ Push(n))
    BY <2>3 DEF Speak, Restart, RestartOnDevice, Open, OpenAndStart, Lose, Push, stream
  <2>4. QED
    BY <2>1, <2>2, <2>3 DEF Next
<1> HIDE DEF A
<1>2. Spec => [][A]_vars
  BY <1>1, TypeInit, TypeStep, OrderedInit, OrderedStep, PTL DEF Spec
<1>3. QED
  BY <1>2 DEF A, PlayoutInOrder

-----------------------------------------------------------------------------
(* PlayoutPromise: the buffer as the set of the frames that wait *)

LEMMA InsertRange ==
    ASSUME NEW q \in Seq(Nat), NEW n \in Nat
    PROVE  Range(Insert(q, n)) = Range(q) \cup {n}
<1> DEFINE l == Len(q)
           z == Insert(q, n)
<1>1. PICK k \in 0..l :
        /\ \A i \in 1..k : z[i] = q[i]
        /\ z[k + 1] = n
        /\ \A i \in (k + 1)..l : z[i + 1] = q[i]
  BY InsertAfter
<1>2. l \in Nat /\ DOMAIN z = 1..(l + 1) /\ DOMAIN q = 1..l
  <2>1. z \in Seq(Nat) /\ Len(z) = l + 1
    BY InsertAfter
  <2>2. DOMAIN z = 1..Len(z)
    <3> HIDE DEF z
    <3>1. QED
      BY <2>1
  <2>3. QED
    BY <2>1, <2>2
<1> HIDE DEF l, z
<1>3. ASSUME NEW j \in 1..(l + 1) PROVE z[j] = n \/ \E i \in 1..l : z[j] = q[i]
  <2>1. CASE j <= k
    BY <1>1, <1>2, <2>1
  <2>2. CASE j = k + 1
    BY <1>1, <2>2
  <2>3. CASE j > k + 1
    <3>1. j - 1 \in (k + 1)..l /\ j - 1 \in 1..l /\ (j - 1) + 1 = j
      BY <1>2, <2>3
    <3>2. QED
      BY <1>1, <3>1
  <2>4. QED
    BY <2>1, <2>2, <2>3
<1>4. ASSUME NEW i \in 1..l PROVE \E j \in 1..(l + 1) : z[j] = q[i]
  <2>1. CASE i <= k
    <3>1. i \in 1..k /\ i \in 1..(l + 1)
      BY <1>2, <2>1
    <3>2. QED
      BY <1>1, <3>1
  <2>2. CASE i > k
    <3>1. i \in (k + 1)..l /\ i + 1 \in 1..(l + 1)
      BY <1>2, <2>2
    <3>2. QED
      BY <1>1, <3>1
  <2>3. QED
    BY <2>1, <2>2
<1>5. k + 1 \in 1..(l + 1)
  BY <1>2
<1>6. Range(z) \subseteq Range(q) \cup {n}
  BY <1>2, <1>3 DEF Range
<1>7. Range(q) \cup {n} \subseteq Range(z)
  <2>1. n \in Range(z)
    BY <1>1, <1>2, <1>5 DEF Range
  <2>2. ASSUME NEW i \in 1..l PROVE q[i] \in Range(z)
    <3>1. PICK j \in 1..(l + 1) : z[j] = q[i]
      BY <1>4
    <3>2. QED
      BY <1>2, <3>1 DEF Range
  <2>3. Range(q) \subseteq Range(z)
    BY <1>2, <2>2 DEF Range
  <2>4. QED
    BY <2>1, <2>3
<1>8. QED
  BY <1>6, <1>7 DEF z

(* The front of a sorted buffer is its earliest frame, and the rest of the *)
(* buffer is all the others.                                               *)
LEMMA FrontIsEarliest ==
    ASSUME NEW q \in Seq(Nat), Sorted(q), q # <<>>
    PROVE  /\ Range(q) # {} /\ Head(q) = Promise!Earliest(Range(q))
           /\ Range(Tail(q)) = Range(q) \ {Head(q)}
<1> DEFINE n == Len(Tail(q))
           z == Tail(q)
           h == Head(q)
<1>1. /\ n \in Nat /\ DOMAIN z = 1..n /\ DOMAIN q = 1..(n + 1) /\ h = q[1]
      /\ \A i \in 1..n : z[i] = q[i + 1] /\ i + 1 \in 1..(n + 1)
      /\ \A i \in 1..(n + 1) : q[i] \in Nat
      /\ Len(q) = n + 1
  OBVIOUS
<1> HIDE DEF n, z, h
<1>2. \A i \in 1..(n + 1) : i # 1 => h < q[i]
  BY <1>1 DEF Sorted
<1>3. h \in Range(q) /\ \A m \in Range(q) : h <= m /\ m \in Nat
  BY <1>1, <1>2 DEF Range
<1>4. h = Promise!Earliest(Range(q))
  <2>1. ASSUME NEW x \in Range(q), \A m \in Range(q) : x <= m PROVE x = h
    BY <1>3, <2>1
  <2>2. QED
    BY <1>3, <2>1 DEF Promise!Earliest
<1>5. Range(z) \subseteq Range(q) \ {h}
  <2>1. ASSUME NEW i \in 1..n PROVE z[i] \in Range(q) /\ z[i] # h
    <3>1. z[i] = q[i + 1] /\ i + 1 \in 1..(n + 1) /\ i + 1 # 1
      BY <1>1
    <3>2. h < q[i + 1] /\ q[i + 1] \in Nat /\ h \in Nat
      BY <1>1, <1>2, <3>1
    <3>3. q[i + 1] \in Range(q)
      BY <1>1, <3>1 DEF Range
    <3>4. QED
      BY <3>1, <3>2, <3>3
  <2>2. QED
    BY <1>1, <2>1 DEF Range
<1>6. Range(q) \ {h} \subseteq Range(z)
  <2>1. ASSUME NEW i \in 1..(n + 1), q[i] # h PROVE q[i] \in Range(z)
    <3>1. i - 1 \in 1..n /\ (i - 1) + 1 = i
      BY <1>1, <2>1
    <3>2. z[i - 1] = q[i]
      BY <1>1, <3>1
    <3>3. QED
      BY <1>1, <3>1, <3>2 DEF Range
  <2>2. QED
    BY <1>1, <2>1 DEF Range
<1>7. QED
  BY <1>3, <1>4, <1>5, <1>6 DEF h, z

(* No frame is in a sorted buffer twice. *)
LEMMA SortedCard ==
    ASSUME NEW q \in Seq(Nat), Sorted(q)
    PROVE  Cardinality(Range(q)) = Len(q)
<1> DEFINE n == Len(q)
<1>1. n \in Nat /\ q \in [1..n -> Nat]
  OBVIOUS
<1>2. q \in Bijection(1..n, Range(q))
  <2>1. \A i, j \in 1..n : q[i] = q[j] => i = j
    BY <1>1 DEF Sorted
  <2>2. q \in [1..n -> Range(q)] /\ \A t \in Range(q) : \E s \in 1..n : q[s] = t
    BY <1>1 DEF Range
  <2>3. QED
    BY <2>1, <2>2 DEF Bijection, Injection, Surjection, IsInjective
<1>3. IsFiniteSet(1..n) /\ Cardinality(1..n) = n
  <2> HIDE DEF n
  <2>1. n \in Int /\ 1 \in Int /\ (IF 1 > n THEN 0 ELSE n - 1 + 1) = n
    BY <1>1
  <2>2. QED
    BY <2>1, FS_Interval
<1>4. QED
  BY <1>2, <1>3, FS_Bijection DEF ExistsBijection

LEMMA PushMaps ==
    ASSUME TypeOK, Ordered, NEW n \in net, Push(n)
    PROVE  Promise!Arrive(n)
<1> DEFINE q == Insert(jitter, n)
           all == waitingBar \cup {n}
<1>1. n \in Nat /\ jitter \in Seq(Nat) /\ Sorted(jitter) /\ \A i \in 1..Len(jitter) : jitter[i] # n
  BY DEF TypeOK, Ordered
<1>2. q \in Seq(Nat) /\ Sorted(q) /\ Len(q) = Len(jitter) + 1 /\ q # <<>>
  <2>1. q \in Seq(Nat) /\ Len(q) = Len(jitter) + 1
    BY <1>1, InsertAfter
  <2>2. Sorted(q)
    BY <1>1, SortedInsert
  <2>3. q # <<>>
    <3> HIDE DEF q
    <3>1. Len(jitter) \in Nat
      BY <1>1
    <3>2. QED
      BY <2>1, <3>1
  <2>4. QED
    BY <2>1, <2>2, <2>3
<1>3. Range(q) = all
  BY <1>1, InsertRange DEF waitingBar
<1>4. jitter' = Capped(q)
  BY DEF Push
<1>5. Cardinality(waitingBar) = Len(jitter)
  BY <1>1, SortedCard DEF waitingBar
<1> HIDE DEF q
<1>6. waitingBar' = IF Cardinality(waitingBar) < JitterCap
                    THEN all ELSE all \ {Promise!Earliest(all)}
  <2>1. CASE Len(q) > JitterCap
    <3>1. jitter' = Tail(q)
      BY <1>4, <2>1 DEF Capped
    <3>2. Range(Tail(q)) = all \ {Promise!Earliest(all)}
      BY <1>2, <1>3, FrontIsEarliest
    <3>3. ~(Len(jitter) < JitterCap)
      BY <1>1, <1>2, <2>1, Constants
    <3>4. QED
      BY <1>5, <3>1, <3>2, <3>3 DEF waitingBar
  <2>2. CASE ~(Len(q) > JitterCap)
    <3>1. jitter' = q
      BY <1>4, <2>2 DEF Capped
    <3>2. Len(jitter) < JitterCap
      BY <1>1, <1>2, <2>2, Constants
    <3>3. QED
      BY <1>3, <1>5, <3>1, <3>2 DEF waitingBar
  <2>3. QED
    BY <2>1, <2>2
<1>7. net' = net \ {n} /\ sent' = sent /\ played' = played
  BY DEF Push
<1>8. Promise!Cardinality(waitingBar) = Cardinality(waitingBar)
  BY DEF Promise!Cardinality, Cardinality
<1>9. QED
  BY <1>6, <1>7, <1>8 DEF Promise!Arrive

LEMMA PlayMaps ==
    ASSUME TypeOK, Ordered, jitter # <<>>, Play, UNCHANGED <<sent, net>>
    PROVE  Promise!Play
<1>1. played' = Head(jitter) /\ jitter' = Tail(jitter)
  BY DEF Play
<1>2. /\ waitingBar # {} /\ Head(jitter) = Promise!Earliest(waitingBar)
      /\ Range(Tail(jitter)) = waitingBar \ {Head(jitter)}
  BY FrontIsEarliest DEF TypeOK, Ordered, waitingBar
<1>3. waitingBar' = waitingBar \ {played'}
  BY <1>1, <1>2 DEF waitingBar
<1>4. QED
  BY <1>1, <1>2, <1>3 DEF Promise!Play

LEMMA PromiseStep == TypeOK /\ Ordered /\ [Next]_vars => [Promise!Next]_(Promise!vars)
<1> SUFFICES ASSUME TypeOK, Ordered, [Next]_vars
             PROVE  Promise!Next \/ UNCHANGED Promise!vars
  OBVIOUS
<1>1. CASE Speak
  BY <1>1 DEF Speak, stream, waitingBar, Promise!Next, Promise!Speak
<1>2. ASSUME NEW n \in net, Lose(n) PROVE Promise!Next
  BY <1>2 DEF Lose, stream, waitingBar, Promise!Next, Promise!Lose
<1>3. ASSUME NEW n \in net, Push(n) PROVE Promise!Next
  BY <1>3, PushMaps DEF Promise!Next
<1>4. CASE RemoveSpeaker
  <2>1. waitingBar' = {}
    BY <1>4 DEF RemoveSpeaker, waitingBar, Range
  <2>2. QED
    BY <1>4, <2>1 DEF RemoveSpeaker, link, Promise!Next, Promise!Forget
<1>5. CASE Tick
  <2>1. CASE jitter # <<>> /\ Play
    BY <1>5, <2>1, PlayMaps DEF Tick, Promise!Next
  <2>2. CASE Starved \/ UNCHANGED stream
    BY <1>5, <2>2 DEF Tick, Starved, stream, waitingBar, Promise!vars
  <2>3. QED
    BY <1>5, <2>1, <2>2 DEF Tick
<1>6. CASE Restart
  BY <1>6 DEF Restart, RestartOnDevice, link, stream, waitingBar, Promise!vars
<1>7. CASE Open
  BY <1>7 DEF Open, OpenAndStart, link, stream, waitingBar, Promise!vars
<1>8. CASE UNCHANGED vars
  BY <1>8 DEF vars, link, stream, waitingBar, Promise!vars
<1>9. QED
  BY <1>1, <1>2, <1>3, <1>4, <1>5, <1>6, <1>7, <1>8 DEF Next

(* The jitter buffer implements PlayoutSpec, a priority queue, for any     *)
(* depths, any cap and any number of frames: sorted insertion, playing     *)
(* from the front and the cap together are what they are meant to be.      *)
THEOREM BufferImplements == Spec => PlayoutPromise
<1>1. Init => TypeOK /\ Ordered /\ Promise!Init
  <2>1. Init => Promise!Init
    BY DEF Init, waitingBar, Range, Promise!Init
  <2>2. QED
    BY <2>1, TypeInit, OrderedInit
<1>2. TypeOK /\ Ordered /\ [Next]_vars => (TypeOK /\ Ordered)'
  BY TypeStep, OrderedStep
<1>3. QED
  BY <1>1, <1>2, PromiseStep, PTL DEF Spec, PlayoutPromise, Promise!Spec
=============================================================================
