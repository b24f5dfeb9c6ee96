--------------------------- MODULE WatchdogProofs ----------------------------
(***************************************************************************)
(* Theorems about the watchdog, for any delays, limits and lifetimes.      *)
(***************************************************************************)
EXTENDS Watchdog, InductionLemmas

-----------------------------------------------------------------------------
(* RestartPolicy *)

(* The backoff stays between the base delay and the cap. *)
LEMMA BackoffBounds ==
    ASSUME NEW n \in Nat
    PROVE  Backoff(n) \in Nat /\ BaseDelay <= Backoff(n) /\ Backoff(n) <= MaxDelay
<1> DEFINE d == CHOOSE f : f = [i \in 0..n |->
                   IF i <= 1 THEN BaseDelay
                   ELSE IF f[i - 1] < MaxDelay THEN 2 * f[i - 1] ELSE f[i - 1]]
           N == Nat
           step == [i \in 1..n |-> [v \in N |->
                   IF i <= 1 THEN BaseDelay ELSE IF v < MaxDelay THEN 2 * v ELSE v]]
           T == {i \in 0..n : d[i] \in Nat /\ BaseDelay <= d[i]}
<1>1. d = [i \in 0..n |-> IF i <= 1 THEN BaseDelay
                          ELSE IF d[i - 1] < MaxDelay THEN 2 * d[i - 1] ELSE d[i - 1]]
  <2>1. step \in [1..n -> [N -> N]] /\ BaseDelay \in N
    BY Constants
  <2>2. PICK f : Unfolds(f, BaseDelay, step, n, N)
    <3> HIDE DEF step, N
    <3>1. QED
      BY <2>1, Recursion
  <2>3. ASSUME NEW i \in 1..n
        PROVE  f[i] = IF i <= 1 THEN BaseDelay
                      ELSE IF f[i - 1] < MaxDelay THEN 2 * f[i - 1] ELSE f[i - 1]
    BY <2>2 DEF Unfolds
  <2>4. f = [i \in 0..n |-> IF i <= 1 THEN BaseDelay
                            ELSE IF f[i - 1] < MaxDelay THEN 2 * f[i - 1] ELSE f[i - 1]]
    <3>1. \A i \in 0..n : i = 0 \/ i \in 1..n
      OBVIOUS
    <3> HIDE DEF step, N
    <3>2. QED
      BY <2>2, <2>3, <3>1 DEF Unfolds
  <2>5. QED
    BY <2>4
<1>2. Doubled(n) = d[n]
  BY DEF Doubled
<1> HIDE DEF d
<1>3. 0 \in T
  BY <1>1, Constants
<1>4. ASSUME NEW i \in 1..n, i - 1 \in T PROVE i \in T
  <2>1. d[i] = IF i <= 1 THEN BaseDelay
               ELSE IF d[i - 1] < MaxDelay THEN 2 * d[i - 1] ELSE d[i - 1]
    BY <1>1
  <2>2. QED
    BY <1>4, <2>1, Constants
<1>5. n \in T
  <2> HIDE DEF T
  <2>1. QED
    BY <1>3, <1>4, UpTo
<1>6. QED
  BY <1>2, <1>5, Constants DEF Backoff

(* A list of crash ages, oldest first, in which the i-th last is at least  *)
(* lag + i - 1 healthy lives old.                                          *)
Spaced(cs, lag) == \A i \in 1..Len(cs) : cs[i] >= (Len(cs) - i + lag) * HealthyAfter

(* pruneWindow keeps crashes of the window only, what it keeps is spaced   *)
(* as the list was, and a last crash of the window stays the last.         *)
LEMMA PrunedKeeps ==
    ASSUME NEW cs \in Seq(Nat)
    PROVE  /\ Pruned(cs) \in Seq(Nat)
           /\ \A j \in 1..Len(Pruned(cs)) : Pruned(cs)[j] <= Window
           /\ Spaced(cs, 0) => Spaced(Pruned(cs), 0)
           /\ Len(cs) > 0 /\ cs[Len(cs)] <= Window =>
                Len(Pruned(cs)) > 0 /\ Pruned(cs)[Len(Pruned(cs))] = cs[Len(cs)]
<1> DEFINE n == Len(cs)
           keep == CHOOSE f : f = [i \in 0..n |->
                     IF i = 0 THEN <<>>
                     ELSE IF cs[i] <= Window THEN Append(f[i - 1], cs[i]) ELSE f[i - 1]]
           S == Seq(Nat)
           step == [i \in 1..n |-> [q \in S |->
                     IF cs[i] <= Window THEN Append(q, cs[i]) ELSE q]]
           T == {i \in 0..n :
                   /\ keep[i] \in Seq(Nat)
                   /\ \A j \in 1..Len(keep[i]) : keep[i][j] <= Window
                   /\ Spaced(cs, 0) => Spaced(keep[i], n - i)}
<1>0. n \in Nat /\ n = Len(cs) /\ \A i \in 1..n : cs[i] \in Nat
  OBVIOUS
<1> HIDE DEF n
<1>1. keep = [i \in 0..n |->
                IF i = 0 THEN <<>>
                ELSE IF cs[i] <= Window THEN Append(keep[i - 1], cs[i]) ELSE keep[i - 1]]
  <2>1. step \in [1..n -> [S -> S]] /\ <<>> \in S
    BY <1>0
  <2>2. PICK f : Unfolds(f, <<>>, step, n, S)
    <3> HIDE DEF step, S
    <3>1. QED
      BY <1>0, <2>1, Recursion
  <2>3. ASSUME NEW i \in 1..n
        PROVE  f[i] = IF cs[i] <= Window THEN Append(f[i - 1], cs[i]) ELSE f[i - 1]
    <3> HIDE DEF S
    <3>1. QED
      BY <2>2 DEF Unfolds
  <2>4. f = [i \in 0..n |->
               IF i = 0 THEN <<>>
               ELSE IF cs[i] <= Window THEN Append(f[i - 1], cs[i]) ELSE f[i - 1]]
    <3>1. \A i \in 0..n : i = 0 \/ i \in 1..n
      BY <1>0
    <3> HIDE DEF step, S
    <3>2. QED
      BY <2>2, <2>3, <3>1 DEF Unfolds
  <2>5. QED
    BY <2>4
<1>2. Pruned(cs) = keep[n]
  BY <1>0 DEF Pruned
<1> HIDE DEF keep
<1>3. 0 \in T
  BY <1>0, <1>1 DEF Spaced
<1>4. ASSUME NEW i \in 1..n, i - 1 \in T PROVE i \in T
  <2> DEFINE q == keep[i - 1]
             H == HealthyAfter
  <2>1. keep[i] = IF cs[i] <= Window THEN Append(q, cs[i]) ELSE q
    <3>1. i \in 0..n /\ i # 0
      BY <1>0
    <3>2. QED
      BY <1>1, <3>1
  <2>2. /\ q \in Seq(Nat) /\ cs[i] \in Nat /\ n - i \in Nat
        /\ \A j \in 1..Len(q) : q[j] \in Nat /\ q[j] <= Window
        /\ Spaced(cs, 0) => Spaced(q, n - i + 1)
    <3>1. n - (i - 1) = n - i + 1 /\ n - i \in Nat /\ i - 1 \in 0..n
      BY <1>0
    <3>2. QED
      BY <1>0, <1>4, <3>1
  <2>3. ASSUME NEW a \in Nat PROVE (a + 1) * H = a * H + H /\ a * H \in Nat
    BY Constants
  <2> HIDE DEF q
  <2>4. ASSUME Spaced(cs, 0) PROVE Spaced(keep[i], n - i)
    <3>1. cs[i] >= (n - i) * H
      <4>1. cs[i] >= (n - i + 0) * H
        BY <1>0, <2>4 DEF Spaced
      <4>2. n - i + 0 = n - i
        BY <1>0
      <4>3. QED
        BY <4>1, <4>2
    <3>2. \A j \in 1..Len(q) : q[j] >= (Len(q) - j + (n - i + 1)) * H
      BY <2>2, <2>4 DEF Spaced
    <3>3. CASE cs[i] <= Window
      <4>1. /\ keep[i] = Append(q, cs[i]) /\ Len(keep[i]) = Len(q) + 1
            /\ \A j \in 1..Len(q) : keep[i][j] = q[j]
            /\ keep[i][Len(q) + 1] = cs[i]
        BY <2>1, <2>2, <3>3
      <4>2. ASSUME NEW j \in 1..Len(keep[i])
            PROVE  keep[i][j] >= (Len(keep[i]) - j + (n - i)) * H
        <5>1. CASE j = Len(q) + 1
          BY <2>2, <3>1, <4>1, <5>1
        <5>2. CASE j # Len(q) + 1
          <6>1. j \in 1..Len(q) /\ Len(keep[i]) - j + (n - i) = Len(q) - j + (n - i + 1)
            BY <2>2, <4>1, <5>2
          <6>2. QED
            BY <3>2, <4>1, <6>1
        <5>3. QED
          BY <5>1, <5>2
      <4>3. QED
        BY <4>2 DEF Spaced
    <3>4. CASE ~(cs[i] <= Window)
      <4>1. keep[i] = q
        BY <2>1, <3>4
      <4>2. ASSUME NEW j \in 1..Len(q) PROVE q[j] >= (Len(q) - j + (n - i)) * H
        <5>1. Len(q) - j + (n - i) \in Nat
          BY <2>2
        <5>2. q[j] >= (Len(q) - j + (n - i) + 1) * H
          <6>1. Len(q) - j + (n - i) + 1 = Len(q) - j + (n - i + 1)
            BY <2>2
          <6>2. QED
            BY <3>2, <6>1
        <5> DEFINE a == Len(q) - j + (n - i)
        <5>3. (a + 1) * H = a * H + H /\ a * H \in Nat /\ H \in Nat /\ q[j] \in Nat
          BY <2>2, <2>3, <5>1, Constants
        <5> HIDE DEF a, H
        <5>4. q[j] >= a * H
          BY <5>2, <5>3 DEF a
        <5>5. QED
          BY <5>4 DEF a
      <4>3. QED
        BY <4>1, <4>2 DEF Spaced
    <3>5. QED
      BY <3>3, <3>4
  <2>5. keep[i] \in Seq(Nat) /\ \A j \in 1..Len(keep[i]) : keep[i][j] <= Window
    <3>1. CASE cs[i] <= Window
      BY <2>1, <2>2, <3>1
    <3>2. CASE ~(cs[i] <= Window)
      BY <2>1, <2>2, <3>2
    <3>3. QED
      BY <3>1, <3>2
  <2>6. QED
    BY <2>4, <2>5
<1>5. n \in T
  <2>1. n \in Nat
    BY <1>0
  <2> HIDE DEF T
  <2>2. \A i \in 0..n : i \in T
    BY <1>3, <1>4, <2>1, UpTo
  <2>3. QED
    BY <2>1, <2>2
<1>6. ASSUME n > 0, cs[n] <= Window
      PROVE  Len(keep[n]) > 0 /\ keep[n][Len(keep[n])] = cs[n]
  <2>1. n \in 0..n /\ n # 0 /\ n - 1 \in 0..n /\ n \in 1..n
    BY <1>0, <1>6
  <2>2. keep[n] = Append(keep[n - 1], cs[n])
    BY <1>1, <1>6, <2>1
  <2>3. keep[n - 1] \in Seq(Nat) /\ cs[n] \in Nat
    <3>1. \A i \in 0..n : i \in T
      <4> HIDE DEF T
      <4>1. QED
        BY <1>0, <1>3, <1>4, UpTo
    <3>2. QED
      BY <1>0, <2>1, <3>1
  <2>4. QED
    BY <2>2, <2>3
<1>7. QED
  BY <1>0, <1>2, <1>5, <1>6

(* Time that passes moves crashes apart from the present only. *)
LEMMA AgedSpaced ==
    ASSUME NEW cs \in Seq(Nat), NEW d \in Nat, NEW lag \in Nat, Spaced(cs, lag)
    PROVE  /\ Aged(cs, d) \in Seq(Nat) /\ Spaced(Aged(cs, d), lag)
           /\ lag = 0 /\ d >= HealthyAfter => Spaced(Aged(cs, d), 1)
<1>1. Aged(cs, d) \in Seq(Nat) /\ Len(Aged(cs, d)) = Len(cs)
  BY DEF Aged
<1>2. \A i \in 1..Len(cs) : Aged(cs, d)[i] = cs[i] + d /\ cs[i] \in Nat
  BY DEF Aged
<1>3. ASSUME NEW k \in Nat, NEW i \in 1..Len(cs)
      PROVE  /\ (Len(cs) - i + k) * HealthyAfter \in Nat
             /\ (Len(cs) - i + 1) * HealthyAfter = (Len(cs) - i + 0) * HealthyAfter + HealthyAfter
  <2> DEFINE a == Len(cs) - i
  <2>1. a \in Nat /\ a + k \in Nat
    OBVIOUS
  <2>2. ASSUME NEW b \in Nat
        PROVE  /\ b * HealthyAfter \in Nat
               /\ (b + 1) * HealthyAfter = (b + 0) * HealthyAfter + HealthyAfter
    BY Constants
  <2> HIDE DEF a
  <2>3. (a + k) * HealthyAfter \in Nat
    BY <2>1, <2>2
  <2>4. (a + 1) * HealthyAfter = (a + 0) * HealthyAfter + HealthyAfter
    BY <2>1, <2>2
  <2>5. QED
    BY <2>3, <2>4 DEF a
<1>4. Spaced(Aged(cs, d), lag)
  <2>1. ASSUME NEW i \in 1..Len(cs)
        PROVE  Aged(cs, d)[i] >= (Len(cs) - i + lag) * HealthyAfter
    <3>1. cs[i] >= (Len(cs) - i + lag) * HealthyAfter
      BY DEF Spaced
    <3>2. (Len(cs) - i + lag) * HealthyAfter \in Nat
      BY <1>3
    <3>3. QED
      BY <1>2, <3>1, <3>2
  <2>2. QED
    BY <1>1, <2>1 DEF Spaced
<1>5. ASSUME lag = 0, d >= HealthyAfter PROVE Spaced(Aged(cs, d), 1)
  <2>1. ASSUME NEW i \in 1..Len(cs)
        PROVE  Aged(cs, d)[i] >= (Len(cs) - i + 1) * HealthyAfter
    <3>1. cs[i] >= (Len(cs) - i + 0) * HealthyAfter
      BY <1>5 DEF Spaced
    <3>2. (Len(cs) - i + 0) * HealthyAfter \in Nat
      BY <1>3
    <3>3. QED
      BY <1>2, <1>3, <1>5, <3>1, <3>2, Constants
  <2>2. QED
    BY <1>1, <2>1 DEF Spaced
<1>6. QED
  BY <1>1, <1>4, <1>5

(* What decide is left with after a healthy life: the list with the new    *)
(* crash, pruned, is never too long.                                       *)
LEMMA NeverTooMany ==
    ASSUME NEW cs \in Seq(Nat), Spaced(cs, 1)
    PROVE  LET now == Pruned(Append(cs, 0))
           IN  now \in Seq(Nat) /\ Spaced(now, 0) /\ ~TooMany(now)
<1> DEFINE all == Append(cs, 0)
           now == Pruned(all)
           n == Len(now)
<1>1. /\ all \in Seq(Nat) /\ Len(all) = Len(cs) + 1
      /\ \A i \in 1..Len(cs) : all[i] = cs[i]
      /\ all[Len(cs) + 1] = 0
  OBVIOUS
<1>2. Spaced(all, 0)
  <2>1. ASSUME NEW i \in 1..Len(all) PROVE all[i] >= (Len(all) - i + 0) * HealthyAfter
    <3>1. CASE i = Len(cs) + 1
      BY <1>1, <3>1, Constants
    <3>2. CASE i # Len(cs) + 1
      <4>1. i \in 1..Len(cs) /\ Len(all) - i + 0 = Len(cs) - i + 1
        BY <1>1, <3>2
      <4>2. cs[i] >= (Len(cs) - i + 1) * HealthyAfter
        BY <4>1 DEF Spaced
      <4>3. QED
        BY <1>1, <4>1, <4>2
    <3>3. QED
      BY <3>1, <3>2
  <2>2. QED
    BY <2>1 DEF Spaced
<1> HIDE DEF all
<1>3. now \in Seq(Nat) /\ Spaced(now, 0) /\ \A j \in 1..n : now[j] <= Window
  BY <1>1, <1>2, PrunedKeeps
<1>4. ~TooMany(now)
  <2>1. SUFFICES ASSUME n > MaxInWindow PROVE FALSE
    BY DEF TooMany
  <2> HIDE DEF now
  <2>2. n \in Nat /\ MaxInWindow \in Nat /\ 1 \in 1..n /\ now[1] \in Nat
    BY <1>3, <2>1, Constants
  <2>3. now[1] >= (n - 1 + 0) * HealthyAfter /\ now[1] <= Window
    BY <1>3, <2>2 DEF Spaced
  <2>4. (n - 1 + 0) * HealthyAfter >= MaxInWindow * HealthyAfter
    <3>1. \A a, b, c \in Nat : a >= b => a * c >= b * c
      <4>1. \A b, c, e \in Nat : (b + e) * c = b * c + e * c /\ e * c \in Nat /\ b * c \in Nat
        OBVIOUS
      <4>2. \A a, b \in Nat : a >= b => a - b \in Nat /\ a = b + (a - b)
        OBVIOUS
      <4>3. QED
        BY <4>1, <4>2
    <3>2. n - 1 + 0 \in Nat /\ n - 1 + 0 >= MaxInWindow
      BY <2>1, <2>2
    <3>3. QED
      BY <2>2, <3>1, <3>2, Constants
  <2>5. (n - 1 + 0) * HealthyAfter \in Int /\ MaxInWindow * HealthyAfter \in Int
    BY <2>2, Constants
  <2>6. QED
    BY <2>2, <2>3, <2>4, <2>5, WindowAssumption, Constants
<1>5. QED
  BY <1>3, <1>4 DEF all

-----------------------------------------------------------------------------
(* The inductive invariant *)

TypeOK ==
    /\ alive \in BOOLEAN /\ run \in BOOLEAN /\ gaveUp \in BOOLEAN /\ steady \in BOOLEAN
    /\ pc \in {"poll", "backoff", "spawn", "ended"}
    /\ killer \in {"no", "joining", "done"}
    /\ crashes \in Seq(Nat) /\ consecutive \in Nat /\ spawnAge \in Nat
    /\ phase \in {"healthy", "brief", "long"}

(* Once the flag is cleared it stays so, and the process is ended after    *)
(* the thread.                                                             *)
Killing ==
    /\ killer # "no" => ~run
    /\ killer = "done" => pc = "ended" /\ ~alive

(* While every relay was spawned and lived HealthyAfter, that long has     *)
(* passed between any two crashes, and since the last one when the relay   *)
(* is found dead.                                                          *)
Healthy ==
    steady =>
        /\ ~gaveUp /\ Spaced(crashes, 0)
        /\ pc = "poll" /\ run /\ ~alive => Spaced(crashes, 1)

IInv == TypeOK /\ Killing /\ Healthy

LEMMA IInvInit == Init => IInv
<1> SUFFICES ASSUME Init PROVE IInv
  OBVIOUS
<1>1. TypeOK
  <2>1. alive \in BOOLEAN /\ run \in BOOLEAN /\ gaveUp \in BOOLEAN /\ steady \in BOOLEAN
    BY Zenon DEF Init
  <2>2. /\ pc \in {"poll", "backoff", "spawn", "ended"} /\ killer \in {"no", "joining", "done"}
        /\ crashes \in Seq(Nat) /\ consecutive \in Nat /\ spawnAge \in Nat
        /\ phase \in {"healthy", "brief", "long"}
    BY DEF Init
  <2>3. QED
    BY <2>1, <2>2 DEF TypeOK
<1>2. Killing
  BY DEF Init, Killing
<1>3. Spaced(crashes, 0)
  BY DEF Init, Spaced
<1>4. Healthy
  BY <1>3 DEF Init, Healthy
<1>5. QED
  BY <1>1, <1>2, <1>4 DEF IInv

(* Counting a crash. *)
LEMMA SaturatedNat ==
    ASSUME NEW n \in Nat \ {0}
    PROVE  Saturated(n) \in Nat
BY DEF Saturated

LEMMA DetectStep ==
    ASSUME IInv, NEW delay \in Delays, Detect(delay)
    PROVE  IInv'
<1> DEFINE aged == Aged(crashes, delay)
           now == Pruned(Append(aged, 0))
<1> USE DEF IInv, TypeOK
<1>1. delay \in Nat /\ SpawnAged(delay) \in Nat
  BY Constants DEF SpawnAged
<1>2. crashes' = now /\ gaveUp' = TooMany(now) /\ alive' = alive /\ run' = run
      /\ killer' = killer /\ steady' = steady /\ phase' = phase
  BY DEF Detect, lives
<1>3. now \in Seq(Nat) /\ TooMany(now) \in BOOLEAN
  <2>1. Append(aged, 0) \in Seq(Nat)
    BY <1>1 DEF Aged
  <2>2. now \in Seq(Nat)
    BY <2>1, PrunedKeeps
  <2>3. QED
    BY <2>2 DEF TooMany
<1>4. ASSUME steady PROVE Spaced(now, 0) /\ ~TooMany(now)
  <2>1. Spaced(crashes, 1)
    BY <1>4 DEF Detect, Healthy
  <2>2. aged \in Seq(Nat) /\ Spaced(aged, 1)
    BY <1>1, <2>1, AgedSpaced
  <2> HIDE DEF aged
  <2>3. QED
    BY <2>2, NeverTooMany
<1>5. consecutive' \in Nat
  BY SaturatedNat DEF Detect
<1> HIDE DEF now
<1>6. pc' \in {"poll", "backoff"} /\ (pc' = "poll" => gaveUp') /\ spawnAge' \in Nat /\ run
      /\ pc = "poll"
  BY <1>1 DEF Detect
<1>7. TypeOK'
  BY <1>2, <1>3, <1>5, <1>6
<1>8. Killing'
  BY <1>2, <1>6 DEF Killing
<1>9. Healthy'
  BY <1>2, <1>4, <1>6 DEF Healthy
<1>10. QED
  BY <1>7, <1>8, <1>9

LEMMA IInvStep == IInv /\ [Next]_vars => IInv'
<1> SUFFICES ASSUME IInv, [Next]_vars PROVE IInv'
  OBVIOUS
<1> USE DEF IInv, TypeOK, Killing, Healthy
<1>1. ASSUME NEW d \in Nat
      PROVE  /\ SpawnAged(d) \in Nat /\ Aged(crashes, d) \in Seq(Nat)
             /\ Spaced(crashes, 0) => Spaced(Aged(crashes, d), 0)
             /\ Spaced(crashes, 0) /\ d >= HealthyAfter => Spaced(Aged(crashes, d), 1)
  <2>1. SpawnAged(d) \in Nat
    BY Constants DEF SpawnAged
  <2>2. Aged(crashes, d) \in Seq(Nat)
    BY DEF Aged
  <2>3. QED
    BY <2>1, <2>2, AgedSpaced
<1>2. ASSUME NEW life \in Lifetimes, RelayDies(life) PROVE IInv'
  BY <1>1, <1>2, Constants DEF RelayDies, Phase
<1>3. CASE Poll
  BY <1>3 DEF Poll, vars, lives
<1>4. ASSUME NEW delay \in Delays, Detect(delay) PROVE IInv'
  BY <1>4, DetectStep
<1>5. CASE BackoffOver
  BY <1>1, <1>5, BackoffBounds DEF BackoffOver, lives
<1>6. CASE Spawn
  BY <1>6 DEF Spawn, lives
<1>7. CASE SpawnFailed
  BY <1>7 DEF SpawnFailed
<1>8. CASE ThreadEnds
  BY <1>8 DEF ThreadEnds, lives
<1>9. CASE KillStart
  BY <1>9 DEF KillStart, lives
<1>10. CASE KillEnd
  BY <1>10 DEF KillEnd, Joined, lives
<1>11. CASE UNCHANGED vars
  BY <1>11 DEF vars, lives
<1>12. QED
  BY <1>2, <1>3, <1>4, <1>5, <1>6, <1>7, <1>8, <1>9, <1>10, <1>11 DEF Next, WatchdogStep

LEMMA IInvAlways == Spec => []IInv
BY IInvInit, IInvStep, PTL DEF Spec

(* A relay that always stays up for HealthyAfter is never given up on,     *)
(* with any limits for which MaxInWindow healthy lives exceed the window.  *)
THEOREM HealthyRelayKept == Spec => []NeverGivesUp
<1>1. IInv => NeverGivesUp
  BY DEF IInv, Healthy, NeverGivesUp
<1>2. QED
  BY <1>1, IInvAlways, PTL

(* kill() leaves no relay behind.                                          *)
THEOREM KillIsFinal == Spec => []NoOrphan
<1>1. IInv => NoOrphan
  BY DEF IInv, Killing, NoOrphan
<1>2. QED
  BY <1>1, IInvAlways, PTL

-----------------------------------------------------------------------------
(* Restarts and their limit *)

(* Between the detection of a crash and the spawn, the crash is the last   *)
(* of the list, and by the spawn the backoff has passed, which is at least *)
(* the base delay.                                                         *)
BackedOff ==
    /\ pc \in {"backoff", "spawn"} => Len(crashes) > 0
    /\ pc = "spawn" => /\ crashes[Len(crashes)] >= Backoff(consecutive)
                       /\ Backoff(consecutive) >= BaseDelay

(* The watchdog has given up exactly when its window is overfull: as long  *)
(* as it restarts, no more than MaxInWindow crashes are remembered.        *)
Limited == gaveUp <=> TooMany(crashes)

(* It gives up on crashes of the last Window milliseconds only.            *)
Recent == [][gaveUp' # gaveUp => \A i \in 1..Len(crashes') : crashes'[i] <= Window]_vars

(* Time passes, with a backoff or not; a crash is detected; or the crashes *)
(* stay as they are.                                                       *)
LEMMA CrashSteps ==
    ASSUME IInv, [Next]_vars
    PROVE  \/ \E d \in Nat :
                /\ crashes' = Aged(crashes, d) /\ gaveUp' = gaveUp /\ consecutive' = consecutive
                /\ pc' = pc \/ (pc = "backoff" /\ pc' # "backoff")
                /\ pc # "spawn" /\ pc' = "spawn" =>
                     BaseDelay <= Backoff(consecutive) /\ Backoff(consecutive) <= d
           \/ /\ crashes' = crashes /\ gaveUp' = gaveUp /\ consecutive' = consecutive
              /\ pc' = pc \/ pc' \in {"poll", "ended"}
           \/ \E delay \in Delays : Detect(delay)
<1>1. ASSUME NEW life \in Lifetimes, RelayDies(life)
      PROVE  life \in Nat /\ crashes' = Aged(crashes, life) /\ gaveUp' = gaveUp
             /\ consecutive' = consecutive /\ pc' = pc
  BY <1>1, Constants DEF RelayDies
<1>2. CASE BackoffOver /\ run
  <2>1. /\ crashes' = Aged(crashes, Backoff(consecutive)) /\ gaveUp' = gaveUp
        /\ consecutive' = consecutive
        /\ pc = "backoff" /\ pc' \in {"spawn", "poll"}
    BY <1>2 DEF BackoffOver
  <2>2. Backoff(consecutive) \in Nat /\ BaseDelay <= Backoff(consecutive)
    BY BackoffBounds DEF IInv, TypeOK
  <2>3. QED
    BY <2>1, <2>2
<1>3. CASE BackoffOver /\ ~run
  BY <1>3 DEF BackoffOver
<1>4. CASE Poll \/ Spawn \/ SpawnFailed \/ ThreadEnds \/ KillStart \/ KillEnd
  BY <1>4 DEF Poll, Spawn, SpawnFailed, ThreadEnds, KillStart, KillEnd, vars
<1>5. CASE UNCHANGED vars
  BY <1>5 DEF vars
<1>6. QED
  BY <1>1, <1>2, <1>3, <1>4, <1>5 DEF Next, WatchdogStep

(* What decide leaves: crashes of the window only, the new one last.       *)
LEMMA DetectEffect ==
    ASSUME IInv, NEW delay \in Delays, Detect(delay)
    PROVE  /\ crashes' \in Seq(Nat) /\ gaveUp' = TooMany(crashes') /\ pc' \in {"poll", "backoff"}
           /\ Len(crashes') > 0
           /\ \A i \in 1..Len(crashes') : crashes'[i] <= Window
<1> DEFINE all == Append(Aged(crashes, delay), 0)
<1>1. all \in Seq(Nat) /\ Len(all) > 0 /\ all[Len(all)] = 0
  <2>1. Aged(crashes, delay) \in Seq(Nat)
    BY Constants DEF Aged, IInv, TypeOK
  <2>2. QED
    BY <2>1
<1>2. /\ crashes' = Pruned(all) /\ gaveUp' = TooMany(crashes') /\ pc' \in {"poll", "backoff"}
  BY DEF Detect
<1> HIDE DEF all
<1>3. all[Len(all)] <= Window
  BY <1>1, Constants
<1>4. QED
  BY <1>1, <1>2, <1>3, PrunedKeeps

LEMMA RestartStep == IInv /\ BackedOff /\ Limited /\ [Next]_vars => BackedOff' /\ Limited'
<1> SUFFICES ASSUME IInv, BackedOff, Limited, [Next]_vars PROVE BackedOff' /\ Limited'
  OBVIOUS
<1> USE DEF BackedOff, Limited
<1>1. ASSUME NEW d \in Nat, crashes' = Aged(crashes, d), gaveUp' = gaveUp,
             consecutive' = consecutive,
             pc' = pc \/ (pc = "backoff" /\ pc' # "backoff"),
             pc # "spawn" /\ pc' = "spawn" =>
                     BaseDelay <= Backoff(consecutive) /\ Backoff(consecutive) <= d
      PROVE  BackedOff' /\ Limited'
  <2>1. /\ crashes \in Seq(Nat) /\ Len(crashes') = Len(crashes)
        /\ \A i \in 1..Len(crashes) : crashes'[i] = crashes[i] + d /\ crashes[i] \in Nat
    BY <1>1 DEF Aged, IInv, TypeOK
  <2>2. Len(crashes) > 0 => Len(crashes) \in 1..Len(crashes)
    BY <2>1
  <2>3. Limited'
    BY <1>1, <2>1 DEF TooMany
  <2>4. ASSUME pc' = "spawn"
        PROVE  crashes'[Len(crashes')] >= Backoff(consecutive) /\ Backoff(consecutive) >= BaseDelay
    <3>1. /\ Len(crashes) \in 1..Len(crashes) /\ Backoff(consecutive) \in Nat
          /\ pc = "spawn" \/ Backoff(consecutive) <= d
          /\ Backoff(consecutive) >= BaseDelay
      BY <1>1, <2>2, <2>4, BackoffBounds DEF IInv, TypeOK
    <3>2. crashes'[Len(crashes')] = crashes[Len(crashes)] + d /\ crashes[Len(crashes)] \in Nat
      BY <2>1, <3>1
    <3>3. QED
      BY <1>1, <3>1, <3>2, Constants
  <2>5. Backoff(consecutive)' = Backoff(consecutive)
    BY <1>1
  <2>6. QED
    BY <1>1, <2>1, <2>3, <2>4, <2>5
<1>2. CASE crashes' = crashes /\ gaveUp' = gaveUp /\ consecutive' = consecutive
          /\ (pc' = pc \/ pc' \in {"poll", "ended"})
  BY <1>2 DEF TooMany
<1>3. ASSUME NEW delay \in Delays, Detect(delay) PROVE BackedOff' /\ Limited'
  BY <1>3, DetectEffect DEF TooMany
<1>4. QED
  BY CrashSteps, <1>1, <1>2, <1>3

LEMMA RestartAlways == Spec => [](BackedOff /\ Limited)
<1>1. Init => BackedOff /\ Limited
  BY Constants DEF Init, BackedOff, Limited, TooMany
<1>2. QED
  BY <1>1, RestartStep, IInvAlways, PTL DEF Spec

(* No relay is spawned sooner than the backoff, and so the base delay,     *)
(* after its crash was detected, with any delays and limits: a relay that  *)
(* cannot start does not turn the watchdog into a busy loop.               *)
THEOREM RestartsSpaced == Spec => []BackedOff
BY RestartAlways, PTL

(* The watchdog goes on restarting exactly as long as no window has held   *)
(* more than MaxInWindow crashes, so its list stays bounded; and it gives  *)
(* up on crashes of the last window only, never on older ones.             *)
THEOREM GivesUpOnTheWindow == Spec => []Limited /\ Recent
<1>1. IInv /\ [Next]_vars => [gaveUp' # gaveUp =>
                                 \A i \in 1..Len(crashes') : crashes'[i] <= Window]_vars
  BY CrashSteps, DetectEffect
<1>2. QED
  BY <1>1, RestartAlways, IInvAlways, PTL DEF Spec, Recent
=============================================================================
