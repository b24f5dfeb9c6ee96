------------------------------ MODULE Watchdog ------------------------------
(***************************************************************************)
(* The watchdog that keeps the relay process alive: the decision logic of  *)
(* shared/restart_policy.h and the thread, spawn and kill of               *)
(* shared/relay_launcher.h.                                                *)
(*                                                                         *)
(* Times are milliseconds and keep the code's values.  The clock jumps     *)
(* from one event to the next: how long the relay lives (Lifetimes) and    *)
(* how late the 250 ms poll notices its death (Delays) are the inputs.     *)
(* Instants are kept as ages, so that no bound on the clock is needed.     *)
(***************************************************************************)
EXTENDS Integers, Sequences

CONSTANTS
    BaseDelay,    \* baseDelayMs
    MaxDelay,     \* maxDelayMs
    Window,       \* windowMs
    MaxInWindow,  \* maxInWindow
    HealthyAfter, \* healthyAfterMs
    Lifetimes,    \* how long a spawned relay may live
    Delays,       \* how long its death may go unnoticed
    SpawnFails    \* whether spawn() may fail

ASSUME Constants ==
    /\ BaseDelay \in Nat \ {0} /\ MaxDelay \in Nat /\ BaseDelay <= MaxDelay
    /\ Window \in Nat /\ MaxInWindow \in Nat /\ HealthyAfter \in Nat
    /\ Lifetimes \subseteq Nat /\ Delays \subseteq Nat /\ SpawnFails \in BOOLEAN

(* With 6 crashes and 15 s in a window of 60 s: no window holds more       *)
(* healthy lives than it may hold crashes.                                 *)
ASSUME WindowAssumption == MaxInWindow * HealthyAfter > Window

VARIABLES
    alive,       \* a relay process runs
    pc,          \* the watchdog thread: poll, backoff, spawn, ended
    run,         \* g_watchdogRun
    killer,      \* kill(): no, joining, done
    crashes,     \* m_crashes, as ages, oldest first
    consecutive, \* m_consecutive, as far as backoffMs tells values apart
    spawnAge,    \* now - m_lastSpawnMs, saturated at HealthyAfter
    gaveUp,      \* gaveUp
    steady,      \* history: every relay was spawned and lived HealthyAfter
    phase        \* history: the lives since the last healthy one, see Phase

lives == <<steady, phase>>
vars == <<alive, pc, run, killer, crashes, consecutive, spawnAge, gaveUp, lives>>

Init ==
    /\ alive \in BOOLEAN /\ (SpawnFails \/ alive)
    /\ pc = "poll" /\ run = TRUE /\ killer = "no"
    /\ crashes = <<>> /\ consecutive = 0 /\ spawnAge = 0 /\ gaveUp = FALSE
    /\ steady = alive /\ phase = "brief"

-----------------------------------------------------------------------------
(* RestartPolicy *)

(* What the loop of backoffMs leaves in d: doubled while below the cap. *)
Doubled(n) ==
    LET d[i \in 0..n] == IF i <= 1 THEN BaseDelay
                         ELSE IF d[i - 1] < MaxDelay THEN 2 * d[i - 1] ELSE d[i - 1]
    IN  d[n]

(* backoffMs: base * 2^(n-1), capped. *)
Backoff(n) == IF Doubled(n) > MaxDelay THEN MaxDelay ELSE Doubled(n)

(* The number of crashes beyond which the backoff no longer grows. *)
Saturated(n) == IF Backoff(n) = MaxDelay /\ n > 1 /\ Backoff(n - 1) = MaxDelay
                THEN n - 1 ELSE n

(* Mutant: no crash is forgotten. *)
PrunedNever(cs) == cs

(* pruneWindow: one pass that keeps the crashes of the window, in order. *)
Pruned(cs) ==
    LET keep[i \in 0..Len(cs)] ==
          IF i = 0 THEN <<>>
          ELSE IF cs[i] <= Window THEN Append(keep[i - 1], cs[i]) ELSE keep[i - 1]
    IN  keep[Len(cs)]

(* Mutant: one crash more is put up with. *)
TooManyLate(cs) == Len(cs) > MaxInWindow + 1
TooMany(cs) == Len(cs) > MaxInWindow

(* Ages after d more milliseconds. *)
Aged(cs, d) == [i \in DOMAIN cs |-> cs[i] + d]
SpawnAged(d) == IF spawnAge + d < HealthyAfter THEN spawnAge + d ELSE HealthyAfter

-----------------------------------------------------------------------------
(* launch: the watchdog thread *)

(* Lives so short that a window of crashes is at most half filled by them; *)
(* the rest is left to the backoffs.                                       *)
Brief(life) == 2 * MaxInWindow * life <= Window

(* Whether the last life was healthy, and otherwise whether all lives      *)
(* since the last healthy one were brief.                                  *)
Phase(life) == CASE life >= HealthyAfter -> "healthy"
                 [] life < HealthyAfter /\ Brief(life) /\ phase # "long" -> "brief"
                 [] OTHER -> "long"

(* The relay dies, some time after it was spawned. *)
RelayDies(life) ==
    /\ alive
    /\ alive' = FALSE
    /\ crashes' = Aged(crashes, life)
    /\ spawnAge' = SpawnAged(life)
    /\ steady' = (steady /\ life >= HealthyAfter)
    /\ phase' = Phase(life)
    /\ UNCHANGED <<pc, run, killer, consecutive, gaveUp>>

(* The poll finds it alive, or is no longer interested. *)
Poll ==
    /\ pc = "poll" /\ run /\ (gaveUp \/ alive)
    /\ UNCHANGED vars

(* The poll finds it dead: onCrash, then decide, which prunes the window   *)
(* and counts the new crash too.                                           *)
Detect(delay) ==
    LET healthy == SpawnAged(delay) >= HealthyAfter
        now == Pruned(Append(Aged(crashes, delay), 0))
    IN  /\ pc = "poll" /\ run /\ ~gaveUp /\ ~alive
        /\ consecutive' = Saturated((IF healthy THEN 0 ELSE consecutive) + 1)
        /\ spawnAge' = SpawnAged(delay)
        /\ crashes' = now
        /\ gaveUp' = TooMany(now)
        /\ pc' = IF gaveUp' THEN "poll" ELSE "backoff"
        /\ UNCHANGED <<alive, run, killer, lives>>

(* The backoff is waited out, unless the shutdown flag cuts it short. *)
BackoffOver ==
    /\ pc = "backoff"
    /\ crashes' = IF run THEN Aged(crashes, Backoff(consecutive)) ELSE crashes
    /\ spawnAge' = IF run THEN SpawnAged(Backoff(consecutive)) ELSE spawnAge
    /\ pc' = IF run /\ ~alive THEN "spawn" ELSE "poll"
    /\ UNCHANGED <<alive, run, killer, consecutive, gaveUp, lives>>

Spawn ==
    /\ pc = "spawn"
    /\ alive' = TRUE
    /\ spawnAge' = 0
    /\ pc' = "poll"
    /\ UNCHANGED <<run, killer, crashes, consecutive, gaveUp, lives>>

(* Mutant: the thread ends. *)
SpawnFailedEnds ==
    /\ pc = "spawn" /\ SpawnFails
    /\ pc' = "ended"
    /\ steady' = FALSE
    /\ UNCHANGED <<alive, run, killer, crashes, consecutive, spawnAge, gaveUp, phase>>

(* The next poll takes it for another crash. *)
SpawnFailed ==
    /\ pc = "spawn" /\ SpawnFails
    /\ pc' = "poll"
    /\ steady' = FALSE
    /\ UNCHANGED <<alive, run, killer, crashes, consecutive, spawnAge, gaveUp, phase>>

ThreadEnds ==
    /\ pc = "poll" /\ ~run
    /\ pc' = "ended"
    /\ UNCHANGED <<alive, run, killer, crashes, consecutive, spawnAge, gaveUp, lives>>

-----------------------------------------------------------------------------
(* kill: the flag is cleared, the thread joined, then the process ended. *)
KillStart ==
    /\ killer = "no"
    /\ run' = FALSE
    /\ killer' = "joining"
    /\ UNCHANGED <<alive, pc, crashes, consecutive, spawnAge, gaveUp, lives>>

(* Mutant: the thread is not joined first. *)
JoinedNot == TRUE
Joined == pc = "ended"

KillEnd ==
    /\ killer = "joining" /\ Joined
    /\ alive' = FALSE
    /\ killer' = "done"
    /\ UNCHANGED <<pc, run, crashes, consecutive, spawnAge, gaveUp, lives>>

-----------------------------------------------------------------------------
WatchdogStep ==
    \/ Poll
    \/ \E delay \in Delays : Detect(delay)
    \/ BackoffOver \/ Spawn \/ SpawnFailed \/ ThreadEnds

Next ==
    \/ WatchdogStep
    \/ \E life \in Lifetimes : RelayDies(life)
    \/ KillStart \/ KillEnd

(* The watchdog thread runs, and so does whoever called kill(); nothing    *)
(* obliges a spawn to succeed.                                             *)
Fairness == WF_vars(WatchdogStep) /\ WF_vars(KillEnd)

Spec == Init /\ [][Next]_vars /\ Fairness

-----------------------------------------------------------------------------
(* A relay that always stays up for HealthyAfter is restarted every time,  *)
(* however often it crashes: the window and the limit leave room for it.   *)
NeverGivesUp == gaveUp => ~steady

(* kill() leaves no relay behind, although the watchdog may be between its *)
(* last look at the flag and the spawn.                                    *)
NoOrphan == killer = "done" => ~alive /\ pc # "spawn"

(* A relay that dies is started again, unless the watchdog has given up or *)
(* is being shut down.                                                     *)
Restarted == ~alive ~> (alive \/ gaveUp \/ ~run)

(* A relay that, after a healthy life or from the start, only ever dies at *)
(* once or cannot be spawned is given up on: the growing backoff does not  *)
(* stretch the crashes out of the window, although a failed spawn leaves   *)
(* the time of the last one standing and so resets the backoff.            *)
CrashLoopEnds ==
    <>[](phase = "brief") /\ []<>~alive => <>(gaveUp \/ ~run)
=============================================================================
