---------------------------- MODULE PlayoutSpec -----------------------------
(***************************************************************************)
(* What the playback promises of one speaker's frames, without positions   *)
(* in a buffer, playout depths or devices: of the frames that wait, the    *)
(* earliest is played; each is played once at most; and a frame is lost    *)
(* only on the way, with its stream, or as the earliest of more than Cap.  *)
(***************************************************************************)
EXTENDS Integers, FiniteSets

CONSTANT Cap   \* frames that may wait

VARIABLES
    sent,     \* frames spoken: 0 .. sent - 1
    net,      \* those under way
    waiting,  \* those to be played
    played    \* the one last played, -1 for a new stream

vars == <<sent, net, waiting, played>>

Init == sent = 0 /\ net = {} /\ waiting = {} /\ played = -1

Earliest(S) == CHOOSE n \in S : \A m \in S : n <= m

Speak ==
    /\ sent' = sent + 1 /\ net' = net \cup {sent}
    /\ UNCHANGED <<waiting, played>>

Lose(n) ==
    /\ net' = net \ {n}
    /\ UNCHANGED <<sent, waiting, played>>

Arrive(n) ==
    LET all == waiting \cup {n}
    IN  /\ net' = net \ {n}
        /\ waiting' = IF Cardinality(waiting) < Cap THEN all ELSE all \ {Earliest(all)}
        /\ UNCHANGED <<sent, played>>

Play ==
    /\ waiting # {}
    /\ played' = Earliest(waiting) /\ waiting' = waiting \ {played'}
    /\ UNCHANGED <<sent, net>>

(* The stream goes, with what waits. *)
Forget ==
    /\ waiting' = {} /\ played' = -1
    /\ UNCHANGED <<sent, net>>

Next ==
    \/ Speak
    \/ \E n \in net : Lose(n) \/ Arrive(n)
    \/ Play
    \/ Forget

Spec == Init /\ [][Next]_vars
=============================================================================
