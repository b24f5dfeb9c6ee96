---------------------------- MODULE ReplicaSpec -----------------------------
(***************************************************************************)
(* What the control link promises the game server, without datagrams,      *)
(* queues or processes: an operation of a native changes the registry at   *)
(* once, and the relay's copy either takes it as a whole, in its turn, or  *)
(* never; a player stops being heard once the relay learns that it left;   *)
(* and every change of the picture the gamemode has of the talkers is one  *)
(* that took place at the relay.                                           *)
(***************************************************************************)
CONSTANTS
    Players,
    Empty,         \* a registry without channels
    Ops(_),        \* the operations that natives issue with players S in the game
    Departure(_),  \* the operation that takes a player off every channel
    Applied(_, _)  \* what an operation makes of a registry

VARIABLES
    truth,    \* the game server's registry
    copy,     \* the relay's, once it has read what was sent
    inGame,   \* players connected to the game server
    leaving,  \* players of whom the relay has yet to read a departure
    ghosts,   \* players whose last departure it will never read
    talking,  \* players the relay hears
    shown     \* those the gamemode shows, once it was told what was reported

vars == <<truth, copy, inGame, leaving, ghosts, talking, shown>>

Init ==
    /\ truth = Empty /\ copy = Empty
    /\ inGame = {} /\ leaving = {} /\ ghosts = {}
    /\ talking = {} /\ shown = {}

Change(m) ==
    /\ truth' = Applied(truth, m)
    /\ copy' = copy \/ copy' = Applied(copy, m)
    /\ UNCHANGED <<inGame, leaving, ghosts, talking, shown>>

Connect(p) ==
    /\ inGame' = inGame \cup {p}
    /\ UNCHANGED <<truth, copy, leaving, ghosts, talking, shown>>

Disconnect(p) ==
    /\ p \in inGame
    /\ inGame' = inGame \ {p}
    /\ truth' = Applied(truth, Departure(p))
    /\ \/ /\ copy' = Applied(copy, Departure(p))
          /\ leaving' = leaving \cup {p} /\ ghosts' = ghosts \ {p}
       \/ /\ ghosts' = ghosts \cup {p}
          /\ UNCHANGED <<copy, leaving>>
    /\ shown' \in {shown, shown \ {p}}
    /\ UNCHANGED talking

(* A player may have left more than once since the relay last looked. *)
Departs(p) ==
    /\ p \in leaving
    /\ leaving' \in {leaving, leaving \ {p}}
    /\ talking' = talking \ {p}
    /\ UNCHANGED <<truth, copy, inGame, ghosts, shown>>

(* Only a player of the game is heard anew, or one whose departure the     *)
(* relay does not know of.                                                 *)
Starts(p) ==
    /\ p \in inGame \cup leaving \cup ghosts
    /\ p \notin talking
    /\ talking' = talking \cup {p}
    /\ shown' \in {shown, shown \cup {p}}
    /\ UNCHANGED <<truth, copy, inGame, leaving, ghosts>>

Stops(p) ==
    /\ p \in talking
    /\ talking' = talking \ {p}
    /\ shown' \in {shown, shown \ {p}}
    /\ UNCHANGED <<truth, copy, inGame, leaving, ghosts>>

(* The relay dies and with it all it knew. *)
Forget ==
    /\ copy' = Empty /\ talking' = {} /\ leaving' = {} /\ ghosts' = {}
    /\ UNCHANGED <<truth, inGame, shown>>

Next ==
    \/ \E m \in Ops(inGame) : Change(m)
    \/ \E p \in Players : Connect(p) \/ Disconnect(p) \/ Departs(p) \/ Starts(p) \/ Stops(p)
    \/ Forget

Spec == Init /\ [][Next]_vars
=============================================================================
