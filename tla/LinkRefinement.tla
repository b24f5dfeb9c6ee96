--------------------------- MODULE LinkRefinement ---------------------------
(* ControlLink implements ReplicaSpec: bridge, relay and what is under way *)
(* between them read as a state of the promise.                            *)
EXTENDS ControlLink

(* The datagrams of the natives, with the players S in the game. *)
NativeOps(S) ==
    [type : {"create"}, chan : Ids, conf : [Attrs -> Values]]
    \cup [type : {"destroy"}, chan : Ids]
    \cup [type : {"join", "leave"}, player : S, chan : Ids]
    \cup [type : {"set"}, chan : Ids, attr : Attrs, val : Values]
GoneMsg(p) == [type |-> "gone", player |-> p]

leavingBar == {p \in Players : Leaving(p)}

Promise == INSTANCE ReplicaSpec WITH
    Empty <- [c \in Ids |-> NoChannel], Ops <- NativeOps, Departure <- GoneMsg,
    Applied <- Applied,
    truth <- mirror, copy <- AllApplied(replica, wire),
    leaving <- leavingBar, ghosts <- missed,
    talking <- active, shown <- AllTold(view, statusQ)

(* The link keeps the promise of ReplicaSpec: although a datagram waits,   *)
(* is lost or dies with the relay, and events are dropped or overtaken, an *)
(* operation reaches the relay's tables as a whole and in its turn or not  *)
(* at all, nobody unknown to the game server is heard but one whose        *)
(* departure was lost, and the gamemode is told of nothing that did not    *)
(* happen.                                                                 *)
LinkPromise == Promise!Spec
=============================================================================
