-------------------------- MODULE RelayRefinement ---------------------------
(* RelaySession implements SessionSpec: the state of the relay read as a   *)
(* state of the promise.                                                   *)
EXTENDS RelaySession

CONSTANT NoToken

ASSUME NoTokenAssumption == NoToken \notin Tokens

(* The token with which a player may open a session, in a pending table T. *)
(* An entry that has expired and is not swept yet counts for nothing.      *)
Usable(T, p) == {pt \in T : pt.pid = p /\ pt.ttl >= 0}
Some(S) == CHOOSE pt \in S : TRUE
TokenIn(T, p) == IF Usable(T, p) = {} THEN NoToken ELSE Some(Usable(T, p)).token

(* Binding replaces what the player had, so a player has one entry. *)
OnePerPlayer == \A pt, qt \in pending : pt.pid = qt.pid => pt = qt

boundBar == [p \in Players |-> TokenIn(pending, p)]
mintedBar == {t \in Tokens : owner[t] # NoPlayer}
sessionBar == [p \in Players |-> IF sessions[p] = NoSession THEN 0 ELSE sessions[p].key]

Promise == INSTANCE SessionSpec WITH
    bound <- boundBar, minted <- mintedBar, session <- sessionBar,
    keys <- nkeys, processed <- opened

(* The relay keeps the promise of SessionSpec: whatever controlLoop,       *)
(* audioLoop and cleanupLoop interleave, tokens are good for one session   *)
(* of their player, sessions have keys of their own, and nothing sealed is *)
(* acted upon twice or after its session is gone.                          *)
KeepsPromise == Promise!Spec
=============================================================================
