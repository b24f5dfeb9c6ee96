---------------------------- MODULE SessionSpec -----------------------------
(***************************************************************************)
(* What the relay promises about authentication, without addresses,        *)
(* threads, counters or clocks: a token is bound to one player and is good *)
(* for one session; a session has a key of its own; what is sealed under a *)
(* key is processed at most once, and only while that key's session lives. *)
(***************************************************************************)
EXTENDS Integers

CONSTANTS Players, Tokens, Counters, NoToken

VARIABLES
    bound,    \* the token with which a player may open a session, or NoToken
    minted,   \* the tokens handed out so far
    session,  \* the key of a player's session, 0 for none
    keys,     \* number of keys handed out so far
    processed \* pairs <<key, counter>> acted upon

vars == <<bound, minted, session, keys, processed>>

Init ==
    /\ bound = [p \in Players |-> NoToken]
    /\ minted = {}
    /\ session = [p \in Players |-> 0]
    /\ keys = 0
    /\ processed = {}

(* A new token makes the player's previous one worthless. *)
Bind(p, t) ==
    /\ t \in Tokens \ minted
    /\ bound' = [bound EXCEPT ![p] = t]
    /\ minted' = minted \cup {t}
    /\ UNCHANGED <<session, keys, processed>>

(* The token is exchanged for a session under a new key. *)
Grant(p) ==
    /\ bound[p] # NoToken
    /\ bound' = [bound EXCEPT ![p] = NoToken]
    /\ keys' = keys + 1
    /\ session' = [session EXCEPT ![p] = keys + 1]
    /\ UNCHANGED <<minted, processed>>

(* A datagram sealed under the session's key is acted upon, for the first  *)
(* time; it may end the session.                                           *)
Receive(p, c) ==
    /\ session[p] # 0
    /\ <<session[p], c>> \notin processed
    /\ processed' = processed \cup {<<session[p], c>>}
    /\ session' \in {session, [session EXCEPT ![p] = 0]}
    /\ UNCHANGED <<bound, minted, keys>>

(* Tokens and sessions lapse; nothing brings them back. *)
Lapse(T, S) ==
    /\ bound' = [p \in Players |-> IF p \in T THEN NoToken ELSE bound[p]]
    /\ session' = [p \in Players |-> IF p \in S THEN 0 ELSE session[p]]
    /\ UNCHANGED <<minted, keys, processed>>

Next ==
    \/ \E p \in Players, t \in Tokens : Bind(p, t)
    \/ \E p \in Players : Grant(p)
    \/ \E p \in Players, c \in Counters : Receive(p, c)
    \/ \E T, S \in SUBSET Players : Lapse(T, S)

Spec == Init /\ [][Next]_vars
=============================================================================
