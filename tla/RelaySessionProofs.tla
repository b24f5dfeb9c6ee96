------------------------- MODULE RelaySessionProofs -------------------------
(***************************************************************************)
(* Machine-checked proofs about RelaySession, for any number of players,   *)
(* addresses, tokens and any limits: its invariants, what one step may do  *)
(* to a session, and that it implements SessionSpec.                       *)
(***************************************************************************)
EXTENDS RelayRefinement, FiniteSetTheorems, TLAPS

(* A set of players has a natural number of elements. *)
LEMMA PlayerCount ==
    ASSUME NEW S \in SUBSET Players
    PROVE  IsFiniteSet(S) /\ Cardinality(S) \in Nat
  BY Constants, FS_Subset, FS_CardinalityType

(* Sending to a set of players keeps every session well typed, and changes *)
(* nothing of a session but its send counter.                              *)
LEMMA EmitType ==
    ASSUME NEW ss \in [Players -> Session \cup {NoSession}], NEW S \in SUBSET Players,
           \A p \in S : ss[p] # NoSession => ss[p].tx <= MaxSends
    PROVE  /\ Emit(ss, S) \in [Players -> Session \cup {NoSession}]
           /\ \A p \in Players :
                /\ Emit(ss, S)[p] = NoSession <=> ss[p] = NoSession
                /\ ss[p] # NoSession =>
                     /\ Emit(ss, S)[p].addr = ss[p].addr
                     /\ Emit(ss, S)[p].key = ss[p].key
                     /\ Emit(ss, S)[p].rx = ss[p].rx
                     /\ Emit(ss, S)[p].idle = ss[p].idle
                     /\ Emit(ss, S)[p].tx >= ss[p].tx
<1> DEFINE R == Emit(ss, S)
<1>1. ASSUME NEW p \in Players
      PROVE  /\ R[p] \in Session \cup {NoSession}
             /\ R[p] = NoSession <=> ss[p] = NoSession
             /\ ss[p] # NoSession =>
                  /\ R[p].addr = ss[p].addr /\ R[p].key = ss[p].key
                  /\ R[p].rx = ss[p].rx /\ R[p].idle = ss[p].idle
                  /\ R[p].tx >= ss[p].tx
  <2>1. CASE p \in S /\ ss[p] # NoSession
    <3>1. R[p] = [ss[p] EXCEPT !.tx = @ + 1]
      BY <2>1 DEF Emit
    <3>2. ss[p] \in Session /\ ss[p].tx \in 1..MaxSends
      BY <2>1, Constants DEF Session
    <3>3. [ss[p] EXCEPT !.tx = @ + 1] \in Session
      BY <3>2, Constants DEF Session
    <3>4. QED
      BY <2>1, <3>1, <3>2, <3>3, NoSessionAssumption, Constants DEF Session
  <2>2. CASE ~(p \in S /\ ss[p] # NoSession)
    <3>1. R[p] = ss[p]
      BY <2>2 DEF Emit
    <3>2. QED
      BY <3>1, Constants DEF Session
  <2>3. QED
    BY <2>1, <2>2
<1>2. R = [p \in Players |-> R[p]]
  BY DEF Emit
<1>3. QED
  BY <1>1, <1>2

(* The initial state satisfies the type invariant. *)
LEMMA InitType == Init => TypeOK
<1> SUFFICES ASSUME Init PROVE TypeOK
  OBVIOUS
<1>1. haveBridge \in BOOLEAN
  BY DEF Init
<1>2. /\ sessions \in [Players -> Session \cup {NoSession}]
      /\ addrIndex \in [Addrs -> Players \cup {NoPlayer}]
      /\ owner \in [Tokens -> Players \cup {NoPlayer}]
  BY DEF Init
<1>3. nkeys \in 0..MaxKeys
  BY Constants DEF Init
<1>4. QED
  BY <1>1, <1>2, <1>3 DEF Init, TypeOK

(* A datagram of a routed address meets a well-typed session. *)
LEMMA RoutedType ==
    ASSUME TypeOK, NEW a \in Addrs, Routed(a)
    PROVE  addrIndex[a] \in Players /\ sessions[addrIndex[a]] \in Session
  BY DEF TypeOK, Routed

(* Hearing an authentic datagram keeps a session well typed. *)
LEMMA HeardType ==
    ASSUME NEW s \in Session, NEW c \in Counters
    PROVE  /\ Heard(s, c) \in Session
           /\ Heard(s, c).addr = s.addr /\ Heard(s, c).key = s.key
           /\ Heard(s, c).tx = s.tx /\ Heard(s, c).idle = 0
           /\ Heard(s, c).rx >= s.rx /\ Heard(s, c).rx >= c
<1> DEFINE m == IF c > s.rx THEN c ELSE s.rx
<1>1. m \in Counters /\ m >= s.rx /\ m >= c
  BY Constants DEF Session, Counters
<1>2. Heard(s, c) = [s EXCEPT !.rx = m, !.idle = 0]
  BY DEF Heard
<1> HIDE DEF m
<1>3. 0 \in 0..(SessionTimeout + 1)
  BY Constants
<1>4. QED
  BY <1>1, <1>2, <1>3 DEF Session

(* Dropping sessions and their addresses keeps both tables well typed. *)
LEMMA DropType ==
    ASSUME TypeOK, NEW D \in SUBSET Players
    PROVE  /\ DropSessions(D) \in [Players -> Session \cup {NoSession}]
           /\ DropAddrs(D) \in [Addrs -> Players \cup {NoPlayer}]
  BY DEF TypeOK, DropSessions, DropAddrs

(* Every handler keeps the state well typed: one case per action. *)
LEMMA TypeStep == TypeOK /\ [Next]_vars => TypeOK'
<1> SUFFICES ASSUME TypeOK, [Next]_vars PROVE TypeOK'
  OBVIOUS
<1>1. ASSUME NEW p \in Players, NEW t \in Tokens, NEW ip \in Ips \cup {AnyIp},
             BindToken(p, t, ip)
      PROVE  TypeOK'
  <2>1. haveBridge' \in BOOLEAN
    BY <1>1 DEF BindToken
  <2>2. pending' \subseteq Pending /\ spent' \subseteq Tokens
    <3>1. [token |-> t, pid |-> p, ip |-> ip, ttl |-> TokenTtl] \in Pending
      BY Constants DEF Pending
    <3>2. QED
      BY <1>1, <3>1 DEF BindToken, TypeOK, Pending
  <2>3. owner' \in [Tokens -> Players \cup {NoPlayer}] /\ timeouts' \subseteq Players
    BY <1>1 DEF BindToken, TypeOK
  <2>4. QED
    BY <1>1, <2>1, <2>2, <2>3 DEF BindToken, TypeOK
<1>2. ASSUME NEW S \in SUBSET Players, CanEmit(S), sessions' = Emit(sessions, S)
      PROVE  sessions' \in [Players -> Session \cup {NoSession}]
  <2>1. sessions \in [Players -> Session \cup {NoSession}]
    BY DEF TypeOK
  <2>2. \A p \in S : sessions[p] # NoSession => sessions[p].tx <= MaxSends
    BY <1>2 DEF CanEmit, Live
  <2>3. QED
    BY <1>2, <2>1, <2>2, EmitType
<1>3. ASSUME NEW p \in Players, PlayerName(p) PROVE TypeOK'
  <2>1. haveBridge' \in BOOLEAN
    BY <1>3 DEF PlayerName
  <2>2. sessions' \in [Players -> Session \cup {NoSession}]
    BY <1>2, <1>3 DEF PlayerName
  <2>3. QED
    BY <1>3, <2>1, <2>2 DEF PlayerName, TypeOK, history
<1>4. ASSUME NEW p \in Players, PlayerGone(p) PROVE TypeOK'
  <2>1. haveBridge' \in BOOLEAN
    BY <1>4 DEF PlayerGone
  <2>2. QED
    BY <1>4, <2>1 DEF PlayerGone, TypeOK, history
<1>5. ASSUME NEW S \in SUBSET Players, EngineControl(S) PROVE TypeOK'
  <2>1. haveBridge' \in BOOLEAN
    BY <1>5 DEF EngineControl
  <2>2. sessions' \in [Players -> Session \cup {NoSession}]
    BY <1>2, <1>5 DEF EngineControl
  <2>3. QED
    BY <1>5, <2>1, <2>2 DEF EngineControl, TypeOK, history
<1>6. ASSUME UNCHANGED vars PROVE TypeOK'
  BY <1>6 DEF vars, TypeOK
<1>7. ASSUME NEW a \in Addrs, NEW t \in Tokens, HandshakeDeriveFails(a, t)
      PROVE  TypeOK'
  <2>1. haveBridge' \in BOOLEAN
    BY <1>7 DEF HandshakeDeriveFails, TypeOK
  <2>2. QED
    BY <1>7, <2>1 DEF HandshakeDeriveFails, TypeOK
<1>8. ASSUME NEW a \in Addrs, NEW t \in Tokens, HandshakeAck(a, t) PROVE TypeOK'
  <2>1. haveBridge' \in BOOLEAN
    BY <1>8 DEF HandshakeAck, TypeOK
  <2>2. PICK pt \in Matching(t) :
          /\ sessions' = [sessions EXCEPT ![pt.pid] = Greet(NewSession(a))]
          /\ addrIndex' = [addrIndex EXCEPT ![a] = pt.pid]
          /\ pending' = pending \ {pt}
    BY <1>8 DEF HandshakeAck, Consume
  <2>3. pt.pid \in Players
    BY <2>2 DEF Matching, TypeOK, Pending
  <2>4. Greet(NewSession(a)) \in Session
    <3>1. Cardinality(names) \in 0..MaxSends
      BY <1>8, PlayerCount, Constants DEF HandshakeAck, TypeOK
    <3>2. nkeys + 1 \in Keys
      BY <1>8, Constants DEF HandshakeAck, TypeOK, Keys
    <3>3. QED
      BY <3>1, <3>2, Constants DEF Greet, NewSession, Session, Counters
  <2>5. nkeys' \in 0..MaxKeys
    BY <1>8, Constants DEF HandshakeAck, TypeOK
  <2>6. QED
    BY <1>8, <2>1, <2>2, <2>3, <2>4, <2>5 DEF HandshakeAck, TypeOK
<1>9. ASSUME NEW a \in Addrs, NEW k \in Keys, NEW c \in Counters, Remember(k, c)
      PROVE  opened' \subseteq Keys \X Counters /\ reopened' \subseteq Keys \X Counters
  BY <1>9 DEF Remember, TypeOK
<1>10. ASSUME NEW a \in Addrs, NEW k \in Keys, NEW c \in Counters,
              NEW S \in SUBSET Players, Accept(a, k, c, S)
       PROVE  TypeOK'
  <2>1. haveBridge' \in BOOLEAN
    BY <1>10 DEF Accept, TypeOK
  <2> DEFINE p == addrIndex[a]
             ss == [sessions EXCEPT ![p] = Heard(@, c)]
  <2>2. p \in Players /\ sessions[p] \in Session
    BY <1>10, RoutedType DEF Accept
  <2>3. ss \in [Players -> Session \cup {NoSession}] /\ ss[p] = Heard(sessions[p], c)
    BY <2>2, HeardType DEF TypeOK
  <2>4. \A q \in S : ss[q] # NoSession => ss[q].tx <= MaxSends
    <3>1. \A q \in S : sessions[q] # NoSession => sessions[q].tx <= MaxSends
      BY <1>10 DEF Accept, CanEmit, Live
    <3>2. QED
      BY <2>2, <2>3, <3>1, HeardType, NoSessionAssumption DEF TypeOK
  <2>5. sessions' \in [Players -> Session \cup {NoSession}]
    <3>1. sessions' = Emit(ss, S)
      BY <1>10 DEF Accept
    <3> HIDE DEF ss
    <3>2. QED
      BY <2>3, <2>4, <3>1, EmitType
  <2>6. opened' \subseteq Keys \X Counters /\ reopened' \subseteq Keys \X Counters
    BY <1>9, <1>10 DEF Accept
  <2>7. QED
    BY <1>10, <2>1, <2>5, <2>6 DEF Accept, TypeOK
<1>11. ASSUME NEW a \in Addrs, NEW k \in Keys, NEW c \in Counters, Bye(a, k, c)
       PROVE  TypeOK'
  <2>1. haveBridge' \in BOOLEAN
    BY <1>11 DEF Bye, TypeOK
  <2>2. /\ sessions' \in [Players -> Session \cup {NoSession}]
        /\ addrIndex' \in [Addrs -> Players \cup {NoPlayer}]
    BY <1>11, RoutedType, DropType DEF Bye
  <2>3. opened' \subseteq Keys \X Counters /\ reopened' \subseteq Keys \X Counters
    BY <1>9, <1>11 DEF Bye
  <2>4. QED
    BY <1>11, <2>1, <2>2, <2>3 DEF Bye, TypeOK
<1>12. ASSUME Cleanup PROVE TypeOK'
  <2>1. haveBridge' \in BOOLEAN
    BY <1>12 DEF Cleanup, TypeOK
  <2>2. Expired \in SUBSET Players
    BY DEF Expired, Live
  <2>3. /\ sessions' \in [Players -> Session \cup {NoSession}]
        /\ addrIndex' \in [Addrs -> Players \cup {NoPlayer}]
    BY <1>12, <2>2, DropType DEF Cleanup
  <2>4. timeouts' \subseteq Players
    BY <1>12, <2>2 DEF Cleanup, TypeOK, Told
  <2>5. QED
    BY <1>12, <2>1, <2>3, <2>4 DEF Cleanup, TypeOK, history, Unexpired
<1>13. ASSUME Tick PROVE TypeOK'
  <2>1. haveBridge' \in BOOLEAN
    BY <1>13 DEF Tick, TypeOK
  <2>2. sessions' \in [Players -> Session \cup {NoSession}]
    BY <1>13, Constants DEF Tick, TypeOK, Session
  <2>3. pending' \subseteq Pending
    <3>1. ASSUME NEW pt \in pending
          PROVE  [pt EXCEPT !.ttl = IF @ >= 0 THEN @ - 1 ELSE @] \in Pending
      BY Constants DEF TypeOK, Pending
    <3>2. QED
      BY <1>13, <3>1 DEF Tick
  <2>4. QED
    BY <1>13, <2>1, <2>2, <2>3 DEF Tick, TypeOK, history
<1>14. ASSUME NEW a \in Addrs, NEW k \in Keys, NEW c \in Counters, Ping(a, k, c)
       PROVE  TypeOK'
  <2>1. Accept(a, k, c, {addrIndex[a]})
    BY <1>14 DEF Ping
  <2>2. {addrIndex[a]} \in SUBSET Players
    BY <2>1, RoutedType DEF Accept
  <2>3. QED
    BY <1>10, <2>1, <2>2
<1>15. QED
  <2>1. CASE Control
    BY <2>1, <1>1, <1>3, <1>4, <1>5 DEF Control
  <2>2. CASE Audio
    BY <2>2, <1>6, <1>7, <1>8, <1>10, <1>11, <1>14
       DEF Audio, HandshakeNak, DropEncrypted, AudioUp
  <2>3. QED
    BY <2>1, <2>2, <1>6, <1>12, <1>13 DEF Next

(* Whatever the bridge, the clients and the network do, the tables of the  *)
(* relay hold only well-typed entries.                                     *)
THEOREM TypeCorrect == Spec => []TypeOK
  BY InitType, TypeStep, PTL DEF Spec

-----------------------------------------------------------------------------
(* Nothing of the session tables but counters and ages moves. *)
Quiet ==
    /\ addrIndex' = addrIndex /\ nkeys' = nkeys /\ opened' = opened
    /\ \A p \in Players :
         /\ sessions'[p] = NoSession <=> sessions[p] = NoSession
         /\ sessions[p] # NoSession =>
              /\ sessions'[p].addr = sessions[p].addr
              /\ sessions'[p].key = sessions[p].key
              /\ sessions'[p].rx = sessions[p].rx

(* A quiet step disturbs none of the facts about sessions. *)
LEMMA QuietStep ==
    ASSUME TypeOK, RelayInv, Quiet
    PROVE  SessionsIndexed' /\ KeysDistinct' /\ OpenedBelowMark' /\ Live' = Live
<1>1. Live' = Live
  BY DEF Quiet, Live
<1>2. SessionsIndexed'
  BY DEF Quiet, RelayInv, SessionsIndexed
<1>3. KeysDistinct'
  BY <1>1 DEF Quiet, RelayInv, KeysDistinct, Live
<1>4. OpenedBelowMark'
  BY <1>1 DEF Quiet, RelayInv, OpenedBelowMark, Live
<1>5. QED
  BY <1>1, <1>2, <1>3, <1>4

(* Removing tokens from the table, and spending what was removed, keeps    *)
(* the table sound.                                                        *)
LEMMA SpendStep ==
    ASSUME TypeOK, RelayInv, owner' = owner, pending' \subseteq pending,
           NEW T \in SUBSET {pt.token : pt \in pending},
           spent' = spent \cup T, \A pt \in pending' : pt.token \notin T
    PROVE  PendingSound'
<1>1. \A t \in spent' : owner[t] # NoPlayer
  BY Constants DEF RelayInv, PendingSound, TypeOK, Pending
<1>2. QED
  BY <1>1 DEF RelayInv, PendingSound

(* Dropping the sessions of D together with their addresses leaves every   *)
(* other session in place and indexed.                                     *)
LEMMA DropStep ==
    ASSUME TypeOK, RelayInv, NEW D \in SUBSET Live, nkeys' = nkeys,
           sessions' = DropSessions(D), addrIndex' = DropAddrs(D)
    PROVE  /\ SessionsIndexed' /\ KeysDistinct'
           /\ Live' = Live \ D
           /\ \A p \in Live' : sessions'[p] = sessions[p]
<1>1. Live' = Live \ D /\ \A p \in Live' : sessions'[p] = sessions[p]
  BY DEF DropSessions, Live
<1>2. SessionsIndexed'
  <2> SUFFICES ASSUME NEW p \in Players, sessions'[p] # NoSession
               PROVE  addrIndex'[sessions'[p].addr] = p
    BY DEF SessionsIndexed
  <2>1. p \in Live /\ p \notin D /\ sessions'[p] = sessions[p]
    BY <1>1 DEF Live
  <2>2. sessions[p].addr \in Addrs /\ addrIndex[sessions[p].addr] = p
    BY <2>1 DEF RelayInv, SessionsIndexed, TypeOK, Session, Live
  <2>3. ~ \E q \in D : sessions[q].addr = sessions[p].addr
    BY <2>1, <2>2 DEF RelayInv, SessionsIndexed, Live
  <2>4. QED
    BY <2>1, <2>2, <2>3 DEF DropAddrs
<1>3. KeysDistinct'
  BY <1>1 DEF RelayInv, KeysDistinct
<1>4. QED
  BY <1>1, <1>2, <1>3

(* A datagram that opens carries a counter never processed under its key:  *)
(* the session's mark is at or above every one that was.                   *)
LEMMA OpensFresh ==
    ASSUME TypeOK, RelayInv, NEW a \in Addrs, NEW k \in Keys,
           NEW c \in Counters \ {0}, Routed(a), Opens(sessions[addrIndex[a]], k, c)
    PROVE  /\ addrIndex[a] \in Live /\ sessions[addrIndex[a]].key = k
           /\ c > sessions[addrIndex[a]].rx
           /\ <<k, c>> \notin opened
<1>1. addrIndex[a] \in Live /\ sessions[addrIndex[a]] \in Session
  BY RoutedType DEF Live, Routed
<1>2. sessions[addrIndex[a]].key = k /\ c > sessions[addrIndex[a]].rx
  BY <1>1, Constants DEF Opens, Session, Counters
<1>3. <<k, c>> \notin opened
  BY <1>1, <1>2, Constants DEF RelayInv, OpenedBelowMark, Session, Counters
<1>4. QED
  BY <1>1, <1>2, <1>3

(* The initial state satisfies the invariant. *)
LEMMA InitInv == Init => RelayInv /\ NoReplay
  BY DEF Init, RelayInv, SessionsIndexed, KeysDistinct, OpenedBelowMark,
         PendingSound, BridgeKnown, NoReplay, Live

(* Every handler preserves the invariant and processes no datagram twice.  *)
LEMMA InvStep ==
    TypeOK /\ RelayInv /\ NoReplay /\ [Next]_vars => RelayInv' /\ NoReplay'
<1> SUFFICES ASSUME TypeOK, RelayInv, NoReplay, [Next]_vars
             PROVE  RelayInv' /\ NoReplay'
  OBVIOUS
<1>1. ASSUME NEW p \in Players, NEW t \in Tokens, NEW ip \in Ips \cup {AnyIp},
             BindToken(p, t, ip)
      PROVE  RelayInv' /\ NoReplay'
  <2> DEFINE old == {pt \in pending : pt.pid = p}
             new == [token |-> t, pid |-> p, ip |-> ip, ttl |-> TokenTtl]
  <2>1. Quiet
    BY <1>1 DEF BindToken, Quiet
  <2>2. /\ pending' = (pending \ old) \cup {new}
        /\ spent' = spent \cup {pt.token : pt \in old}
        /\ owner' = [owner EXCEPT ![t] = p] /\ owner[t] = NoPlayer
    BY <1>1 DEF BindToken
  <2>3. \A pt \in pending : pt.token \in Tokens /\ pt.token # t /\ owner'[pt.token] = pt.pid
    BY <2>2, Constants DEF RelayInv, PendingSound, TypeOK, Pending
  <2>4. t \notin spent' /\ owner'[t] = p
    BY <2>2, <2>3 DEF RelayInv, PendingSound, TypeOK
  <2>5. \A u \in spent' : owner'[u] # NoPlayer
    BY <2>2, <2>3, Constants DEF RelayInv, PendingSound, TypeOK, Pending
  <2>6. \A pt \in pending \ old : pt.token \notin spent'
    BY <2>2 DEF RelayInv, PendingSound
  <2>7. PendingSound'
    BY <2>2, <2>3, <2>4, <2>5, <2>6 DEF RelayInv, PendingSound
  <2>8. BridgeKnown'
    BY <1>1 DEF BindToken, BridgeKnown
  <2>9. QED
    BY <1>1, <2>1, <2>7, <2>8, QuietStep DEF RelayInv, NoReplay, BindToken
<1>2. ASSUME NEW S \in SUBSET Players, CanEmit(S), sessions' = Emit(sessions, S),
             UNCHANGED <<addrIndex, nkeys, opened>>
      PROVE  Quiet
  <2>1. sessions \in [Players -> Session \cup {NoSession}]
    BY DEF TypeOK
  <2>2. \A p \in S : sessions[p] # NoSession => sessions[p].tx <= MaxSends
    BY <1>2 DEF CanEmit, Live
  <2>3. QED
    BY <1>2, <2>1, <2>2, EmitType DEF Quiet
<1>3. ASSUME Quiet, haveBridge', UNCHANGED <<pending, owner, spent, reopened>>
      PROVE  RelayInv' /\ NoReplay'
  BY <1>3, QuietStep DEF RelayInv, NoReplay, PendingSound, BridgeKnown
<1>4. ASSUME NEW p \in Players, PlayerName(p) PROVE RelayInv' /\ NoReplay'
  <2>1. Quiet
    BY <1>2, <1>4 DEF PlayerName, history
  <2>2. haveBridge'
    BY <1>4 DEF PlayerName
  <2>3. QED
    BY <1>3, <1>4, <2>1, <2>2 DEF PlayerName, history
<1>5. ASSUME NEW p \in Players, PlayerGone(p) PROVE RelayInv' /\ NoReplay'
  <2>1. Quiet
    BY <1>5 DEF PlayerGone, history, Quiet
  <2>2. haveBridge'
    BY <1>5 DEF PlayerGone
  <2>3. QED
    BY <1>3, <1>5, <2>1, <2>2 DEF PlayerGone, history
<1>6. ASSUME NEW S \in SUBSET Players, EngineControl(S) PROVE RelayInv' /\ NoReplay'
  <2>1. Quiet
    BY <1>2, <1>6 DEF EngineControl, history
  <2>2. haveBridge'
    BY <1>6 DEF EngineControl
  <2>3. QED
    BY <1>3, <1>6, <2>1, <2>2 DEF EngineControl, history
<1>7. ASSUME UNCHANGED vars PROVE RelayInv' /\ NoReplay'
  BY <1>7 DEF vars, RelayInv, NoReplay, SessionsIndexed, KeysDistinct,
              OpenedBelowMark, PendingSound, BridgeKnown, Live
<1>8. ASSUME NEW a \in Addrs, NEW t \in Tokens, HandshakeDeriveFails(a, t)
      PROVE  RelayInv' /\ NoReplay'
  <2>1. Quiet
    BY <1>8 DEF HandshakeDeriveFails, Quiet
  <2>2. \E pt \in pending : pt.token = t
    BY <1>8 DEF HandshakeDeriveFails, Admitted, Matching
  <2>3. \A pt \in pending' : pt.token # t
    <3>1. \A pt \in pending : pt.token = t => pt \in Matching(t)
      BY <1>8 DEF HandshakeDeriveFails, Admitted, Matching, RelayInv, PendingSound
    <3>2. QED
      BY <1>8, <3>1 DEF HandshakeDeriveFails
  <2>4. PendingSound'
    <3>1. {t} \in SUBSET {pt.token : pt \in pending}
      BY <2>2
    <3>2. /\ owner' = owner /\ pending' \subseteq pending
          /\ spent' = spent \cup {t} /\ \A pt \in pending' : pt.token \notin {t}
      BY <1>8, <2>3 DEF HandshakeDeriveFails
    <3>3. QED
      BY <3>1, <3>2, SpendStep
  <2>5. BridgeKnown'
    BY <1>8, <2>1, QuietStep DEF HandshakeDeriveFails, RelayInv, BridgeKnown
  <2>6. QED
    BY <1>8, <2>1, <2>4, <2>5, QuietStep DEF HandshakeDeriveFails, RelayInv, NoReplay
<1>9. ASSUME NEW a \in Addrs, NEW t \in Tokens, HandshakeAck(a, t)
      PROVE  RelayInv' /\ NoReplay'
  <2>1. PICK pt \in Matching(t) :
          /\ sessions' = [sessions EXCEPT ![pt.pid] = Greet(NewSession(a))]
          /\ addrIndex' = [addrIndex EXCEPT ![a] = pt.pid]
          /\ pending' = pending \ {pt}
    BY <1>9 DEF HandshakeAck, Consume
  <2> DEFINE p == pt.pid
             new == Greet(NewSession(a))
  <2>2. p \in Players /\ pt \in pending /\ pt.token = t
    BY <2>1 DEF Matching, TypeOK, Pending
  <2>3. new # NoSession /\ new.addr = a /\ new.key = nkeys + 1 /\ new.rx = 0
    <3>1. new.addr = a /\ new.key = nkeys + 1 /\ new.rx = 0
      BY DEF Greet, NewSession
    <3>2. TypeOK'
      BY TypeStep
    <3>3. sessions'[p] = new /\ sessions' \in [Players -> Session \cup {NoSession}]
      BY <2>1, <2>2, <3>2 DEF TypeOK
    <3>4. new \in Session
      <4>1. Cardinality(names) \in 0..MaxSends
        BY <1>9, PlayerCount, Constants DEF HandshakeAck, TypeOK
      <4>2. nkeys + 1 \in Keys
        BY <1>9, Constants DEF HandshakeAck, TypeOK, Keys
      <4>3. QED
        BY <4>1, <4>2, Constants DEF Greet, NewSession, Session, Counters
    <3>5. QED
      BY <3>1, <3>4, NoSessionAssumption
  <2>4. \A q \in Players : sessions'[q] = IF q = p THEN new ELSE sessions[q]
    <3>1. sessions' = [sessions EXCEPT ![p] = new] /\ DOMAIN sessions = Players
      BY <2>1 DEF TypeOK
    <3> HIDE DEF new, p
    <3>2. QED
      BY <2>2, <3>1
  <2> HIDE DEF new
  <2>5. \A q \in Live : sessions[q].addr # a
    BY <1>9, Constants DEF HandshakeAck, Routed, RelayInv, SessionsIndexed, Live
  <2>6. SessionsIndexed'
    BY <2>1, <2>2, <2>3, <2>4, <2>5 DEF RelayInv, SessionsIndexed, TypeOK, Session, Live
  <2>7. nkeys \in Nat /\ nkeys' = nkeys + 1 /\ opened' = opened
    BY <1>9, Constants DEF HandshakeAck, TypeOK
  <2>8. KeysDistinct'
    BY <2>2, <2>3, <2>4, <2>7, Constants DEF RelayInv, KeysDistinct, Live, TypeOK, Session, Keys
  <2>9. OpenedBelowMark'
    <3>1. ASSUME NEW e \in opened PROVE e[1] \in Nat /\ e[1] <= nkeys /\ e[2] > 0
      BY Constants DEF TypeOK, Keys, RelayInv, OpenedBelowMark
    <3>2. ASSUME NEW e \in opened, NEW q \in Live', sessions'[q].key = e[1]
          PROVE  e[2] <= sessions'[q].rx
      BY <2>3, <2>4, <2>7, <3>1, <3>2 DEF RelayInv, OpenedBelowMark, Live
    <3>3. QED
      BY <2>7, <3>1, <3>2 DEF OpenedBelowMark
  <2>10. PendingSound'
    <3>1. \A qt \in pending' : qt.token # t
      BY <2>1, <2>2 DEF RelayInv, PendingSound
    <3>2. {t} \in SUBSET {qt.token : qt \in pending}
      BY <2>2
    <3>3. /\ owner' = owner /\ pending' \subseteq pending
          /\ spent' = spent \cup {t} /\ \A qt \in pending' : qt.token \notin {t}
      BY <1>9, <2>1, <3>1 DEF HandshakeAck
    <3>4. QED
      BY <3>2, <3>3, SpendStep
  <2>11. BridgeKnown'
    BY <1>9, <2>2 DEF HandshakeAck, RelayInv, BridgeKnown
  <2>12. QED
    BY <1>9, <2>6, <2>8, <2>9, <2>10, <2>11 DEF HandshakeAck, RelayInv, NoReplay
<1>10. ASSUME NEW a \in Addrs, NEW k \in Keys, NEW c \in Counters \ {0},
              NEW S \in SUBSET Players, Accept(a, k, c, S)
       PROVE  RelayInv' /\ NoReplay'
  <2> DEFINE p == addrIndex[a]
             ss == [sessions EXCEPT ![p] = Heard(@, c)]
  <2>1. Routed(a) /\ Opens(sessions[p], k, c) /\ c \in Counters
    BY <1>10 DEF Accept
  <2>2. /\ p \in Players /\ p \in Live /\ sessions[p] \in Session
        /\ sessions[p].key = k /\ c > sessions[p].rx /\ <<k, c>> \notin opened
    BY <2>1, RoutedType, OpensFresh
  <2>3. ss \in [Players -> Session \cup {NoSession}] /\ ss[p] = Heard(sessions[p], c)
    BY <2>1, <2>2, HeardType DEF TypeOK
  <2>4. \A q \in S : ss[q] # NoSession => ss[q].tx <= MaxSends
    <3>1. \A q \in S : sessions[q] # NoSession => sessions[q].tx <= MaxSends
      BY <1>10 DEF Accept, CanEmit, Live
    <3>2. QED
      BY <2>1, <2>2, <2>3, <3>1, HeardType, NoSessionAssumption DEF TypeOK
  <2>5. sessions' = Emit(ss, S)
    BY <1>10 DEF Accept
  <2>6. /\ \A q \in Players : (ss[q] = NoSession <=> sessions[q] = NoSession)
        /\ \A q \in Live : /\ ss[q].addr = sessions[q].addr /\ ss[q].key = sessions[q].key
                           /\ ss[q].rx >= sessions[q].rx
        /\ ss[p].rx >= c
    <3>1. \A q \in Players : q # p => ss[q] = sessions[q]
      BY <2>2 DEF TypeOK
    <3>2. /\ ss[p] # NoSession /\ ss[p].addr = sessions[p].addr
          /\ ss[p].key = sessions[p].key /\ ss[p].rx >= sessions[p].rx /\ ss[p].rx >= c
      BY <2>1, <2>2, <2>3, HeardType, NoSessionAssumption
    <3>3. \A q \in Live : sessions[q].rx >= sessions[q].rx
      BY Constants DEF TypeOK, Live, Session, Counters
    <3> HIDE DEF ss, p
    <3>4. QED
      BY <2>2, <3>1, <3>2, <3>3 DEF Live
  <2> HIDE DEF ss
  <2>7. /\ Live' = Live
        /\ \A q \in Live : /\ sessions'[q].addr = sessions[q].addr
                           /\ sessions'[q].key = sessions[q].key
                           /\ sessions'[q].rx = ss[q].rx
    BY <2>3, <2>4, <2>5, <2>6, EmitType DEF Live
  <2>8. SessionsIndexed'
    BY <1>10, <2>7 DEF Accept, RelayInv, SessionsIndexed, Live
  <2>9. KeysDistinct'
    <3>1. nkeys' = nkeys
      BY <1>10 DEF Accept
    <3>2. QED
      BY <2>7, <3>1 DEF RelayInv, KeysDistinct
  <2>10. OpenedBelowMark'
    <3>1. opened' = opened \cup {<<k, c>>} /\ nkeys' = nkeys
      BY <1>10 DEF Accept, Remember
    <3>2. k <= nkeys /\ c > 0
      BY <2>2, Constants DEF RelayInv, KeysDistinct, Counters
    <3>3. ASSUME NEW e \in opened, NEW q \in Live, sessions[q].key = e[1]
          PROVE  e[2] <= sessions'[q].rx
      <4>1. e[2] <= sessions[q].rx /\ e[2] \in Int
        BY <3>3 DEF RelayInv, OpenedBelowMark, TypeOK, Counters
      <4>2. sessions[q].rx \in Int /\ ss[q].rx \in Int
        BY <2>3, <2>6, Constants DEF TypeOK, Live, Session, Counters
      <4>3. QED
        BY <2>6, <2>7, <4>1, <4>2
    <3>4. ASSUME NEW q \in Live, sessions[q].key = k PROVE c <= sessions'[q].rx
      <4>1. q = p
        BY <2>2, <3>4 DEF RelayInv, KeysDistinct
      <4>2. ss[p].rx \in Int /\ c \in Int
        BY <2>1, <2>2, <2>3, <2>6, Constants DEF Live, Session, Counters
      <4>3. QED
        BY <2>6, <2>7, <4>1, <4>2
    <3>5. \A e \in opened : e[1] <= nkeys /\ e[2] > 0
      BY DEF RelayInv, OpenedBelowMark
    <3>6. QED
      BY <2>7, <3>1, <3>2, <3>3, <3>4, <3>5 DEF OpenedBelowMark
  <2>11. PendingSound' /\ BridgeKnown'
    BY <1>10, <2>7 DEF Accept, RelayInv, PendingSound, BridgeKnown
  <2>12. NoReplay'
    BY <1>10, <2>2 DEF Accept, Remember, NoReplay
  <2>13. QED
    BY <2>8, <2>9, <2>10, <2>11, <2>12 DEF RelayInv
<1>11. ASSUME NEW a \in Addrs, NEW k \in Keys, NEW c \in Counters \ {0}, Bye(a, k, c)
       PROVE  RelayInv' /\ NoReplay'
  <2> DEFINE p == addrIndex[a]
  <2>1. Routed(a) /\ Opens(sessions[p], k, c)
    BY <1>11 DEF Bye
  <2>2. p \in Live /\ sessions[p].key = k /\ <<k, c>> \notin opened
    BY <2>1, OpensFresh
  <2>3. /\ SessionsIndexed' /\ KeysDistinct' /\ Live' = Live \ {p}
        /\ \A q \in Live' : sessions'[q] = sessions[q]
    <3>1. {p} \in SUBSET Live
      BY <2>2
    <3>2. sessions' = DropSessions({p}) /\ addrIndex' = DropAddrs({p}) /\ nkeys' = nkeys
      BY <1>11 DEF Bye
    <3> HIDE DEF p
    <3>3. QED
      BY <3>1, <3>2, DropStep
  <2>4. OpenedBelowMark'
    <3>1. opened' = opened \cup {<<k, c>>} /\ nkeys' = nkeys
      BY <1>11 DEF Bye, Remember
    <3>2. k <= nkeys /\ c > 0
      BY <2>2, Constants DEF RelayInv, KeysDistinct, Counters
    <3>3. \A q \in Live' : q \in Live /\ sessions'[q] = sessions[q] /\ sessions[q].key # k
      BY <2>2, <2>3 DEF RelayInv, KeysDistinct
    <3>4. QED
      BY <3>1, <3>2, <3>3 DEF RelayInv, OpenedBelowMark
  <2>5. PendingSound' /\ BridgeKnown'
    BY <1>11, <2>3 DEF Bye, RelayInv, PendingSound, BridgeKnown
  <2>6. NoReplay'
    BY <1>11, <2>2 DEF Bye, Remember, NoReplay
  <2>7. QED
    BY <2>3, <2>4, <2>5, <2>6 DEF RelayInv
<1>12. ASSUME Cleanup PROVE RelayInv' /\ NoReplay'
  <2>1. Expired \in SUBSET Live
    BY DEF Expired
  <2>2. /\ SessionsIndexed' /\ KeysDistinct' /\ Live' = Live \ Expired
        /\ \A q \in Live' : sessions'[q] = sessions[q]
    BY <1>12, <2>1, DropStep DEF Cleanup
  <2>3. OpenedBelowMark'
    BY <1>12, <2>2 DEF Cleanup, history, RelayInv, OpenedBelowMark
  <2>4. PendingSound' /\ BridgeKnown'
    BY <1>12, <2>2 DEF Cleanup, history, RelayInv, PendingSound, BridgeKnown, Unexpired
  <2>5. QED
    BY <1>12, <2>2, <2>3, <2>4 DEF Cleanup, history, RelayInv, NoReplay
<1>13. ASSUME Tick PROVE RelayInv' /\ NoReplay'
  <2>1. Quiet
    BY <1>13, NoSessionAssumption, Constants DEF Tick, history, Quiet, TypeOK, Session
  <2> DEFINE older(pt) == [pt EXCEPT !.ttl = IF @ >= 0 THEN @ - 1 ELSE @]
  <2>2. pending' = {older(pt) : pt \in pending} /\ UNCHANGED <<owner, spent>>
    BY <1>13 DEF Tick, history
  <2>3. \A pt \in pending : older(pt).token = pt.token /\ older(pt).pid = pt.pid
    BY DEF TypeOK, Pending
  <2> HIDE DEF older
  <2>4. PendingSound'
    BY <2>2, <2>3 DEF RelayInv, PendingSound
  <2>5. BridgeKnown'
    BY <1>13, <2>1, <2>2, QuietStep DEF Tick, RelayInv, BridgeKnown
  <2>6. QED
    BY <1>13, <2>1, <2>4, <2>5, QuietStep DEF Tick, history, RelayInv, NoReplay
<1>14. ASSUME NEW a \in Addrs, NEW k \in Keys, NEW c \in Counters \ {0}, Ping(a, k, c)
       PROVE  RelayInv' /\ NoReplay'
  <2>1. Accept(a, k, c, {addrIndex[a]})
    BY <1>14 DEF Ping
  <2>2. {addrIndex[a]} \in SUBSET Players
    BY <2>1, RoutedType DEF Accept
  <2>3. QED
    BY <1>10, <2>1, <2>2
<1>15. QED
  <2>1. CASE Control
    BY <2>1, <1>1, <1>4, <1>5, <1>6 DEF Control
  <2>2. CASE Audio
    BY <2>2, <1>7, <1>8, <1>9, <1>10, <1>11, <1>14
       DEF Audio, HandshakeNak, DropEncrypted, AudioUp
  <2>3. QED
    BY <2>1, <2>2, <1>7, <1>12, <1>13 DEF Next

(* In every reachable state each live session is found under its own       *)
(* address, keys are distinct, pending tokens are sound, and no sealed     *)
(* datagram has been processed twice.                                      *)
THEOREM RelayInvariant == Spec => [](RelayInv /\ NoReplay)
<1>1. Init => TypeOK /\ RelayInv /\ NoReplay
  BY InitType, InitInv
<1>2. TypeOK /\ RelayInv /\ NoReplay /\ [Next]_vars
        => TypeOK' /\ RelayInv' /\ NoReplay'
  BY TypeStep, InvStep
<1>3. QED
  BY <1>1, <1>2, PTL DEF Spec

-----------------------------------------------------------------------------
(* What one step of the relay may do to a session: the action properties,  *)
(* from the invariant.                                                     *)

(* The step leaves the session of p alone, or only moves its counters and  *)
(* its age.                                                                *)
Kept(p) ==
    \/ sessions[p] = NoSession /\ sessions'[p] = NoSession
    \/ /\ sessions[p] # NoSession /\ sessions'[p] # NoSession
       /\ sessions'[p].key = sessions[p].key
       /\ sessions'[p].tx >= sessions[p].tx

(* The step ends it: by a Bye, which was processed, or by the timeout,     *)
(* which is reported.                                                      *)
Ended(p) ==
    /\ sessions[p] # NoSession /\ sessions'[p] = NoSession
    /\ opened' # opened \/ (sessions[p].idle > SessionTimeout /\ p \in timeouts')

(* The step creates it from a token. *)
Granted(p) ==
    /\ sessions'[p] # NoSession /\ sessions'[p].key = nkeys + 1
    /\ \E pt \in pending :
         /\ owner[pt.token] = p /\ pt.token \notin spent /\ pt.ttl >= 0
         /\ IpOk(pt, sessions'[p].addr)
         /\ \A q \in pending' : q.token # pt.token

(* A step that leaves the sessions as they are. *)
LEMMA SameKept ==
    ASSUME TypeOK, sessions' = sessions, NEW p \in Players
    PROVE  Kept(p)
<1>1. sessions[p] # NoSession => sessions[p].tx \in Nat
  BY Constants DEF TypeOK, Session
<1>2. QED
  BY <1>1 DEF Kept

(* A step that sends to a set of players. *)
LEMMA EmitKept ==
    ASSUME TypeOK, NEW S \in SUBSET Players, CanEmit(S),
           sessions' = Emit(sessions, S), NEW p \in Players
    PROVE  Kept(p)
<1>1. \A q \in S : sessions[q] # NoSession => sessions[q].tx <= MaxSends
  BY DEF CanEmit, Live
<1>2. sessions \in [Players -> Session \cup {NoSession}]
  BY DEF TypeOK
<1>3. QED
  BY <1>1, <1>2, EmitType DEF Kept

(* A sealed datagram that is accepted and answered. *)
LEMMA AcceptKept ==
    ASSUME TypeOK, NEW a \in Addrs, NEW k \in Keys, NEW c \in Counters \ {0},
           NEW S \in SUBSET Players, Accept(a, k, c, S), NEW p \in Players
    PROVE  Kept(p)
<1> DEFINE q == addrIndex[a]
           heard == [sessions EXCEPT ![q] = Heard(@, c)]
<1>1. Routed(a) /\ q \in Players /\ sessions[q] \in Session
  BY RoutedType DEF Accept
<1>2. /\ Heard(sessions[q], c) \in Session
      /\ Heard(sessions[q], c).key = sessions[q].key
      /\ Heard(sessions[q], c).tx = sessions[q].tx
  BY <1>1, HeardType
<1>3. /\ heard \in [Players -> Session \cup {NoSession}]
      /\ \A r \in Players :
           /\ heard[r] = NoSession <=> sessions[r] = NoSession
           /\ sessions[r] # NoSession =>
                heard[r].key = sessions[r].key /\ heard[r].tx = sessions[r].tx
  BY <1>1, <1>2, NoSessionAssumption DEF TypeOK
<1>4. sessions' = Emit(heard, S)
  BY DEF Accept
<1> HIDE DEF heard
<1>5. \A r \in S : heard[r] # NoSession => heard[r].tx <= MaxSends
  BY <1>3 DEF Accept, CanEmit, Live
<1>6. /\ sessions'[p] = NoSession <=> heard[p] = NoSession
      /\ heard[p] # NoSession =>
           sessions'[p].key = heard[p].key /\ sessions'[p].tx >= heard[p].tx
  BY <1>3, <1>4, <1>5, EmitType
<1>7. QED
  BY <1>3, <1>6 DEF Kept

(* A Bye that opens ends the session it came from, and leaves a trace. *)
LEMMA ByeEnds ==
    ASSUME TypeOK, RelayInv, NEW a \in Addrs, NEW k \in Keys,
           NEW c \in Counters \ {0}, Bye(a, k, c), NEW p \in Players
    PROVE  Kept(p) \/ Ended(p)
<1>1. Routed(a) /\ Opens(sessions[addrIndex[a]], k, c)
  BY DEF Bye
<1>2. <<k, c>> \notin opened
  BY <1>1, OpensFresh
<1>3. opened' # opened
  BY <1>2 DEF Bye, Remember
<1>4. sessions[p] # NoSession => sessions[p].tx \in Nat
  BY Constants DEF TypeOK, Session
<1>5. sessions'[p] = sessions[p] \/ sessions'[p] = NoSession
  BY DEF Bye, DropSessions
<1>6. QED
  BY <1>3, <1>4, <1>5 DEF Kept, Ended

(* A cleanup pass ends the sessions that were silent for too long and      *)
(* reports each: where there is a session, the bridge has been heard.      *)
LEMMA CleanupEnds ==
    ASSUME TypeOK, RelayInv, Cleanup, NEW p \in Players
    PROVE  Kept(p) \/ Ended(p)
<1>1. sessions[p] # NoSession => sessions[p].tx \in Nat
  BY Constants DEF TypeOK, Session
<1>2. CASE p \notin Expired
  BY <1>1, <1>2 DEF Cleanup, DropSessions, Kept
<1>3. CASE p \in Expired
  <2>1. p \in Live /\ sessions[p].idle > SessionTimeout
    BY <1>3 DEF Expired
  <2>2. haveBridge
    BY <2>1 DEF RelayInv, BridgeKnown
  <2>3. p \in timeouts'
    BY <1>3, <2>2 DEF Cleanup, Told
  <2>4. sessions'[p] = NoSession
    BY <1>3 DEF Cleanup, DropSessions
  <2>5. QED
    BY <2>1, <2>3, <2>4 DEF Ended, Live
<1>4. QED
  BY <1>2, <1>3

(* The passing of a second touches no counter. *)
LEMMA TickKeeps ==
    ASSUME TypeOK, Tick, NEW p \in Players
    PROVE  Kept(p)
<1>1. CASE sessions[p] = NoSession \/ sessions[p].idle > SessionTimeout
  <2>1. sessions'[p] = sessions[p]
    BY <1>1 DEF Tick
  <2>2. sessions[p] # NoSession => sessions[p].tx \in Nat
    BY Constants DEF TypeOK, Session
  <2>3. QED
    BY <2>1, <2>2 DEF Kept
<1>2. CASE ~(sessions[p] = NoSession \/ sessions[p].idle > SessionTimeout)
  <2>1. sessions[p] \in Session /\ sessions[p].tx \in Nat
        /\ sessions[p].idle \in 0..SessionTimeout
    BY <1>2, Constants DEF TypeOK, Session
  <2> DEFINE s == [sessions[p] EXCEPT !.idle = @ + 1]
  <2>2. sessions'[p] = s
    BY <1>2 DEF Tick
  <2>3. s \in Session /\ s.key = sessions[p].key /\ s.tx = sessions[p].tx
    BY <2>1, Constants DEF Session
  <2>4. QED
    BY <1>2, <2>1, <2>2, <2>3, NoSessionAssumption DEF Kept
<1>3. QED
  BY <1>1, <1>2

(* A successful handshake grants one session, from a sound token that is   *)
(* gone afterwards, and leaves the others alone.                           *)
LEMMA AckGrants ==
    ASSUME TypeOK, RelayInv, NEW a \in Addrs, NEW t \in Tokens, HandshakeAck(a, t),
           NEW p \in Players
    PROVE  Kept(p) \/ Granted(p)
<1>1. PICK pt \in Matching(t) :
        /\ sessions' = [sessions EXCEPT ![pt.pid] = Greet(NewSession(a))]
        /\ pending' = pending \ {pt}
  BY DEF HandshakeAck, Consume
<1>2. /\ pt \in pending /\ pt.token = t /\ pt.ttl >= 0 /\ pt.pid \in Players
      /\ owner[t] = pt.pid /\ t \notin spent
      /\ \A q \in pending : q.token = t => q = pt
  BY <1>1 DEF Matching, RelayInv, PendingSound, TypeOK, Pending
<1>3. IpOk(pt, a)
  <2>1. PICK qt \in Matching(t) : IpOk(qt, a)
    BY DEF HandshakeAck, Admitted
  <2>2. qt = pt
    BY <1>2 DEF Matching
  <2>3. QED
    BY <2>1, <2>2
<1>4. CASE p = pt.pid
  <2>1. sessions'[p] = Greet(NewSession(a))
    BY <1>1, <1>2, <1>4 DEF TypeOK
  <2>2. Cardinality(names) \in 0..MaxSends /\ nkeys + 1 \in Keys
    BY PlayerCount, Constants DEF HandshakeAck, TypeOK, Keys
  <2>3. Greet(NewSession(a)) \in Session
    BY <2>2, Constants DEF Greet, NewSession, Session, Counters
  <2>4. Greet(NewSession(a)).addr = a /\ Greet(NewSession(a)).key = nkeys + 1
    BY DEF Greet, NewSession
  <2>5. sessions'[p] # NoSession
    BY <2>1, <2>3, NoSessionAssumption
  <2>6. QED
    BY <1>1, <1>2, <1>3, <1>4, <2>1, <2>4, <2>5 DEF Granted
<1>5. CASE p # pt.pid
  <2>1. sessions'[p] = sessions[p]
    BY <1>1, <1>5
  <2>2. sessions[p] # NoSession => sessions[p].tx \in Nat
    BY Constants DEF TypeOK, Session
  <2>3. QED
    BY <2>1, <2>2 DEF Kept
<1>6. QED
  BY <1>4, <1>5

(* Every step but a successful handshake keeps or ends the session of a    *)
(* player.                                                                 *)
Acked == \E a \in Addrs, t \in Tokens : HandshakeAck(a, t)

LEMMA KeptOrEnded ==
    ASSUME TypeOK, RelayInv, [Next]_vars, ~Acked, NEW p \in Players
    PROVE  Kept(p) \/ Ended(p)
<1>1. CASE UNCHANGED vars
  BY <1>1, SameKept DEF vars
<1>2. CASE Control
  <2>1. ASSUME NEW q \in Players, NEW t \in Tokens, NEW ip \in Ips \cup {AnyIp},
               BindToken(q, t, ip)
        PROVE  Kept(p)
    BY <2>1, SameKept DEF BindToken
  <2>2. ASSUME NEW q \in Players, PlayerName(q) PROVE Kept(p)
    BY <2>2, EmitKept DEF PlayerName
  <2>3. ASSUME NEW q \in Players, PlayerGone(q) PROVE Kept(p)
    BY <2>3, SameKept DEF PlayerGone
  <2>4. ASSUME NEW S \in SUBSET Players, EngineControl(S) PROVE Kept(p)
    BY <2>4, EmitKept DEF EngineControl
  <2>5. QED
    BY <1>2, <2>1, <2>2, <2>3, <2>4 DEF Control
<1>3. CASE Audio
  <2>1. ASSUME NEW a \in Addrs, NEW t \in Tokens, HandshakeDeriveFails(a, t)
        PROVE  Kept(p)
    BY <2>1, SameKept DEF HandshakeDeriveFails
  <2>2. ASSUME NEW a \in Addrs, NEW k \in Keys, NEW c \in Counters \ {0}, Ping(a, k, c)
        PROVE  Kept(p)
    <3>1. Accept(a, k, c, {addrIndex[a]})
      BY <2>2 DEF Ping
    <3>2. {addrIndex[a]} \in SUBSET Players
      BY <3>1, RoutedType DEF Accept
    <3>3. QED
      BY <3>1, <3>2, AcceptKept
  <2>3. ASSUME NEW a \in Addrs, NEW k \in Keys, NEW c \in Counters \ {0},
               NEW S \in SUBSET Players, AudioUp(a, k, c, S)
        PROVE  Kept(p)
    BY <2>3, AcceptKept DEF AudioUp
  <2>4. QED
    BY <1>1, <1>3, <2>1, <2>2, <2>3, ByeEnds
       DEF Audio, Acked, HandshakeNak, DropEncrypted
<1>4. QED
  BY <1>1, <1>2, <1>3, CleanupEnds, TickKeeps DEF Next

(* Every step keeps, ends or grants the session of a player. *)
LEMMA SessionFate ==
    ASSUME TypeOK, RelayInv, [Next]_vars, NEW p \in Players
    PROVE  Kept(p) \/ Ended(p) \/ Granted(p)
  BY KeptOrEnded, AckGrants DEF Acked

(* A kept session holds a key that was issued before the step. *)
LEMMA KeptOldKey ==
    ASSUME TypeOK, RelayInv, NEW p \in Players, Kept(p), sessions'[p] # NoSession
    PROVE  sessions'[p].key <= nkeys /\ nkeys \in Nat /\ sessions'[p].key \in Nat
  BY Constants DEF Kept, RelayInv, KeysDistinct, Live, TypeOK, Session, Keys

-----------------------------------------------------------------------------
(* A session is only ever created from a token that was minted for its     *)
(* player, never used or superseded, not expired and presented from an     *)
(* address the IP check admits; the token is gone afterwards.              *)
THEOREM TokenGated == Spec => TokenGate
<1>1. TypeOK /\ RelayInv /\ [Next]_vars =>
        [\A p \in Players :
           sessions'[p] # NoSession /\ sessions'[p].key = nkeys + 1 =>
             \E pt \in pending :
               /\ owner[pt.token] = p /\ pt.token \notin spent /\ pt.ttl >= 0
               /\ IpOk(pt, sessions'[p].addr)
               /\ \A q \in pending' : q.token # pt.token]_vars
  <2> SUFFICES ASSUME TypeOK, RelayInv, [Next]_vars, NEW p \in Players,
                      sessions'[p] # NoSession, sessions'[p].key = nkeys + 1
               PROVE  Granted(p)
    BY DEF Granted
  <2>1. ~Kept(p)
    BY KeptOldKey
  <2>2. ~Ended(p)
    BY DEF Ended
  <2>3. QED
    BY <2>1, <2>2, SessionFate
<1>2. QED
  BY <1>1, TypeCorrect, RelayInvariant, PTL DEF Spec, TokenGate

(* Towards one client, counters grow under one key and restart only under  *)
(* a new one.                                                              *)
THEOREM DownlinkStaysFresh == Spec => DownlinkFresh
<1>1. TypeOK /\ RelayInv /\ [Next]_vars =>
        [\A p \in Players :
           sessions'[p] # NoSession =>
             \/ sessions'[p].key > nkeys
             \/ /\ sessions[p] # NoSession
                /\ sessions'[p].key = sessions[p].key
                /\ sessions'[p].tx >= sessions[p].tx]_vars
  <2> SUFFICES ASSUME TypeOK, RelayInv, [Next]_vars, NEW p \in Players,
                      sessions'[p] # NoSession
               PROVE  \/ sessions'[p].key > nkeys
                      \/ /\ sessions[p] # NoSession
                         /\ sessions'[p].key = sessions[p].key
                         /\ sessions'[p].tx >= sessions[p].tx
    OBVIOUS
  <2>1. CASE Kept(p)
    BY <2>1 DEF Kept
  <2>2. CASE Granted(p)
    <3>1. nkeys \in Nat
      BY Constants DEF TypeOK
    <3>2. QED
      BY <2>2, <3>1 DEF Granted
  <2>3. QED
    BY <2>1, <2>2, SessionFate DEF Ended
<1>2. QED
  BY <1>1, TypeCorrect, RelayInvariant, PTL DEF Spec, DownlinkFresh

(* A session that ends without a Bye was silent for longer than the        *)
(* timeout, and the bridge is told.                                        *)
THEOREM TimeoutsReported == Spec => TimeoutReported
<1>1. TypeOK /\ RelayInv /\ [Next]_vars =>
        [\A p \in Players :
           sessions[p] # NoSession /\ sessions'[p] = NoSession /\ opened' = opened =>
             sessions[p].idle > SessionTimeout /\ p \in timeouts']_vars
  <2> SUFFICES ASSUME TypeOK, RelayInv, [Next]_vars, NEW p \in Players,
                      sessions[p] # NoSession, sessions'[p] = NoSession,
                      opened' = opened
               PROVE  sessions[p].idle > SessionTimeout /\ p \in timeouts'
    OBVIOUS
  <2>1. QED
    BY SessionFate DEF Kept, Ended, Granted
<1>2. QED
  BY <1>1, TypeCorrect, RelayInvariant, PTL DEF Spec, TimeoutReported

-----------------------------------------------------------------------------
(* A handshake adds one session to a table that has room; no other step    *)
(* adds any.                                                               *)
LEMMA CapStep ==
    ASSUME TypeOK, RelayInv, SessionCap, [Next]_vars
    PROVE  SessionCap'
<1>1. IsFiniteSet(Live) /\ Cardinality(Live) \in Nat
  BY PlayerCount DEF Live
<1>2. CASE Acked
  <2>1. PICK a \in Addrs, t \in Tokens : HandshakeAck(a, t)
    BY <1>2 DEF Acked
  <2>2. PICK pt \in Matching(t) :
          sessions' = [sessions EXCEPT ![pt.pid] = Greet(NewSession(a))]
    BY <2>1 DEF HandshakeAck
  <2>3. Cardinality(Live) < MaxPlayers
    BY <2>1 DEF HandshakeAck, Admitted
  <2>4. Live' \subseteq Live \cup {pt.pid}
    BY <2>2 DEF Live, TypeOK
  <2>5. /\ IsFiniteSet(Live \cup {pt.pid})
        /\ Cardinality(Live \cup {pt.pid}) <= Cardinality(Live) + 1
        /\ Cardinality(Live \cup {pt.pid}) \in Nat
    <3> DEFINE L == Live
               x == pt.pid
    <3> HIDE DEF L, x
    <3>1. IsFiniteSet(L) /\ Cardinality(L) \in Nat
      BY <1>1 DEF L
    <3>2. /\ IsFiniteSet(L \cup {x})
          /\ \/ Cardinality(L \cup {x}) = Cardinality(L)
             \/ Cardinality(L \cup {x}) = Cardinality(L) + 1
      BY <3>1, FS_AddElement
    <3>3. QED
      BY <3>1, <3>2 DEF L, x
  <2>6. Cardinality(Live') <= Cardinality(Live \cup {pt.pid})
        /\ Cardinality(Live') \in Nat
    BY <2>4, <2>5, FS_Subset, FS_CardinalityType
  <2>7. QED
    BY <1>1, <2>3, <2>5, <2>6, Constants DEF SessionCap
<1>3. CASE ~Acked
  <2>1. Live' \subseteq Live
    BY <1>3, KeptOrEnded DEF Live, Kept, Ended
  <2>2. Cardinality(Live') <= Cardinality(Live) /\ Cardinality(Live') \in Nat
    BY <1>1, <2>1, FS_Subset, FS_CardinalityType
  <2>3. QED
    BY <1>1, <2>2, Constants DEF SessionCap
<1>4. QED
  BY <1>2, <1>3

(* The session table never exceeds max_players, whatever re-handshakes,    *)
(* timeouts and Byes come between the check and the insertion.             *)
THEOREM SessionsCapped == Spec => []SessionCap
<1>1. Init => SessionCap
  <2> SUFFICES ASSUME Init PROVE SessionCap
    OBVIOUS
  <2>1. Live = {}
    BY DEF Init, Live
  <2>2. QED
    BY <2>1, FS_EmptySet, Constants DEF SessionCap
<1>2. TypeOK /\ RelayInv /\ SessionCap /\ [Next]_vars => SessionCap'
  BY CapStep
<1>3. QED
  BY <1>1, <1>2, TypeCorrect, RelayInvariant, PTL DEF Spec

(* No live session is ever unreachable: a datagram from its own address    *)
(* finds it, whatever re-handshakes and removals have done to m_addrIndex. *)
THEOREM SessionsReachable == Spec => []SessionsIndexed
<1>1. RelayInv => SessionsIndexed
  BY DEF RelayInv
<1>2. QED
  BY <1>1, RelayInvariant, PTL

-----------------------------------------------------------------------------
(* The relay implements SessionSpec: initial states map to initial states, *)
(* and every handler maps to one step of the promise or to none.           *)

(* What the mapping reads from a table in which a player has one entry. *)
LEMMA TokenInIs ==
    ASSUME NEW T, NEW p
    PROVE  /\ Usable(T, p) = {} => TokenIn(T, p) = NoToken
           /\ \A pt \in T :
                /\ pt.pid = p /\ pt.ttl >= 0
                /\ \A qt \in T : qt.pid = p => qt = pt
                => TokenIn(T, p) = pt.token
<1>1. Usable(T, p) = {} => TokenIn(T, p) = NoToken
  BY DEF TokenIn
<1>2. ASSUME NEW pt \in T, pt.pid = p, pt.ttl >= 0,
             \A qt \in T : qt.pid = p => qt = pt
      PROVE  TokenIn(T, p) = pt.token
  <2>1. Usable(T, p) # {} /\ \A qt \in Usable(T, p) : qt = pt
    BY <1>2 DEF Usable
  <2>2. Some(Usable(T, p)) \in Usable(T, p)
    BY <2>1 DEF Some
  <2>3. QED
    BY <2>1, <2>2 DEF TokenIn
<1>3. QED
  BY <1>1, <1>2

(* The mapping reads nothing but the usable entries. *)
LEMMA TokenInSame ==
    ASSUME NEW T, NEW U, NEW p, Usable(T, p) = Usable(U, p)
    PROVE  TokenIn(T, p) = TokenIn(U, p)
  BY DEF TokenIn

(* A step that keeps every session keeps what the mapping reads of them. *)
LEMMA KeptBar ==
    ASSUME \A p \in Players : Kept(p)
    PROVE  sessionBar' = sessionBar
  BY DEF Kept, sessionBar

(* A pending entry a second later. *)
Older(pt) == [pt EXCEPT !.ttl = IF @ >= 0 THEN @ - 1 ELSE @]

LEMMA OlderKeeps ==
    ASSUME NEW pt \in Pending
    PROVE  /\ Older(pt) \in Pending
           /\ Older(pt).pid = pt.pid /\ Older(pt).token = pt.token
           /\ Older(pt).ttl <= pt.ttl
  BY Constants DEF Older, Pending

(* Only BindToken adds an entry, and the passing of time changes none of   *)
(* the players' names in it.                                               *)
LEMMA OneStep == TypeOK /\ OnePerPlayer /\ [Next]_vars => OnePerPlayer'
<1> SUFFICES ASSUME TypeOK, OnePerPlayer, [Next]_vars PROVE OnePerPlayer'
  OBVIOUS
<1>1. ASSUME NEW p \in Players, NEW t \in Tokens, NEW ip \in Ips \cup {AnyIp},
             BindToken(p, t, ip)
      PROVE  OnePerPlayer'
  BY <1>1 DEF BindToken, OnePerPlayer
<1>2. CASE pending' \subseteq pending
  BY <1>2 DEF OnePerPlayer
<1>3. CASE Tick
  <2> SUFFICES ASSUME NEW x \in pending', NEW y \in pending', x.pid = y.pid
              PROVE  x = y
    BY DEF OnePerPlayer
  <2>1. PICK pt \in pending, qt \in pending : x = Older(pt) /\ y = Older(qt)
    BY <1>3 DEF Tick, Older
  <2>2. x.pid = pt.pid /\ y.pid = qt.pid
    BY <2>1, OlderKeeps DEF TypeOK
  <2>3. QED
    BY <2>1, <2>2 DEF OnePerPlayer
<1>4. QED
  BY <1>1, <1>2, <1>3 DEF Next, vars, history, Control, Audio, PlayerName, PlayerGone,
     EngineControl, HandshakeNak, HandshakeDeriveFails, HandshakeAck, Consume,
     DropEncrypted, AudioUp, Ping, Accept, Bye, Cleanup, Unexpired

(* A step that touches no token, key or record and keeps the sessions is   *)
(* no step of the promise.                                                 *)
LEMMA QuietMaps ==
    ASSUME \A p \in Players : Kept(p), pending' = pending, owner' = owner,
           nkeys' = nkeys, opened' = opened
    PROVE  UNCHANGED Promise!vars
<1>1. sessionBar' = sessionBar
  BY KeptBar
<1>2. boundBar' = boundBar /\ mintedBar' = mintedBar
  BY DEF boundBar, mintedBar
<1>3. QED
  BY <1>1, <1>2 DEF Promise!vars

(* BindToken is Bind. *)
LEMMA BindMaps ==
    ASSUME TypeOK, OnePerPlayer, NEW p \in Players, NEW t \in Tokens,
           NEW ip \in Ips \cup {AnyIp}, BindToken(p, t, ip)
    PROVE  Promise!Bind(p, t)
<1> DEFINE new == [token |-> t, pid |-> p, ip |-> ip, ttl |-> TokenTtl]
<1>1. /\ pending' = (pending \ {pt \in pending : pt.pid = p}) \cup {new}
      /\ owner[t] = NoPlayer /\ owner' = [owner EXCEPT ![t] = p]
      /\ sessions' = sessions /\ nkeys' = nkeys /\ opened' = opened
  BY DEF BindToken
<1>2. t \notin mintedBar /\ mintedBar' = mintedBar \cup {t}
  BY <1>1, Constants DEF mintedBar, TypeOK
<1>3. ASSUME NEW q \in Players
      PROVE  TokenIn(pending', q) = IF q = p THEN t ELSE TokenIn(pending, q)
  <2>1. CASE q = p
    <3>1. new \in pending' /\ new.pid = q /\ new.ttl >= 0
          /\ \A qt \in pending' : qt.pid = q => qt = new
      BY <1>1, <2>1, Constants
    <3>2. QED
      BY <2>1, <3>1, TokenInIs
  <2>2. CASE q # p
    <3>1. Usable(pending', q) = Usable(pending, q)
      BY <1>1, <2>2 DEF Usable
    <3>2. QED
      BY <2>2, <3>1, TokenInSame
  <2>3. QED
    BY <2>1, <2>2
<1>4. boundBar' = [boundBar EXCEPT ![p] = t]
  BY <1>3 DEF boundBar
<1>5. sessionBar' = sessionBar
  BY <1>1 DEF sessionBar
<1>6. QED
  BY <1>1, <1>2, <1>4, <1>5 DEF Promise!Bind

(* Taking one entry out of the table takes its player's token, and nothing *)
(* else.                                                                   *)
LEMMA TakeOut ==
    ASSUME OnePerPlayer, NEW pt \in pending, pending' = pending \ {pt},
           NEW q \in Players
    PROVE  TokenIn(pending', q) = IF q = pt.pid THEN NoToken ELSE TokenIn(pending, q)
<1>1. CASE q = pt.pid
  <2>1. Usable(pending', q) = {}
    BY <1>1 DEF Usable, OnePerPlayer
  <2>2. TokenIn(pending', q) = NoToken
    BY <2>1 DEF TokenIn
  <2>3. QED
    BY <1>1, <2>2
<1>2. CASE q # pt.pid
  <2>1. Usable(pending', q) = Usable(pending, q)
    BY <1>2 DEF Usable
  <2>2. TokenIn(pending', q) = TokenIn(pending, q)
    BY <2>1, TokenInSame
  <2>3. QED
    BY <1>2, <2>2
<1>3. QED
  BY <1>1, <1>2

(* A handshake whose key exchange fails loses the token. *)
LEMMA DeriveFailsMaps ==
    ASSUME TypeOK, RelayInv, OnePerPlayer, NEW a \in Addrs, NEW t \in Tokens,
           HandshakeDeriveFails(a, t)
    PROVE  \E T \in SUBSET Players : Promise!Lapse(T, {})
<1>1. PICK pt \in Matching(t) : TRUE
  BY DEF HandshakeDeriveFails, Admitted
<1>2. pt \in pending /\ pt.pid \in Players
  BY <1>1 DEF Matching, TypeOK, Pending
<1>3. Matching(t) = {pt}
  BY <1>1, <1>2 DEF Matching, RelayInv, PendingSound
<1>4. pending' = pending \ {pt}
  BY <1>3 DEF HandshakeDeriveFails
<1>5. boundBar' = [q \in Players |-> IF q \in {pt.pid} THEN NoToken ELSE boundBar[q]]
  BY <1>2, <1>4, TakeOut DEF boundBar
<1>6. /\ sessionBar' = sessionBar /\ mintedBar' = mintedBar
      /\ nkeys' = nkeys /\ opened' = opened
  BY DEF HandshakeDeriveFails, sessionBar, mintedBar
<1>7. sessionBar' = [q \in Players |-> IF q \in {} THEN 0 ELSE sessionBar[q]]
  BY <1>6 DEF sessionBar
<1>8. Promise!Lapse({pt.pid}, {})
  BY <1>5, <1>6, <1>7 DEF Promise!Lapse
<1>9. QED
  BY <1>2, <1>8

(* A handshake that succeeds is Grant. *)
LEMMA AckMaps ==
    ASSUME TypeOK, RelayInv, OnePerPlayer, NEW a \in Addrs, NEW t \in Tokens,
           HandshakeAck(a, t)
    PROVE  \E p \in Players : Promise!Grant(p)
<1>1. PICK pt \in Matching(t) :
        /\ sessions' = [sessions EXCEPT ![pt.pid] = Greet(NewSession(a))]
        /\ pending' = pending \ {pt}
  BY DEF HandshakeAck, Consume
<1>2. pt \in pending /\ pt.pid \in Players /\ pt.token \in Tokens /\ pt.ttl >= 0
  BY <1>1 DEF Matching, TypeOK, Pending
<1>3. boundBar[pt.pid] # NoToken
  <2>1. TokenIn(pending, pt.pid) = pt.token
    BY <1>2, TokenInIs DEF OnePerPlayer
  <2>2. QED
    BY <1>2, <2>1, NoTokenAssumption DEF boundBar
<1>4. boundBar' = [boundBar EXCEPT ![pt.pid] = NoToken]
  BY <1>1, <1>2, TakeOut DEF boundBar
<1>5. Greet(NewSession(a)) # NoSession /\ Greet(NewSession(a)).key = nkeys + 1
  <2>1. Cardinality(names) \in 0..MaxSends /\ nkeys + 1 \in Keys
    BY PlayerCount, Constants DEF HandshakeAck, TypeOK, Keys
  <2>2. Greet(NewSession(a)) \in Session
    BY <2>1, Constants DEF Greet, NewSession, Session, Counters
  <2>3. QED
    BY <2>2, NoSessionAssumption DEF Greet, NewSession
<1>6. sessionBar' = [sessionBar EXCEPT ![pt.pid] = nkeys + 1]
  BY <1>1, <1>2, <1>5 DEF sessionBar, TypeOK
<1>7. mintedBar' = mintedBar /\ nkeys' = nkeys + 1 /\ opened' = opened
  BY DEF HandshakeAck, mintedBar
<1>8. Promise!Grant(pt.pid)
  BY <1>3, <1>4, <1>6, <1>7 DEF Promise!Grant
<1>9. QED
  BY <1>2, <1>8

(* A sealed datagram that opens is Receive, and a Bye ends the session. *)
LEMMA AcceptMaps ==
    ASSUME TypeOK, RelayInv, NEW a \in Addrs, NEW k \in Keys,
           NEW c \in Counters \ {0}, NEW S \in SUBSET Players, Accept(a, k, c, S)
    PROVE  \E p \in Players : Promise!Receive(p, c)
<1> DEFINE q == addrIndex[a]
<1>1. Routed(a) /\ Opens(sessions[q], k, c) /\ opened' = opened \cup {<<k, c>>}
      /\ pending' = pending /\ owner' = owner /\ nkeys' = nkeys
  BY DEF Accept, Remember
<1>2. q \in Players /\ sessions[q] # NoSession /\ sessions[q].key = k
      /\ k # 0 /\ <<k, c>> \notin opened
  BY <1>1, RoutedType, OpensFresh DEF Routed, Keys
<1>3. sessionBar[q] = k
  BY <1>2 DEF sessionBar
<1>4. sessionBar' = sessionBar
  BY AcceptKept, KeptBar
<1>5. boundBar' = boundBar /\ mintedBar' = mintedBar
  BY <1>1 DEF boundBar, mintedBar
<1>6. Promise!Receive(q, c)
  BY <1>1, <1>2, <1>3, <1>4, <1>5 DEF Promise!Receive
<1>7. QED
  BY <1>2, <1>6

LEMMA ByeMaps ==
    ASSUME TypeOK, RelayInv, NEW a \in Addrs, NEW k \in Keys,
           NEW c \in Counters \ {0}, Bye(a, k, c)
    PROVE  \E p \in Players : Promise!Receive(p, c)
<1> DEFINE q == addrIndex[a]
<1>1. Routed(a) /\ Opens(sessions[q], k, c) /\ opened' = opened \cup {<<k, c>>}
      /\ pending' = pending /\ owner' = owner /\ nkeys' = nkeys
      /\ sessions' = DropSessions({q})
  BY DEF Bye, Remember
<1>2. q \in Players /\ sessions[q] # NoSession /\ sessions[q].key = k
      /\ k # 0 /\ <<k, c>> \notin opened
  BY <1>1, RoutedType, OpensFresh DEF Routed, Keys
<1>3. sessionBar[q] = k
  BY <1>2 DEF sessionBar
<1>4. sessionBar' = [sessionBar EXCEPT ![q] = 0]
  BY <1>1, <1>2 DEF sessionBar, DropSessions
<1>5. boundBar' = boundBar /\ mintedBar' = mintedBar
  BY <1>1 DEF boundBar, mintedBar
<1>6. Promise!Receive(q, c)
  BY <1>1, <1>2, <1>3, <1>4, <1>5 DEF Promise!Receive
<1>7. QED
  BY <1>2, <1>6

(* A cleanup pass lets sessions lapse; the tokens it sweeps were worthless *)
(* already.                                                                *)
LEMMA CleanupMaps ==
    ASSUME TypeOK, Cleanup
    PROVE  \E S \in SUBSET Players : Promise!Lapse({}, S)
<1>1. sessionBar' = [p \in Players |-> IF p \in Expired THEN 0 ELSE sessionBar[p]]
  BY DEF Cleanup, DropSessions, sessionBar
<1>2. ASSUME NEW p \in Players PROVE TokenIn(pending', p) = TokenIn(pending, p)
  <2>1. Usable(pending', p) = Usable(pending, p)
    BY DEF Cleanup, Unexpired, Usable
  <2>2. QED
    BY <2>1, TokenInSame
<1>3. boundBar' = [p \in Players |-> IF p \in {} THEN NoToken ELSE boundBar[p]]
  BY <1>2 DEF boundBar
<1>4. mintedBar' = mintedBar /\ nkeys' = nkeys /\ opened' = opened
  BY DEF Cleanup, history, mintedBar
<1>5. Expired \in SUBSET Players
  BY DEF Expired, Live
<1>6. Promise!Lapse({}, Expired)
  BY <1>1, <1>3, <1>4 DEF Promise!Lapse
<1>7. QED
  BY <1>5, <1>6

(* A second that passes lets tokens lapse. *)
LEMMA TickMaps ==
    ASSUME TypeOK, OnePerPlayer, OnePerPlayer', TypeOK', Tick
    PROVE  \E T \in SUBSET Players : Promise!Lapse(T, {})
<1> DEFINE T == {p \in Players : Usable(pending', p) = {}}
<1>1. ASSUME NEW p \in Players
      PROVE  TokenIn(pending', p) = IF p \in T THEN NoToken ELSE TokenIn(pending, p)
  <2>1. CASE p \in T
    <3>1. Usable(pending', p) = {}
      BY <2>1
    <3>2. TokenIn(pending', p) = NoToken
      BY <3>1 DEF TokenIn
    <3>3. QED
      BY <2>1, <3>2
  <2>2. CASE p \notin T
    <3>1. PICK x \in pending' : x.pid = p /\ x.ttl >= 0
      BY <2>2 DEF Usable
    <3>2. PICK pt \in pending : x = Older(pt)
      BY DEF Tick, Older
    <3>3. pt \in Pending
      BY DEF TypeOK
    <3>4. pt.pid = p /\ pt.ttl >= 0 /\ pt.token = x.token
      BY <3>1, <3>2, <3>3, OlderKeeps, Constants DEF Pending
    <3>5. TokenIn(pending, p) = pt.token
      BY <3>4, TokenInIs DEF OnePerPlayer
    <3>6. TokenIn(pending', p) = x.token
      BY <3>1, TokenInIs DEF OnePerPlayer
    <3>7. QED
      BY <2>2, <3>4, <3>5, <3>6
  <2>3. QED
    BY <2>1, <2>2
<1> HIDE DEF T
<1>2. boundBar' = [p \in Players |-> IF p \in T THEN NoToken ELSE boundBar[p]]
  BY <1>1 DEF boundBar
<1>3. sessionBar' = sessionBar
  BY TickKeeps, KeptBar
<1>4. sessionBar' = [p \in Players |-> IF p \in {} THEN 0 ELSE sessionBar[p]]
  BY <1>3 DEF sessionBar
<1>5. mintedBar' = mintedBar /\ nkeys' = nkeys /\ opened' = opened
  BY DEF Tick, history, mintedBar
<1>6. Promise!Lapse(T, {})
  BY <1>2, <1>4, <1>5 DEF Promise!Lapse
<1>7. T \in SUBSET Players
  BY DEF T
<1>8. QED
  BY <1>6, <1>7

(* Every step of the relay is a step of the promise or leaves it alone. *)
LEMMA StepMaps ==
    ASSUME TypeOK, TypeOK', RelayInv, OnePerPlayer, OnePerPlayer', [Next]_vars
    PROVE  [Promise!Next]_(Promise!vars)
<1>1. CASE UNCHANGED vars
  <2>1. \A p \in Players : Kept(p)
    BY <1>1, SameKept DEF vars
  <2>2. QED
    BY <1>1, <2>1, QuietMaps DEF vars, history
<1>2. CASE Control
  <2>1. ASSUME NEW p \in Players, NEW t \in Tokens, NEW ip \in Ips \cup {AnyIp},
               BindToken(p, t, ip)
        PROVE  Promise!Next
    BY <2>1, BindMaps DEF Promise!Next
  <2>2. ASSUME NEW p \in Players, PlayerName(p) PROVE UNCHANGED Promise!vars
    <3>1. \A q \in Players : Kept(q)
      BY <2>2, EmitKept DEF PlayerName
    <3>2. QED
      BY <2>2, <3>1, QuietMaps DEF PlayerName, history
  <2>3. ASSUME NEW p \in Players, PlayerGone(p) PROVE UNCHANGED Promise!vars
    <3>1. \A q \in Players : Kept(q)
      BY <2>3, SameKept DEF PlayerGone
    <3>2. QED
      BY <2>3, <3>1, QuietMaps DEF PlayerGone, history
  <2>4. ASSUME NEW S \in SUBSET Players, EngineControl(S) PROVE UNCHANGED Promise!vars
    <3>1. \A q \in Players : Kept(q)
      BY <2>4, EmitKept DEF EngineControl
    <3>2. QED
      BY <2>4, <3>1, QuietMaps DEF EngineControl, history
  <2>5. QED
    BY <1>2, <2>1, <2>2, <2>3, <2>4 DEF Control
<1>3. CASE Audio
  <2>1. ASSUME NEW a \in Addrs, NEW t \in Tokens, HandshakeDeriveFails(a, t)
        PROVE  Promise!Next
    BY <2>1, DeriveFailsMaps DEF Promise!Next
  <2>2. ASSUME NEW a \in Addrs, NEW t \in Tokens, HandshakeAck(a, t)
        PROVE  Promise!Next
    BY <2>2, AckMaps DEF Promise!Next
  <2>3. ASSUME NEW a \in Addrs, NEW k \in Keys, NEW c \in Counters \ {0},
               NEW S \in SUBSET Players, Accept(a, k, c, S)
        PROVE  Promise!Next
    BY <2>3, AcceptMaps DEF Promise!Next
  <2>4. ASSUME NEW a \in Addrs, NEW k \in Keys, NEW c \in Counters \ {0}, Ping(a, k, c)
        PROVE  Promise!Next
    <3>1. Accept(a, k, c, {addrIndex[a]})
      BY <2>4 DEF Ping
    <3>2. {addrIndex[a]} \in SUBSET Players
      BY <3>1, RoutedType DEF Accept
    <3>3. QED
      BY <3>1, <3>2, <2>3
  <2>5. ASSUME NEW a \in Addrs, NEW k \in Keys, NEW c \in Counters \ {0}, Bye(a, k, c)
        PROVE  Promise!Next
    BY <2>5, ByeMaps DEF Promise!Next
  <2>6. QED
    BY <1>1, <1>3, <2>1, <2>2, <2>3, <2>4, <2>5
       DEF Audio, AudioUp, HandshakeNak, DropEncrypted
<1>4. CASE Cleanup
  BY <1>4, CleanupMaps DEF Promise!Next
<1>5. CASE Tick
  BY <1>5, TickMaps DEF Promise!Next
<1>6. QED
  BY <1>1, <1>2, <1>3, <1>4, <1>5 DEF Next

(* The relay implements its promise: handleHandshake, handleEncrypted,     *)
(* controlLoop and cleanupLoop together never let a token open two         *)
(* sessions, a key serve two sessions, or a datagram act twice.            *)
THEOREM PromiseKept == Spec => KeepsPromise
<1>1. Init => Promise!Init /\ OnePerPlayer
  <2> SUFFICES ASSUME Init PROVE Promise!Init /\ OnePerPlayer
    OBVIOUS
  <2>1. boundBar = [p \in Players |-> NoToken]
    BY DEF Init, boundBar, TokenIn, Usable
  <2>2. sessionBar = [p \in Players |-> 0] /\ mintedBar = {}
    BY DEF Init, sessionBar, mintedBar
  <2>3. QED
    BY <2>1, <2>2 DEF Init, Promise!Init, OnePerPlayer
<1>2. TypeOK /\ OnePerPlayer /\ [Next]_vars => OnePerPlayer'
  BY OneStep
<1>3. TypeOK /\ TypeOK' /\ RelayInv /\ OnePerPlayer /\ OnePerPlayer' /\ [Next]_vars
        => [Promise!Next]_(Promise!vars)
  BY StepMaps
<1>4. Spec => []TypeOK
  BY TypeCorrect
<1>5. Spec => [](RelayInv /\ NoReplay)
  BY RelayInvariant
<1>6. QED
  BY <1>1, <1>2, <1>3, <1>4, <1>5, PTL DEF Spec, KeepsPromise, Promise!Spec
=============================================================================
