------------------------- MODULE ClientSessionProofs -------------------------
(***************************************************************************)
(* Theorems about the client's connection manager, for any tokens and any  *)
(* timeouts.                                                               *)
(***************************************************************************)
EXTENDS ClientSession, TLAPS

(* The variables' types.  The backoff stays between its two bounds and the *)
(* ages saturate.                                                          *)
Flags ==
    /\ established \in BOOLEAN /\ nak \in BOOLEAN /\ keysOk \in BOOLEAN
    /\ later \in BOOLEAN /\ dead \in BOOLEAN /\ stopping \in BOOLEAN
Ranges ==
    /\ inbox \in Tokens \cup {NoToken} /\ tok \in Tokens \cup {NoToken}
    /\ presented \in Tokens \cup {NoToken}
    /\ pc \in {"top", "check", "begin", "keyed", "reset", "wait", "backoff", "bye", "stopped"}
    /\ rpc \in {"none", "head", "recv", "got", "derived"}
    /\ msg \in {"none", "ackNow", "ackOld", "nak", "sealed"}
    /\ mark \in {"zero", "ours", "older"}
    /\ answerable \subseteq {"ackNow", "ackOld"}
    /\ timer \in 0..Longest /\ backoff \in BaseBackoff..MaxBackoff
    /\ lag \in 0..(RxTimeout + 1) /\ rxAge \in 0..(RxTimeout + 1)
    /\ pingAge \in 0..(PingInterval + 1)
TypeOK == Flags /\ Ranges

LEMMA TypeInit == Init => TypeOK
<1> SUFFICES ASSUME Init PROVE TypeOK
  OBVIOUS
<1>1. Longest \in Nat
  BY Constants DEF Longest
<1>2. Flags
  BY DEF Init, Flags
<1>3. Ranges
  BY <1>1, Constants DEF Init, Ranges
<1>4. QED
  BY <1>2, <1>3 DEF TypeOK

LEMMA TypeStep == TypeOK /\ [Next]_vars => TypeOK'
<1> SUFFICES ASSUME TypeOK, [Next]_vars PROVE TypeOK'
  OBVIOUS
<1>0. Longest \in Nat
  BY Constants DEF Longest
<1> USE Constants, <1>0 DEF TypeOK, loopVars, recvVars, envVars
<1>1. CASE TickStart
  <2>1. Flags'
    BY <1>1 DEF Flags, TickStart, SampledLag
  <2>2. Ranges'
    BY <1>1 DEF Ranges, TickStart, SampledLag
  <2>3. QED
    BY <2>1, <2>2
<1>2. CASE CheckRx
  <2>1. Flags'
    BY <1>2 DEF Flags, CheckRx
  <2>2. Ranges'
    BY <1>2 DEF Ranges, CheckRx
  <2>3. QED
    BY <2>1, <2>2
<1>3. CASE Begin
  BY <1>3 DEF Flags, Ranges, Begin, Latest
<1>4. CASE Rekey
  BY <1>4 DEF Flags, Ranges, Rekey
<1>5. CASE Reset
  <2>1. Flags'
    BY <1>5 DEF Flags, Reset
  <2>2. Ranges'
    BY <1>5 DEF Ranges, Reset
  <2>3. QED
    BY <2>1, <2>2
<1>6. CASE Request
  BY <1>6 DEF Flags, Ranges, Request
<1>7. CASE RequestFails
  BY <1>7 DEF Flags, Ranges, RequestFails
<1>8. CASE Connected
  BY <1>8 DEF Flags, Ranges, Connected
<1>9. CASE Refused
  BY <1>9 DEF Flags, Ranges, Refused
<1>10. CASE Retry
  BY <1>10 DEF Flags, Ranges, Retry, Doubled, AtMost
<1>11. CASE Leave
  BY <1>11 DEF Flags, Ranges, Leave
<1>12. CASE Disconnect
  <2>1. Flags'
    BY <1>12 DEF Flags, Disconnect
  <2>2. Ranges'
    BY <1>12 DEF Ranges, Disconnect
  <2>3. QED
    BY <2>1, <2>2
<1>13. CASE RecvEnter
  BY <1>13 DEF Flags, Ranges, RecvEnter
<1>14. CASE RecvIdle
  BY <1>14 DEF Flags, Ranges, RecvIdle
<1>15. CASE HandleNak
  BY <1>15 DEF Flags, Ranges, HandleNak
<1>16. CASE HandleAck
  BY <1>16 DEF Flags, Ranges, HandleAck
<1>17. CASE Establish
  BY <1>17 DEF Flags, Ranges, Establish, FreshMark
<1>18. CASE HandleSealed
  BY <1>18 DEF Flags, Ranges, HandleSealed
<1>19. CASE HandleDrop
  BY <1>19 DEF Flags, Ranges, HandleDrop
<1>20. CASE Arrive
  BY <1>20 DEF Flags, Ranges, Arrive, Receive
<1>21. CASE Pass
  BY <1>21 DEF Flags, Ranges, Pass, AtMost
<1>22. ASSUME NEW t \in Tokens, TokenArrives(t) PROVE TypeOK'
  BY <1>22 DEF Flags, Ranges, TokenArrives
<1>23. CASE RelayDies
  BY <1>23 DEF Flags, Ranges, RelayDies
<1>24. CASE Stop
  BY <1>24 DEF Flags, Ranges, Stop
<1>25. CASE UNCHANGED vars
  BY <1>25 DEF Flags, Ranges, vars
<1>26. QED
  BY <1>1, <1>2, <1>3, <1>4, <1>5, <1>6, <1>7, <1>8, <1>9, <1>10, <1>11, <1>12, <1>13,
    <1>14, <1>15, <1>16, <1>17, <1>18, <1>19, <1>20, <1>21, <1>22, <1>23, <1>24, <1>25
    DEF Next, Loop, Recv, Handle

(* The client's variables keep their types, however the two threads, the   *)
(* network and the clock interleave.                                       *)
THEOREM ClientTypes == Spec => []TypeOK
BY TypeInit, TypeStep, PTL DEF Spec

-----------------------------------------------------------------------------
(* What brings the session up, marks the replay window or moves the        *)
(* receive thread: the only steps that matter to the two invariants.       *)
LEMMA SessionSteps ==
    ASSUME [Next]_vars
    PROVE  \/ established' = FALSE /\ mark' = mark /\ rpc' = rpc /\ pc' # "stopped"
           \/ Reset \/ Establish \/ HandleAck \/ HandleSealed \/ Disconnect
           \/ /\ established' = TRUE => established
              /\ mark' = mark /\ (pc' = "stopped" => pc = "stopped")
              /\ \/ rpc' = rpc
                 \/ rpc' = "head"
                 \/ rpc = "head" /\ rpc' = "recv" /\ SessionRuns /\ pc' = pc
                 \/ rpc = "recv" /\ rpc' = "got" /\ pc' = pc
<1> USE DEF loopVars, recvVars, envVars
<1>1. CASE Loop
  BY <1>1 DEF Loop, TickStart, CheckRx, Begin, Rekey, Request, RequestFails, Connected,
    Refused, Retry, Leave
<1>2. CASE Recv
  BY <1>2 DEF Recv, Handle, RecvEnter, RecvIdle, HandleNak, HandleDrop
<1>3. CASE Arrive
  BY <1>3 DEF Arrive, Receive
<1>4. CASE Pass \/ RelayDies \/ Stop \/ \E t \in Tokens : TokenArrives(t)
  BY <1>4 DEF Pass, RelayDies, Stop, TokenArrives
<1>5. CASE UNCHANGED vars
  BY <1>5 DEF vars
<1>6. QED
  BY <1>1, <1>2, <1>3, <1>4, <1>5 DEF Next

LEMMA MarkStep ==
    ASSUME MarkFresh, [Next]_vars
    PROVE  MarkFresh'
<1> USE DEF MarkFresh
<1>1. CASE Reset
  BY <1>1 DEF Reset
<1>2. CASE Establish
  BY <1>2 DEF Establish, FreshMark
<1>3. CASE HandleAck
  BY <1>3 DEF HandleAck
<1>4. CASE HandleSealed
  BY <1>4 DEF HandleSealed
<1>5. CASE Disconnect
  BY <1>5 DEF Disconnect
<1>6. QED
  BY SessionSteps, <1>1, <1>2, <1>3, <1>4, <1>5

(* No session is up with a replay mark of older keys, although the Ack may *)
(* come late and the connection thread may start over meanwhile.           *)
THEOREM MarkIsFresh == Spec => []MarkFresh
<1>1. Init => MarkFresh
  BY DEF Init, MarkFresh
<1>2. QED
  BY <1>1, MarkStep, PTL DEF Spec

LEMMA StopStep ==
    ASSUME StopFinal, [Next]_vars
    PROVE  StopFinal'
<1> USE DEF StopFinal, loopVars, recvVars, envVars
<1>1. CASE Reset
  BY <1>1 DEF Reset
<1>2. CASE Establish
  BY <1>2 DEF Establish
<1>3. CASE HandleAck
  BY <1>3 DEF HandleAck
<1>4. CASE HandleSealed
  BY <1>4 DEF HandleSealed
<1>5. CASE Disconnect
  BY <1>5 DEF Disconnect, RecvJoined
<1>6. QED
  BY SessionSteps, <1>1, <1>2, <1>3, <1>4, <1>5 DEF SessionRuns

(* Once stop() has returned, the session is down for good and the receive  *)
(* thread is not inside a datagram.                                        *)
THEOREM StopIsFinal == Spec => []StopFinal
<1>1. Init => StopFinal
  BY DEF Init, StopFinal
<1>2. QED
  BY <1>1, StopStep, PTL DEF Spec
=============================================================================
