------------------------------ MODULE Playback ------------------------------
(***************************************************************************)
(* The client's playback (client/src/audio_playback.cpp): the adaptive     *)
(* jitter buffer of one stream between the receive thread, which inserts   *)
(* frames, and the mix thread, which plays one per tick; and the render    *)
(* device, which the panel may switch at any time.                         *)
(*                                                                         *)
(* Streams do not influence each other, so one is modelled; proximity and  *)
(* bus streams treat their buffers alike.  m_mtx makes an insertion and    *)
(* one stream's part of a mix tick atomic.  A frame is its number; the     *)
(* speaker sends fewer than 2^16 of them, so the numbers do not wrap.      *)
(* Frames are pushed in any order, which is more than the program's own    *)
(* callers do: the replay checks on the way drop overtaken datagrams.      *)
(***************************************************************************)
EXTENDS Integers, Sequences, SequencesExt

CONSTANTS
    JitterMin,     \* JITTER_MIN, 2 in the code
    JitterMax,     \* JITTER_MAX, 10
    JitterCap,     \* JITTER_CAP, 16
    FirstTarget,   \* Stream.target of a new stream, 3
    StarveReset,   \* STARVE_RESET, 10
    StableShrink,  \* STABLE_SHRINK, 250
    Frames         \* bound: frames the speaker sends

ASSUME Constants ==
    /\ {JitterMin, FirstTarget, JitterMax, JitterCap, StarveReset, StableShrink} \subseteq Nat
    /\ 0 < JitterMin /\ JitterMin <= FirstTarget /\ FirstTarget <= JitterMax
    /\ JitterMax < JitterCap /\ 0 < StarveReset /\ 0 < StableShrink
    /\ Frames \in 1..65535

VARIABLES
    sent,     \* frames the speaker has sent: 0 .. sent - 1
    net,      \* the ones in flight
    jitter,   \* Stream.jitter
    target, playing, starve, stable, \* the Stream fields of these names
    played,   \* number of the last frame played from this stream, or -1
    late,     \* frames that arrived after a later one had been played
    running,  \* the mix thread runs
    client, render, \* m_client and m_render are set
    opening   \* restartOnDevice: the endpoint to be opened next, or "none"

link == <<sent, net>>
stream == <<jitter, target, playing, starve, stable, played, late>>
device == <<running, client, render, opening>>
vars == <<link, stream, device>>

Init ==
    /\ sent = 0 /\ net = {}
    /\ jitter = <<>> /\ target = FirstTarget /\ playing = FALSE
    /\ starve = 0 /\ stable = 0 /\ played = -1 /\ late = {}
    /\ running = FALSE /\ client = FALSE /\ render = FALSE /\ opening = "default"

-----------------------------------------------------------------------------
(* The speaker and the network *)
Speak ==
    /\ sent < Frames
    /\ sent' = sent + 1 /\ net' = net \cup {sent}
    /\ UNCHANGED <<stream, device>>

Lose(n) ==
    /\ n \in net
    /\ net' = net \ {n}
    /\ UNCHANGED <<sent, stream, device>>

-----------------------------------------------------------------------------
(* Where a frame goes: after the leading frames with smaller numbers.      *)
(* Mutant: at the end.                                                     *)
InsertLast(q, n) == Append(q, n)
Insert(q, n) ==
    LET before == {k \in 0..Len(q) : \A i \in 1..k : q[i] < n}
    IN  InsertAt(q, 1 + CHOOSE k \in before : \A j \in before : j <= k, n)

(* The hard cap drops the frame at the front.  Mutant: a cap below the     *)
(* depth that is prebuffered.                                              *)
CappedLow(q) == IF Len(q) >= JitterMax THEN Tail(q) ELSE q
Capped(q) == IF Len(q) > JitterCap THEN Tail(q) ELSE q

(* pushProximity, pushBus *)
Push(n) ==
    /\ n \in net
    /\ net' = net \ {n}
    /\ jitter' = Capped(Insert(jitter, n))
    /\ late' = IF n < played THEN late \cup {n} ELSE late
    /\ UNCHANGED <<sent, target, playing, starve, stable, played, device>>

(* removeSpeaker: the stream goes; the next frame starts a new one. *)
RemoveSpeaker ==
    /\ jitter' = <<>> /\ target' = FirstTarget /\ playing' = FALSE
    /\ starve' = 0 /\ stable' = 0 /\ played' = -1 /\ late' = {}
    /\ UNCHANGED <<link, device>>

-----------------------------------------------------------------------------
(* loop: a tick that finds a frame plays it; a long healthy run shrinks    *)
(* the target.  `stable` keeps counting at JITTER_MIN, where it is not     *)
(* read any further.                                                       *)
Play ==
    /\ played' = Head(jitter) /\ jitter' = Tail(jitter) /\ starve' = 0
    /\ LET healthy == Len(jitter) >= target
           shrink == healthy /\ stable + 1 >= StableShrink /\ target > JitterMin
       IN  /\ target' = IF shrink THEN target - 1 ELSE target
           /\ stable' = IF shrink \/ ~healthy THEN 0
                        ELSE IF stable < StableShrink THEN stable + 1 ELSE stable
    /\ playing' = TRUE
    /\ UNCHANGED late

(* An underrun raises the target; enough of them in a row end the playout. *)
Starved ==
    /\ target' = IF target < JitterMax THEN target + 1 ELSE target
    /\ stable' = 0
    /\ starve' = IF starve + 1 >= StarveReset THEN 0 ELSE starve + 1
    /\ playing' = (starve + 1 < StarveReset)
    /\ UNCHANGED <<jitter, played, late>>

(* Enough is buffered to start playing.  Mutant: one more is waited for. *)
ReadyMore == Len(jitter) > target
Ready == Len(jitter) >= target

(* One tick for the stream: prebuffer, then play. *)
Tick ==
    /\ running
    /\ LET plays == playing \/ Ready
       IN  \/ plays /\ jitter # <<>> /\ Play
           \/ plays /\ jitter = <<>> /\ Starved
           \/ ~plays /\ UNCHANGED stream
    /\ UNCHANGED <<sent, net, device>>

-----------------------------------------------------------------------------
(* stopStream joins the mix thread before it releases the client.  Mutant: *)
(* it only releases.                                                       *)
StopStreamNoJoin == client' = FALSE /\ render' = FALSE /\ UNCHANGED running
StopStream == running' = FALSE /\ client' = FALSE /\ render' = FALSE

(* restartOnDevice up to the first openAndStart: the chosen endpoint, or   *)
(* the default one when it cannot be found.                                *)
RestartOnDevice(which) ==
    /\ opening = "none"
    /\ StopStream
    /\ opening' = which
    /\ UNCHANGED <<link, stream>>

(* openAndStart.  A failure before Activate succeeded leaves everything as *)
(* it was, one in Initialize or GetService leaves the client, one in Start *)
(* the renderer too.  A chosen endpoint that fails is followed by the      *)
(* default one, the default by nothing.                                    *)
OpenAndStart(gotClient, gotRender, started) ==
    /\ opening # "none"
    /\ gotRender => gotClient
    /\ started => gotRender
    /\ client' = (client \/ gotClient) /\ render' = (render \/ gotRender)
    /\ running' = started
    /\ opening' = IF opening = "chosen" /\ ~started THEN "default" ELSE "none"
    /\ UNCHANGED <<link, stream>>

-----------------------------------------------------------------------------
Restart == \E which \in {"chosen", "default"} : RestartOnDevice(which)
Open == \E c, r, s \in BOOLEAN : OpenAndStart(c, r, s)

Next ==
    \/ Speak
    \/ \E n \in net : Lose(n) \/ Push(n)
    \/ RemoveSpeaker
    \/ Tick
    \/ Restart
    \/ Open

(* The mix thread keeps ticking while it runs. *)
Spec == Init /\ [][Next]_vars /\ WF_vars(Tick)

-----------------------------------------------------------------------------
(* Whatever the network does to the order of the frames, one is played     *)
(* after a later one only when it arrived after that one had been played:  *)
(* the buffer undoes every reordering it can.                              *)
PlayoutInOrder ==
    [][played' # played => played' > played \/ played' \in late \/ played' = -1]_vars

(* The hard cap costs only latency: a frame is thrown away only while the  *)
(* buffer holds all that a playout waits for, whatever the underruns made  *)
(* of the target.  Otherwise a prebuffer could never fill.                 *)
EvictsOnlyWhenReady ==
    [][\A n \in net : Push(n) /\ Len(jitter') <= Len(jitter) => Len(jitter) >= target]_vars

(* A buffer that holds its target is eventually played. *)
PlayoutStarts == []<>(playing \/ Len(jitter) < target \/ ~running)

(* The mix thread dereferences m_client and m_render without a check: it   *)
(* runs only while both are set, through any sequence of device switches   *)
(* and failed opens.                                                       *)
MixerHasDevice == running => client /\ render
=============================================================================
