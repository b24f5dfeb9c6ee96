----------------------------- MODULE ClientApp ------------------------------
(***************************************************************************)
(* The client as the player meets it: the worker thread that starts        *)
(* everything and then polls the keyboard (dllmain.cpp), the game's render *)
(* thread with the EndScene hook that draws the settings panel             *)
(* (d3d9_overlay.cpp, voice_panel.cpp), the microphone with its capture    *)
(* thread (audio_capture.cpp) and voicechat.ini (client_config.h), through *)
(* any number of starts and ends of the game.                              *)
(*                                                                         *)
(* Of the settings the panel edits, the model keeps the voice mode, the    *)
(* microphone, and the key the worker rebinds; volumes and thresholds are  *)
(* left out.  The build is the one with the panel, where the HUD has no    *)
(* window of its own.                                                      *)
(***************************************************************************)
EXTENDS Integers, FiniteSets, FiniteSetsExt

CONSTANTS
    Names,      \* what can stand for a device's name in voicechat.ini
    Mics,       \* the names microphones can have
    DefaultMic, \* the empty name: the system's default
    Cut,        \* what is left of a name up to its first ';', trimmed
    BindKeys,   \* the keys the player presses to rebind push-to-talk
    TryEvery,   \* 60: polls between two tries to hook the renderer
    Scenarios   \* bound: what the player and the system do in one behaviour

VK_BACK == 8
VK_ESCAPE == 27
VK_INSERT == 45
VK_N == 78
VK_F9 == 120
Digits == 48..57
(* The keys with a name: letters, function, editing, arrow and modifier    *)
(* keys, two mouse buttons, tilde, and "NONE" for 0.                       *)
Named == (65..90) \cup (112..123) \cup (32..40) \cup (160..165)
             \cup {0, 5, 6, 9, 13, 20, 45, 46, 192}

ASSUME Constants ==
    /\ Mics \subseteq Names \ {DefaultMic} /\ DefaultMic \in Names
    /\ Cut \in [Names -> Names] /\ Cut[DefaultMic] = DefaultMic
    /\ \A d \in Names : Cut[Cut[d]] = Cut[d]
    /\ BindKeys \subseteq 8..254
    /\ TryEvery \in Nat \ {0}
    /\ Scenarios \subseteq SUBSET {"mode", "mic", "rebind", "talk", "file"}

VARIABLES
    phase,    \* where the worker thread is
    cfg,      \* g_cfg
    file,     \* voicechat.ini; without it, or emptied, as with the defaults
    set,      \* g_set: what the panel shows
    cap,      \* the switches of AudioCapture: vad, ptt, muted
    mic,      \* the stream of AudioCapture
    gate,     \* where the capture thread is with a frame
    hook,     \* of EndScene: "none", "created" or "on"
    tries,    \* guiTry, until the hook is on
    open,     \* s_panelOpen
    lastOpen, \* s_lastOpen: what the renderer saw last
    drawing,  \* the renderer is in a frame that shows the panel ("panel"),
              \* there inside setMode ("mode"), or not ("no")
    rebind,   \* g_rebind
    muted,    \* g_muted
    last,     \* the toggle keys that were down at the last poll
    hud,      \* what setStatus told the HUD
    play,     \* the scenario: edits of the panel, talking (with frames and
              \* both talk keys) and a file that cannot be opened
    edited,   \* history: the settings changed since the file was last good
    failed,   \* history: the file could not be opened the last time
    shut      \* history: the switches closed since the frame was begun

worker == <<phase, tries, muted, last>>
panel == <<set, open, lastOpen, drawing, rebind>>
capture == <<cap, mic, gate, shut>>
disk == <<file, edited, failed>>
vars == <<worker, panel, capture, disk, cfg, hook, hud, play>>

-----------------------------------------------------------------------------
(* voicechat.ini *)

(* keyVkToName: a name, or the number of the key.  The name of a digit key *)
(* is the digit, which reads like a number.                                *)
KeyName(vk) == IF vk \in Digits THEN [named |-> FALSE, n |-> vk - 48]
               ELSE [named |-> vk \in Named, n |-> vk]

(* keyNameToVK: names first, so a number below ten is a digit key. *)
KeyOf(t) == IF ~t.named /\ t.n \in 0..9 THEN t.n + 48 ELSE t.n

DefaultConfig == [ptt |-> 66, vad |-> FALSE, mic |-> DefaultMic]

(* The lines ClientConfig::save writes.  That of a device ends in a ';'    *)
(* and a comment.                                                          *)
Saved(c) == [ptt |-> KeyName(c.ptt), vad |-> c.vad, mic |-> c.mic]

(* What ClientConfig::load makes of them: a value ends at the first ';',   *)
(* be it the comment's or one in the name.                                 *)
Loaded(f) == [ptt |-> KeyOf(f.ptt), vad |-> f.vad, mic |-> Cut[f.mic]]

(* ClientConfig::save, which gives up silently when the file cannot be     *)
(* opened; `missing` are the settings that the file then lacks.            *)
Write(c, missing) ==
    \/ file' = Saved(c) /\ edited' = {} /\ failed' = FALSE
    \/ "file" \in play /\ file' = file /\ edited' = missing /\ failed' = TRUE

(* ClientConfig::load into g_cfg: the defaults, saved, when the file is    *)
(* not there or cannot be opened.                                          *)
Load ==
    \/ cfg' = Loaded(file) /\ file' = file /\ edited' = {} /\ failed' = FALSE
    \/ "file" \in play /\ cfg' = DefaultConfig /\ Write(DefaultConfig, {"ptt", "vad", "mic"})

-----------------------------------------------------------------------------
(* The microphone *)

NoMic == [parts |-> {}, on |-> DefaultMic, run |-> FALSE]

(* openAndStart on a device, by how it ends: no such endpoint, Activate    *)
(* fails, Initialize or GetService fails, or the thread runs.              *)
Outcomes == {"none", "inactive", "broken", "ok"}
Opened(m, d, outcome) ==
    CASE outcome = "none"     -> [m EXCEPT !.parts = @ \ {"device"}]
      [] outcome = "inactive" -> [m EXCEPT !.parts = @ \ {"device", "client"}]
      [] outcome = "broken"   -> [m EXCEPT !.parts = @ \cup {"device", "client"}]
      [] outcome = "ok"       -> [parts |-> m.parts \cup {"device", "client", "capture"},
                                  on |-> d, run |-> TRUE]

(* stopStream: the thread is joined, the endpoint released. *)
Stopped(m) == [parts |-> m.parts \cap {"enum", "encoder"}, on |-> DefaultMic, run |-> FALSE]

(* restartOnDevice: the device if it is there and opens, otherwise the     *)
(* default.  Mutant: the old stream is not stopped first and a failure     *)
(* leaves it running.                                                      *)
RestartedInPlace(m, d, found, first, second) ==
    IF "enum" \notin m.parts THEN m
    ELSE IF ~found THEN Opened(m, DefaultMic, second)
    ELSE IF first = "ok" THEN Opened(m, d, first)
    ELSE Opened(Opened(m, d, first), DefaultMic, second)
Restarted(m, d, found, first, second) ==
    IF "enum" \notin m.parts THEN m
    ELSE IF ~found THEN Opened(Stopped(m), DefaultMic, second)
    ELSE IF first = "ok" THEN Opened(Stopped(m), d, first)
    ELSE Opened(Opened(Stopped(m), d, first), DefaultMic, second)

(* A named device that was found does not end with "none". *)
Switched(m, d) ==
    {Restarted(m, d, found, first, second) :
        found \in BOOLEAN, first \in Outcomes \ {"none"}, second \in Outcomes}

(* The switches that keep a frame from going out whatever is said: muted,  *)
(* or push-to-talk without its key.                                        *)
Closed(c) ==
    (IF c.muted THEN {"muted"} ELSE {}) \cup (IF c.vad \/ c.ptt THEN {} ELSE {"key"})

(* Any other thread sets the switches.                                     *)
Flip(c) == cap' = c /\ shut' = shut \cap Closed(c)

(* emit, frame by frame: m_muted is read, then m_vadEnabled, then with     *)
(* push-to-talk m_ptt, and the frame is encoded and handed to the session. *)
GateMuted ==
    /\ gate = "idle" /\ mic.run /\ ~cap.muted
    /\ gate' = "mode"
    /\ shut' = Closed(cap)
GateMode ==
    /\ gate = "mode"
    /\ gate' \in IF cap.vad THEN {"idle", "send"} ELSE {"key"}
GateKey ==
    /\ gate = "key"
    /\ gate' = IF cap.ptt THEN "send" ELSE "idle"
Send == gate = "send" /\ gate' = "idle"

Capturing ==
    /\ GateMuted \/ ((GateMode \/ GateKey \/ Send)
                         /\ shut' = IF gate' = "idle" THEN {} ELSE shut)
    /\ UNCHANGED <<worker, panel, cap, mic, disk, cfg, hook, hud>>

-----------------------------------------------------------------------------
(* Start and end *)

Fresh == [set |-> [ptt |-> 66, vad |-> FALSE],
          cap |-> [vad |-> FALSE, ptt |-> FALSE, muted |-> FALSE],
          hud |-> [ptt |-> FALSE, muted |-> FALSE]]

Init ==
    /\ phase = "off" /\ play \in Scenarios
    /\ file = Saved(DefaultConfig) /\ edited = {} /\ failed = FALSE
    /\ cfg = DefaultConfig
    /\ set = Fresh.set /\ cap = Fresh.cap /\ mic = NoMic /\ gate = "idle" /\ shut = {}
    /\ hook = "none" /\ tries = 0
    /\ open = FALSE /\ lastOpen = FALSE /\ drawing = "no" /\ rebind = FALSE
    /\ muted = FALSE /\ last = {} /\ hud = Fresh.hud

(* The renderer is about to save, or at it. *)
Saving == hook = "on" /\ drawing = "no" /\ lastOpen /\ ~open

(* The process ends, by DllMain detach or a crash: nothing is saved, and a *)
(* save that was begun leaves the file emptied.                            *)
Exit ==
    /\ phase # "off"
    /\ phase' = "off"
    /\ file' \in {file} \cup (IF Saving THEN {Saved(DefaultConfig)} ELSE {})
    /\ edited' = {} /\ failed' = FALSE
    /\ cfg' = DefaultConfig
    /\ set' = Fresh.set /\ cap' = Fresh.cap /\ mic' = NoMic /\ gate' = "idle" /\ shut' = {}
    /\ hook' = "none" /\ tries' = 0
    /\ open' = FALSE /\ lastOpen' = FALSE /\ drawing' = "no" /\ rebind' = FALSE
    /\ muted' = FALSE /\ last' = {} /\ hud' = Fresh.hud

(* DllMain attach, run: ClientConfig::load, playback, HUD. *)
Start ==
    /\ phase = "off"
    /\ phase' = "capture"
    /\ Load
    /\ UNCHANGED <<panel, capture, hook, hud, tries, muted, last>>

(* AudioCapture::init *)
StartCapture ==
    /\ phase = "capture"
    /\ phase' = "device"
    /\ Flip([cap EXCEPT !.vad = cfg.vad])
    /\ \/ "mic" \in play /\ mic' \in {NoMic, [NoMic EXCEPT !.parts = {"enum"}]}
       \/ \E o \in IF "mic" \in play THEN Outcomes ELSE {"ok"} :
            mic' = Opened([NoMic EXCEPT !.parts = {"enum", "encoder"}], DefaultMic, o)
    /\ UNCHANGED <<panel, gate, tries, muted, last, disk, cfg, hook, hud>>

(* restartOnDevice, once the capture thread has left its frame and joined. *)
Switch(d) == gate = "idle" /\ mic' \in Switched(mic, d)

(* applySavedDevice: only a device that is listed. *)
StartDevice ==
    /\ phase = "device"
    /\ phase' = "wire"
    /\ \/ UNCHANGED mic
       \/ cfg.mic \in Mics /\ Switch(cfg.mic)
    /\ UNCHANGED <<panel, cap, gate, shut, tries, muted, last, disk, cfg, hook, hud>>

(* wirePanel, then VoiceClient::start and the loop. *)
StartPanel ==
    /\ phase = "wire"
    /\ phase' = "install"
    /\ set' = [ptt |-> cfg.ptt, vad |-> cfg.vad]
    /\ UNCHANGED <<open, lastOpen, drawing, rebind, capture, tries, muted, last, disk, cfg,
                   hook, hud>>

-----------------------------------------------------------------------------
(* The worker's loop *)

(* d3d9::install by how it ends.  Once a hook is created but not enabled,  *)
(* creating it again fails.                                                *)
Hooked(outcome) ==
    CASE hook = "created" \/ outcome = "early" -> hook
      [] outcome = "enable"                    -> "created"
      [] outcome = "ok"                        -> "on"

(* guiTry: every TryEvery-th poll tries.  Mutant: only the first one. *)
NextTryOnce == 1
NextTry == (tries + 1) % TryEvery
Due == tries = 0 /\ hook # "on"

PollInstall ==
    /\ phase = "install"
    /\ phase' = "panel"
    /\ hook' \in IF Due THEN {Hooked(o) : o \in {"early", "enable", "ok"}} ELSE {hook}
    /\ tries' = IF hook' = "on" THEN 0 ELSE NextTry
    /\ UNCHANGED <<panel, capture, muted, last, disk, cfg, hud>>

(* Whether a toggle key went down since the last poll. *)
Pressed(vk, down) == vk \in down /\ vk \notin last
Seen(vk, down) == IF vk \in down THEN last \cup {vk} ELSE last \ {vk}

(* togglePanel *)
PollPanel(down) ==
    /\ phase = "panel"
    /\ phase' = "rebind"
    /\ open' = IF Pressed(VK_INSERT, down) THEN ~open ELSE open
    /\ last' = Seen(VK_INSERT, down)
    /\ UNCHANGED <<set, lastOpen, drawing, rebind, capture, tries, muted, disk, cfg, hook, hud>>

(* The lowest key that is down, neither a mouse button nor the panel's:    *)
(* Escape cancels, any other is written to the panel's copy first.         *)
PollRebind(down) ==
    /\ phase = "rebind"
    /\ LET keys == down \ {VK_INSERT} IN
       \/ (~rebind \/ keys = {}) /\ phase' = "keys" /\ UNCHANGED set
       \/ rebind /\ keys # {} /\ Min(keys) = VK_ESCAPE /\ phase' = "bound" /\ UNCHANGED set
       \/ /\ rebind /\ keys # {} /\ Min(keys) # VK_ESCAPE
          /\ phase' = "bind"
          /\ set' = [set EXCEPT !.ptt = Min(keys)]
    /\ UNCHANGED <<open, lastOpen, drawing, rebind, capture, tries, muted, last, disk, cfg,
                   hook, hud>>

(* setPttKey, with the key just written. *)
PollBind ==
    /\ phase = "bind"
    /\ phase' = "bound"
    /\ cfg' = [cfg EXCEPT !.ptt = set.ptt]
    /\ edited' = edited \cup {"ptt"}
    /\ UNCHANGED <<panel, capture, tries, muted, last, file, failed, hook, hud>>

(* g_rebind is cleared, also if the button was pressed anew meanwhile. *)
PollBound ==
    /\ phase = "bound"
    /\ phase' = "keys"
    /\ rebind' = FALSE
    /\ UNCHANGED <<set, open, lastOpen, drawing, capture, tries, muted, last, disk, cfg, hook, hud>>

(* setTransmit: either push-to-talk key. *)
PollKeys(down) ==
    /\ phase = "keys"
    /\ phase' = "mute"
    /\ Flip([cap EXCEPT !.ptt = {cfg.ptt, VK_N} \cap down # {}])
    /\ UNCHANGED <<panel, mic, gate, tries, muted, last, disk, cfg, hook, hud>>

(* setMuted *)
PollMute(down) ==
    /\ phase = "mute"
    /\ phase' = "status"
    /\ muted' = IF Pressed(VK_F9, down) THEN ~muted ELSE muted
    /\ Flip([cap EXCEPT !.muted = IF Pressed(VK_F9, down) THEN ~muted ELSE @])
    /\ last' = Seen(VK_F9, down)
    /\ UNCHANGED <<panel, mic, gate, tries, disk, cfg, hook, hud>>

(* setStatus, with what setTransmit and setMuted were given. *)
PollStatus ==
    /\ phase = "status"
    /\ phase' = "install"
    /\ hud' = [ptt |-> cap.ptt, muted |-> muted]
    /\ UNCHANGED <<panel, capture, tries, muted, last, disk, cfg, hook>>

-----------------------------------------------------------------------------
(* The renderer *)

(* What hookedEndScene does when the panel has been closed: onHide saves.  *)
(* Mutant: saved when it opens instead.                                    *)
PersistOnShow == IF open THEN Write(cfg, edited) ELSE UNCHANGED disk
Persist == IF open THEN UNCHANGED disk ELSE Write(cfg, edited)

(* hookedEndScene up to render. *)
FrameBegin ==
    /\ hook = "on" /\ drawing = "no"
    /\ open \/ lastOpen
    /\ IF open # lastOpen THEN Persist ELSE UNCHANGED disk
    /\ lastOpen' = open
    /\ drawing' = IF open THEN "panel" ELSE "no"
    /\ UNCHANGED <<worker, capture, set, open, rebind, cfg, hook, hud>>

(* panel::render: at most one thing is edited in a frame.  setMode changes *)
(* g_cfg before the switch.                                                *)
Mode(v) ==
    /\ cfg' = [cfg EXCEPT !.vad = v]
    /\ set' = [set EXCEPT !.vad = v]
    /\ edited' = edited \cup {"vad"}
    /\ drawing' = "mode"
    /\ UNCHANGED <<mic, rebind>>
Select(d) ==
    /\ cfg' = [cfg EXCEPT !.mic = d]
    /\ Switch(d)
    /\ edited' = edited \cup {"mic"}
    /\ drawing' = "no"
    /\ UNCHANGED <<set, rebind>>
Edit ==
    \/ "mode" \in play /\ \E v \in BOOLEAN : Mode(v)
    \/ "mic" \in play /\ \E d \in Mics : Select(d)
    \/ "rebind" \in play /\ rebind' = TRUE /\ drawing' = "no" /\ UNCHANGED <<set, cfg, mic, edited>>
    \/ drawing' = "no" /\ UNCHANGED <<set, rebind, cfg, mic, edited>>

FrameDraw ==
    /\ drawing = "panel"
    /\ Edit
    /\ UNCHANGED <<worker, open, lastOpen, cap, gate, shut, file, failed, hook, hud>>

(* setVad *)
FrameMode ==
    /\ drawing = "mode"
    /\ Flip([cap EXCEPT !.vad = cfg.vad])
    /\ drawing' = "no"
    /\ UNCHANGED <<worker, set, open, lastOpen, rebind, mic, gate, disk, cfg, hook, hud>>

-----------------------------------------------------------------------------
Presses(keys) == {{}} \cup {{k} : k \in keys}

Starting == Start \/ StartCapture \/ StartDevice \/ StartPanel
Polling ==
    \/ PollInstall
    \/ \E down \in Presses({VK_INSERT}) : PollPanel(down)
    \/ \E down \in Presses(BindKeys \cup {VK_ESCAPE}) : PollRebind(down)
    \/ PollBind \/ PollBound
    \/ \E down \in Presses(IF "talk" \in play THEN {cfg.ptt, VK_N} ELSE {}) : PollKeys(down)
    \/ \E down \in Presses(IF "talk" \in play THEN {VK_F9} ELSE {}) : PollMute(down)
    \/ PollStatus
Rendering == FrameBegin \/ FrameDraw \/ FrameMode

Next ==
    /\ Starting \/ Polling \/ Rendering \/ ("talk" \in play /\ Capturing) \/ Exit
    /\ UNCHANGED play

(* The worker keeps polling and the game keeps drawing.  Hooking succeeds  *)
(* when it is tried often enough: the game's window appears in the end.    *)
Fairness ==
    /\ WF_vars(Polling /\ UNCHANGED play) /\ WF_vars(Rendering /\ UNCHANGED play)
    /\ SF_vars(PollInstall /\ UNCHANGED play /\ hook' = "on")

Spec == Init /\ [][Next]_vars /\ Fairness

-----------------------------------------------------------------------------
Before == {"off", "capture", "device", "wire"}
InLoop == phase \notin Before

(* Starting the game again brings back the settings in use, although the   *)
(* worker closes the panel and rebinds while the renderer draws and saves, *)
(* the file cannot always be opened, and the process may be killed:        *)
(* whatever was not edited since the file was last read or written comes   *)
(* back, but for what follows a ';' in a microphone's name and for         *)
(* Backspace, whose number reads like the digit 8; and once the renderer   *)
(* saw the panel closed and could open the file, all edits are in it but a *)
(* key that was rebound since.                                             *)
PanelSaved ==
    InLoop =>
        /\ "vad" \notin edited => Loaded(file).vad = cfg.vad
        /\ "mic" \notin edited => Loaded(file).mic = Cut[cfg.mic]
        /\ "ptt" \notin edited => Loaded(file).ptt = cfg.ptt \/ cfg.ptt = VK_BACK
        /\ ~lastOpen /\ ~failed => edited \subseteq {"ptt"}

(* What the player sees is what happens, but for the steps of a setter     *)
(* that is under way: the panel shows the settings in use, and they are    *)
(* the capture's; through failing devices and restarts a running           *)
(* microphone is the chosen one or the default and is complete; the HUD is *)
(* never behind by more than the poll that is under way.  Of the frames    *)
(* begun while muted, or in push-to-talk without the key, none leaves      *)
(* unless that changed before it passed: closing a switch lets out at most *)
(* the one frame the capture thread has in hand.                           *)
AsShown ==
    InLoop =>
        /\ set.vad = cfg.vad /\ (phase # "bind" => set.ptt = cfg.ptt)
        /\ drawing # "mode" => cap.vad = cfg.vad
        /\ mic.run => /\ mic.on \in {cfg.mic, DefaultMic}
                      /\ {"enum", "device", "client", "capture"} \subseteq mic.parts
        /\ phase \notin {"mute", "status"} => hud = [ptt |-> cap.ptt, muted |-> cap.muted]
        /\ gate = "send" => shut = {}

(* The panel follows the key: the renderer sees it opened or closed, also  *)
(* when the key was pressed before the renderer was hooked.  Not after a   *)
(* hook was created and could not be enabled, which is never repaired.     *)
PanelFollows ==
    (InLoop /\ open # lastOpen) ~> (open = lastOpen \/ phase = "off" \/ hook = "created")
=============================================================================
