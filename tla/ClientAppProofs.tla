--------------------------- MODULE ClientAppProofs ---------------------------
(***************************************************************************)
(* Theorems about the client as the player meets it, for any microphones   *)
(* and any keys.                                                           *)
(***************************************************************************)
EXTENDS ClientApp, TLAPS

Keys == 8..254
MicParts == {"enum", "encoder", "device", "client", "capture"}
Configs == [ptt : Keys, vad : BOOLEAN, mic : Names]
Microphones == [parts : SUBSET MicParts, on : Names, run : BOOLEAN]
Looping == {"install", "panel", "rebind", "bind", "bound", "keys", "mute", "status"}

(* The variables' types. *)
Records ==
    /\ cfg \in Configs
    /\ file.vad \in BOOLEAN /\ file.mic \in Names /\ KeyOf(file.ptt) \in Keys
    /\ cap \in [vad : BOOLEAN, ptt : BOOLEAN, muted : BOOLEAN]
    /\ mic \in Microphones
    /\ set \in [ptt : Keys, vad : BOOLEAN]
Switches ==
    /\ muted \in BOOLEAN /\ open \in BOOLEAN /\ lastOpen \in BOOLEAN
    /\ drawing \in {"no", "panel", "mode"} /\ gate \in {"idle", "mode", "key", "send"}
    /\ hook \in {"none", "created", "on"}
    /\ phase \in Before \cup Looping
TypeOK == Records /\ Switches

-----------------------------------------------------------------------------
(* voicechat.ini *)

(* A key comes back from the file as it was saved, but for Backspace.      *)
LEMMA KeyReturns ==
    ASSUME NEW vk \in Keys
    PROVE  KeyOf(KeyName(vk)) \in Keys /\ (vk # VK_BACK => KeyOf(KeyName(vk)) = vk)
<1> USE DEF Keys
<1>1. CASE vk \in Digits
  <2>1. KeyName(vk) = [named |-> FALSE, n |-> vk - 48] /\ vk - 48 \in 0..9
    BY <1>1 DEF KeyName, Digits
  <2>2. KeyOf(KeyName(vk)) = vk - 48 + 48
    BY <2>1 DEF KeyOf
  <2>3. QED
    BY <2>2
<1>2. CASE vk \notin Digits
  <2> DEFINE t == KeyName(vk)
  <2>1. t.n = vk /\ t.named = (vk \in Named)
    BY <1>2 DEF KeyName
  <2> HIDE DEF t
  <2>2. CASE vk \in Named
    BY <2>1, <2>2 DEF KeyOf, t
  <2>3. CASE vk \notin Named
    <3>1. vk # 9
      BY <2>3 DEF Named
    <3>2. ~t.named
      BY <2>1, <2>3
    <3>3. CASE vk = 8
      <4>1. KeyOf(t) = 56
        BY <2>1, <3>2, <3>3 DEF KeyOf
      <4>2. QED
        BY <3>3, <4>1 DEF VK_BACK, t
    <3>4. CASE vk # 8
      <4>1. vk \notin 0..9
        BY <3>1, <3>4
      <4>2. QED
        BY <2>1, <4>1 DEF KeyOf, t
    <3>5. QED
      BY <3>3, <3>4
  <2>4. QED
    BY <2>2, <2>3 DEF t
<1>3. QED
  BY <1>1, <1>2

(* A line of a device comes back cut, and cut only once.                   *)
LEMMA SavedReturns ==
    ASSUME NEW c \in Configs
    PROVE  /\ Saved(c).vad = c.vad /\ Saved(c).mic = c.mic /\ KeyOf(Saved(c).ptt) \in Keys
           /\ Loaded(Saved(c)).vad = c.vad /\ Loaded(Saved(c)).mic = Cut[c.mic]
           /\ Loaded(Saved(c)).ptt = c.ptt \/ c.ptt = VK_BACK
<1>1. c.ptt \in Keys
  BY DEF Configs
<1>2. Saved(c).ptt = KeyName(c.ptt) /\ Saved(c).vad = c.vad /\ Saved(c).mic = c.mic
  BY DEF Saved
<1>3. QED
  BY <1>1, <1>2, KeyReturns DEF Loaded

LEMMA LoadedType ==
    ASSUME Records
    PROVE  Loaded(file) \in Configs /\ Cut[Loaded(file).mic] = Loaded(file).mic
<1>1. /\ Loaded(file) = [ptt |-> KeyOf(file.ptt), vad |-> file.vad, mic |-> Cut[file.mic]]
      /\ KeyOf(file.ptt) \in Keys /\ file.vad \in BOOLEAN /\ file.mic \in Names
  BY DEF Loaded, Records
<1>2. Cut[file.mic] \in Names /\ Cut[Cut[file.mic]] = Cut[file.mic]
  BY <1>1, Constants
<1>3. QED
  BY <1>1, <1>2 DEF Configs

LEMMA DefaultConfigType == DefaultConfig \in Configs
BY Constants DEF DefaultConfig, Configs, Keys

-----------------------------------------------------------------------------
(* The microphone *)

(* A running microphone is complete, and captures what was asked for. *)
Complete(m, on) ==
    m.run => /\ m.on \in on
             /\ {"enum", "device", "client", "capture"} \subseteq m.parts

LEMMA OpenedComplete ==
    ASSUME NEW m \in Microphones, NEW d \in Names, NEW outcome \in Outcomes, ~m.run
    PROVE  /\ Opened(m, d, outcome) \in Microphones
           /\ "enum" \in m.parts => Complete(Opened(m, d, outcome), {d})
           /\ "enum" \in m.parts => "enum" \in Opened(m, d, outcome).parts
           /\ outcome # "ok" => ~Opened(m, d, outcome).run
<1>1. CASE outcome = "none"
  BY <1>1 DEF Opened, Complete, Microphones, MicParts
<1>2. CASE outcome = "inactive"
  BY <1>2 DEF Opened, Complete, Microphones, MicParts
<1>3. CASE outcome = "broken"
  BY <1>3 DEF Opened, Complete, Microphones, MicParts
<1>4. CASE outcome = "ok"
  BY <1>4 DEF Opened, Complete, Microphones, MicParts
<1>5. QED
  BY <1>1, <1>2, <1>3, <1>4 DEF Outcomes

LEMMA SwitchedComplete ==
    ASSUME NEW m \in Microphones, NEW d \in Names, NEW on, Complete(m, on),
           NEW z \in Switched(m, d)
    PROVE  z \in Microphones /\ Complete(z, {d, DefaultMic})
<1>1. PICK found \in BOOLEAN, first \in Outcomes \ {"none"}, second \in Outcomes :
        z = Restarted(m, d, found, first, second)
  BY DEF Switched
<1>2. DefaultMic \in Names
  BY Constants
<1>3. CASE "enum" \notin m.parts
  BY <1>1, <1>3 DEF Restarted, Complete
<1>4. CASE "enum" \in m.parts
  <2> DEFINE s == Stopped(m)
  <2>1. s \in Microphones /\ ~s.run /\ "enum" \in s.parts
    BY <1>2, <1>4 DEF Stopped, Microphones, MicParts
  <2> HIDE DEF s
  <2>2. \A o \in Outcomes : Opened(s, DefaultMic, o) \in Microphones
                            /\ Complete(Opened(s, DefaultMic, o), {DefaultMic})
    BY <1>2, <2>1, OpenedComplete
  <2> DEFINE f == Opened(s, d, first)
  <2>3. /\ f \in Microphones /\ Complete(f, {d}) /\ "enum" \in f.parts
        /\ first # "ok" => ~f.run
    BY <2>1, OpenedComplete
  <2> HIDE DEF f
  <2>4. first # "ok" => /\ Opened(f, DefaultMic, second) \in Microphones
                        /\ Complete(Opened(f, DefaultMic, second), {DefaultMic})
    BY <1>2, <2>3, OpenedComplete
  <2>5. \/ z = Opened(s, DefaultMic, second)
        \/ z = f
        \/ first # "ok" /\ z = Opened(f, DefaultMic, second)
    BY <1>1, <1>4 DEF Restarted, s, f
  <2>6. z \in Microphones /\ (Complete(z, {DefaultMic}) \/ Complete(z, {d}))
    BY <2>2, <2>3, <2>4, <2>5
  <2>7. QED
    BY <2>6 DEF Complete
<1>5. QED
  BY <1>3, <1>4

-----------------------------------------------------------------------------
(* Types *)

LEMMA TypeInit == Init => TypeOK
<1> SUFFICES ASSUME Init PROVE TypeOK
  OBVIOUS
<1>1. cfg \in Configs /\ file = Saved(cfg)
  BY DefaultConfigType DEF Init
<1>2. mic \in Microphones
  BY Constants DEF Init, NoMic, Microphones
<1>3. cap \in [vad : BOOLEAN, ptt : BOOLEAN, muted : BOOLEAN]
  BY DEF Init, Fresh
<1>6. set \in [ptt : Keys, vad : BOOLEAN]
  BY DEF Init, Fresh, Keys
<1>4. Switches
  BY DEF Init, Switches, Before
<1>5. QED
  BY <1>1, <1>2, <1>3, <1>4, <1>6, SavedReturns DEF TypeOK, Records, Configs

(* What AudioCapture::init leaves of the microphone. *)
LEMMA CaptureComplete ==
    ASSUME StartCapture
    PROVE  mic' \in Microphones /\ Complete(mic', {DefaultMic})
<1>0. DefaultMic \in Names
  BY Constants
<1>1. CASE mic' \in {NoMic, [NoMic EXCEPT !.parts = {"enum"}]}
  <2>1. \/ mic' = [parts |-> {}, on |-> DefaultMic, run |-> FALSE]
        \/ mic' = [parts |-> {"enum"}, on |-> DefaultMic, run |-> FALSE]
    BY <1>1 DEF NoMic
  <2>2. {} \in SUBSET MicParts /\ {"enum"} \in SUBSET MicParts
    BY DEF MicParts
  <2>3. mic' \in Microphones
    <3>1. \A S \in SUBSET MicParts :
            [parts |-> S, on |-> DefaultMic, run |-> FALSE] \in Microphones
      BY <1>0 DEF Microphones
    <3>2. QED
      BY <2>1, <2>2, <3>1
  <2>4. ~mic'.run
    BY <2>1
  <2>5. QED
    BY <2>3, <2>4 DEF Complete
<1>2. ASSUME NEW o \in Outcomes,
             mic' = Opened([NoMic EXCEPT !.parts = {"enum", "encoder"}], DefaultMic, o)
      PROVE  mic' \in Microphones /\ Complete(mic', {DefaultMic})
  <2> DEFINE m == [NoMic EXCEPT !.parts = {"enum", "encoder"}]
  <2>1. m \in Microphones /\ ~m.run /\ "enum" \in m.parts /\ DefaultMic \in Names
    BY <1>0 DEF NoMic, Microphones, MicParts
  <2> HIDE DEF m
  <2>2. QED
    BY <1>2, <2>1, OpenedComplete DEF m
<1>3. (IF "mic" \in play THEN Outcomes ELSE {"ok"}) \subseteq Outcomes
  BY DEF Outcomes
<1>4. QED
  BY <1>1, <1>2, <1>3 DEF StartCapture

(* The worker's key: one that was pressed. *)
LEMMA PressedKey ==
    ASSUME NEW down \in Presses(BindKeys \cup {VK_ESCAPE}), NEW keys, keys = down \ {VK_INSERT},
           keys # {}
    PROVE  Min(keys) \in Keys
<1>1. PICK k \in BindKeys \cup {VK_ESCAPE} : keys = {k}
  BY DEF Presses
<1>2. k \in Keys
  BY Constants DEF Keys, VK_ESCAPE
<1>3. Min(keys) = k
  BY <1>1, <1>2 DEF Min, Keys
<1>4. QED
  BY <1>2, <1>3

(* The panel's edits keep the records' types and the microphone complete.  *)
LEMMA EditType ==
    ASSUME Records, Edit, file' = file, cap' = cap, Complete(mic, {cfg.mic, DefaultMic})
    PROVE  /\ Records' /\ Complete(mic', {cfg'.mic, DefaultMic})
           /\ drawing' \in {"no", "panel", "mode"}
<1>1. ASSUME NEW v \in BOOLEAN, Mode(v)
      PROVE  Records' /\ Complete(mic', {cfg'.mic, DefaultMic}) /\ drawing' = "mode"
  <2>1. cfg' \in Configs /\ cfg'.mic = cfg.mic
    BY <1>1 DEF Mode, Records, Configs
  <2>2. mic' = mic /\ drawing' = "mode" /\ set' \in [ptt : Keys, vad : BOOLEAN]
    BY <1>1 DEF Mode, Records
  <2>3. QED
    BY <2>1, <2>2 DEF Records
<1>2. ASSUME NEW d \in Mics, Select(d)
      PROVE  Records' /\ Complete(mic', {cfg'.mic, DefaultMic}) /\ drawing' = "no"
  <2>1. d \in Names
    BY Constants
  <2>2. cfg' \in Configs /\ cfg'.mic = d
    BY <1>2, <2>1 DEF Select, Records, Configs
  <2>3. mic' \in Microphones /\ Complete(mic', {d, DefaultMic})
    BY <1>2, <2>1, SwitchedComplete DEF Select, Switch, Records
  <2>4. set' = set /\ drawing' = "no"
    BY <1>2 DEF Select
  <2>5. QED
    BY <2>2, <2>3, <2>4 DEF Records
<1>3. CASE UNCHANGED <<set, cfg, mic>> /\ drawing' = "no"
  BY <1>3 DEF Records
<1>4. QED
  BY <1>1, <1>2, <1>3 DEF Edit

MicOK ==
    /\ Complete(mic, {cfg.mic, DefaultMic})
    /\ phase \in {"off", "capture"} => ~mic.run
(* Before the worker's loop there is nothing to draw on. *)
Quiet == phase \in Before => hook = "none" /\ ~lastOpen /\ drawing = "no"
Sound == TypeOK /\ MicOK /\ Quiet

LEMMA SoundInit == Init => Sound
BY TypeInit DEF Init, Sound, MicOK, Complete, NoMic, Quiet

(* A save leaves a file that can be loaded, or the old one. *)
LEMMA WriteType ==
    ASSUME Records, NEW c \in Configs, NEW missing, Write(c, missing)
    PROVE  file'.vad \in BOOLEAN /\ file'.mic \in Names /\ KeyOf(file'.ptt) \in Keys
<1>1. file' = file \/ file' = Saved(c)
  BY DEF Write
<1>2. QED
  BY <1>1, SavedReturns DEF Records, Configs

(* Setting one switch. *)
LEMMA FlipType ==
    ASSUME Records, NEW c, Flip(c), NEW b \in BOOLEAN,
           c \in {[cap EXCEPT !.vad = b], [cap EXCEPT !.ptt = b], [cap EXCEPT !.muted = b]}
    PROVE  cap' \in [vad : BOOLEAN, ptt : BOOLEAN, muted : BOOLEAN]
BY DEF Flip, Records

LEMMA SoundStep == Sound /\ [Next]_vars => Sound'
<1> SUFFICES ASSUME Sound, [Next]_vars PROVE Sound'
  OBVIOUS
<1>0. Records /\ Switches /\ MicOK /\ Quiet
  BY DEF Sound, TypeOK
<1>a. SUFFICES Records' /\ Switches' /\ MicOK' /\ Quiet'
  BY DEF Sound, TypeOK
<1> USE <1>0
<1>1. CASE Exit
  <2>1. cfg' \in Configs /\ (file' = file \/ file' = Saved(DefaultConfig))
    BY <1>1, DefaultConfigType DEF Exit
  <2>2. file'.vad \in BOOLEAN /\ file'.mic \in Names /\ KeyOf(file'.ptt) \in Keys
    BY <2>1, DefaultConfigType, SavedReturns DEF Records, Configs
  <2>3. cap' \in [vad : BOOLEAN, ptt : BOOLEAN, muted : BOOLEAN]
    BY <1>1 DEF Exit, Fresh
  <2>4. mic' \in Microphones /\ ~mic'.run
    BY <1>1, Constants DEF Exit, NoMic, Microphones
  <2>5. set' \in [ptt : Keys, vad : BOOLEAN]
    BY <1>1 DEF Exit, Fresh, Keys
  <2>6. Switches' /\ Quiet'
    BY <1>1 DEF Exit, Switches, Quiet, Before
  <2>7. QED
    BY <2>1, <2>2, <2>3, <2>4, <2>5, <2>6 DEF Records, MicOK, Complete
<1>2. CASE Start
  <2>1. /\ cfg' \in Configs
        /\ file'.vad \in BOOLEAN /\ file'.mic \in Names /\ KeyOf(file'.ptt) \in Keys
    <3>1. CASE cfg' = Loaded(file) /\ file' = file
      BY <3>1, LoadedType DEF Records
    <3>2. CASE cfg' = DefaultConfig /\ Write(DefaultConfig, {"ptt", "vad", "mic"})
      BY <3>2, DefaultConfigType, WriteType
    <3>3. QED
      BY <1>2, <3>1, <3>2 DEF Start, Load
  <2>2. cap' = cap /\ mic' = mic /\ set' = set /\ ~mic.run
    BY <1>2 DEF Start, capture, panel, MicOK
  <2>3. Switches' /\ Quiet'
    BY <1>2 DEF Start, Switches, Quiet, Before, panel, capture
  <2>4. QED
    BY <2>1, <2>2, <2>3 DEF Records, MicOK, Complete
<1>3. CASE StartCapture
  <2>1. mic' \in Microphones /\ Complete(mic', {DefaultMic})
    BY <1>3, CaptureComplete
  <2>2. cfg' = cfg /\ file' = file /\ set' = set /\ phase' = "device"
    BY <1>3 DEF StartCapture, disk, panel
  <2>3. cap' \in [vad : BOOLEAN, ptt : BOOLEAN, muted : BOOLEAN]
    BY <1>3, FlipType DEF StartCapture, Records, Configs
  <2>4. Switches' /\ Quiet'
    BY <1>3 DEF StartCapture, Switches, Quiet, Before, panel
  <2>5. QED
    BY <2>1, <2>2, <2>3, <2>4 DEF Records, MicOK, Complete
<1>4. CASE StartDevice
  <2>1. cfg.mic \in Names /\ mic \in Microphones
    BY DEF Records, Configs
  <2>2. mic' \in Microphones /\ Complete(mic', {cfg.mic, DefaultMic})
    BY <1>4, <2>1, SwitchedComplete DEF StartDevice, Switch, MicOK
  <2>3. cfg' = cfg /\ file' = file /\ cap' = cap /\ set' = set /\ phase' = "wire"
    BY <1>4 DEF StartDevice, disk, panel
  <2>4. Switches' /\ Quiet'
    BY <1>4 DEF StartDevice, Switches, Quiet, Before, panel
  <2>5. QED
    BY <2>2, <2>3, <2>4 DEF Records, MicOK
<1>5. CASE StartPanel
  <2>1. set' \in [ptt : Keys, vad : BOOLEAN] /\ UNCHANGED <<cfg, file, cap, mic>>
    BY <1>5 DEF StartPanel, Records, Configs, capture, disk
  <2>2. Switches' /\ Quiet' /\ phase' = "install"
    BY <1>5 DEF StartPanel, capture, Switches, Quiet, Before, Looping
  <2>3. QED
    BY <2>1, <2>2 DEF Records, MicOK
<1>6. CASE PollInstall
  <2>1. \A o \in {"early", "enable", "ok"} : Hooked(o) \in {"none", "created", "on"}
    BY DEF Hooked, Switches
  <2>2. hook' \in {"none", "created", "on"} /\ phase' = "panel" /\ UNCHANGED <<panel, capture, disk, cfg>>
    BY <1>6, <2>1 DEF PollInstall, Switches
  <2>3. muted' = muted
    BY <1>6 DEF PollInstall
  <2>4. QED
    BY <2>2, <2>3 DEF panel, capture, disk, Records, Switches, MicOK, Quiet, Before, Looping
<1>7. ASSUME NEW down, PollPanel(down) PROVE Records' /\ Switches' /\ MicOK' /\ Quiet'
  <2>1. open' \in BOOLEAN
    <3>1. (IF Pressed(VK_INSERT, down) THEN ~open ELSE open) \in BOOLEAN
      BY Zenon DEF Switches
    <3>2. QED
      BY <1>7, <3>1 DEF PollPanel
  <2>2. /\ UNCHANGED <<cfg, file, set, cap, mic, gate, muted, lastOpen, drawing, hook>>
        /\ phase' = "rebind"
    BY <1>7 DEF PollPanel, capture, disk
  <2>3. QED
    BY <2>1, <2>2 DEF Records, Switches, MicOK, Quiet, Before, Looping
<1>8. ASSUME NEW down \in Presses(BindKeys \cup {VK_ESCAPE}), PollRebind(down)
      PROVE  Records' /\ Switches' /\ MicOK' /\ Quiet'
  <2>1. set' \in [ptt : Keys, vad : BOOLEAN]
    <3>1. CASE set' = set
      BY <3>1 DEF Records
    <3>2. CASE /\ down \ {VK_INSERT} # {}
               /\ set' = [set EXCEPT !.ptt = Min(down \ {VK_INSERT})]
      BY <3>2, PressedKey DEF Records
    <3>3. QED
      BY <1>8, <3>1, <3>2 DEF PollRebind
  <2>2. /\ UNCHANGED <<file, cfg, cap, mic, gate, muted, open, lastOpen, drawing, hook>>
        /\ phase' \in {"keys", "bound", "bind"}
    BY <1>8 DEF PollRebind, capture, disk
  <2>3. QED
    BY <2>1, <2>2 DEF Records, Switches, MicOK, Quiet, Before, Looping
<1>9. CASE PollBind
  <2>1. cfg' \in Configs /\ cfg'.mic = cfg.mic
    BY <1>9 DEF PollBind, Records, Configs
  <2>2. /\ UNCHANGED <<file, set, cap, mic, gate, muted, open, lastOpen, drawing, hook>>
        /\ phase' = "bound"
    BY <1>9 DEF PollBind, capture, panel
  <2>3. QED
    BY <2>1, <2>2 DEF Records, Switches, MicOK, Quiet, Before, Looping
<1>10. CASE PollBound \/ PollStatus
  <2>1. /\ UNCHANGED <<cfg, file, set, cap, mic, gate, muted, open, lastOpen, drawing, hook>>
        /\ phase' \in {"keys", "install"}
    BY <1>10 DEF PollBound, PollStatus, capture, disk, panel
  <2>2. QED
    BY <2>1 DEF Records, Switches, MicOK, Quiet, Before, Looping
<1>11. ASSUME NEW down, PollKeys(down) PROVE Records' /\ Switches' /\ MicOK' /\ Quiet'
  <2>1. cap' \in [vad : BOOLEAN, ptt : BOOLEAN, muted : BOOLEAN]
    BY <1>11, FlipType DEF PollKeys
  <2>2. /\ UNCHANGED <<cfg, file, set, mic, gate, muted, open, lastOpen, drawing, hook>>
        /\ phase' = "mute"
    BY <1>11 DEF PollKeys, disk, panel
  <2>3. QED
    BY <2>1, <2>2 DEF Records, Switches, MicOK, Quiet, Before, Looping
<1>12. ASSUME NEW down, PollMute(down) PROVE Records' /\ Switches' /\ MicOK' /\ Quiet'
  <2>1. muted' \in BOOLEAN
    BY <1>12 DEF PollMute, Switches
  <2>2. cap' \in [vad : BOOLEAN, ptt : BOOLEAN, muted : BOOLEAN]
    <3>1. cap.muted \in BOOLEAN /\ muted \in BOOLEAN
      BY DEF Records, Switches
    <3>2. (IF Pressed(VK_F9, down) THEN ~muted ELSE cap.muted) \in BOOLEAN
      BY <3>1, Zenon
    <3>3. Flip([cap EXCEPT !.muted = IF Pressed(VK_F9, down) THEN ~muted ELSE cap.muted])
      BY <1>12 DEF PollMute
    <3>4. QED
      BY <3>2, <3>3, FlipType
  <2>3. /\ UNCHANGED <<cfg, file, set, mic, gate, open, lastOpen, drawing, hook>>
        /\ phase' = "status"
    BY <1>12 DEF PollMute, disk, panel
  <2>4. QED
    BY <2>1, <2>2, <2>3 DEF Records, Switches, MicOK, Quiet, Before, Looping
<1>13. CASE FrameBegin
  <2>1. UNCHANGED <<cfg, cap, mic, gate, set>>
    BY <1>13 DEF FrameBegin, capture
  <2>2. Persist \/ UNCHANGED disk
    BY <1>13 DEF FrameBegin
  <2>3. file'.vad \in BOOLEAN /\ file'.mic \in Names /\ KeyOf(file'.ptt) \in Keys
    <3>1. CASE file' = file
      BY <3>1 DEF Records
    <3>2. CASE Write(cfg, edited)
      BY <3>2, WriteType DEF Records
    <3>3. QED
      BY <2>2, <3>1, <3>2 DEF Persist, disk
  <2>4. Switches' /\ Quiet' /\ phase' = phase
    BY <1>13, <2>1 DEF FrameBegin, worker, Switches, Quiet
  <2>5. QED
    BY <2>1, <2>3, <2>4 DEF Records, MicOK
<1>14. CASE FrameDraw
  <2>1. Edit /\ UNCHANGED <<file, cap, gate, phase, muted, open, lastOpen, hook>>
    BY <1>14 DEF FrameDraw, worker
  <2>2. /\ Records' /\ Complete(mic', {cfg'.mic, DefaultMic})
        /\ drawing' \in {"no", "panel", "mode"}
    BY <2>1, EditType DEF MicOK
  <2>3. phase \notin Before
    BY <1>14 DEF FrameDraw, Quiet
  <2>4. Switches' /\ Quiet'
    BY <2>1, <2>2, <2>3 DEF Switches, Quiet
  <2>5. QED
    BY <2>1, <2>2, <2>3, <2>4 DEF MicOK, Before
<1>15. CASE FrameMode
  <2>1. cap' \in [vad : BOOLEAN, ptt : BOOLEAN, muted : BOOLEAN]
    BY <1>15, FlipType DEF FrameMode, Records, Configs
  <2>2. /\ UNCHANGED <<cfg, file, set, mic, gate, phase, muted, open, lastOpen, hook>>
        /\ drawing' = "no"
    BY <1>15 DEF FrameMode, worker, disk
  <2>3. QED
    BY <2>1, <2>2 DEF Records, Switches, MicOK, Quiet
<1>16. CASE Capturing
  <2>1. gate' \in {"idle", "mode", "key", "send"}
    BY <1>16 DEF Capturing, GateMuted, GateMode, GateKey, Send
  <2>2. UNCHANGED <<cfg, file, set, cap, mic, phase, muted, open, lastOpen, drawing, hook>>
    BY <1>16 DEF Capturing, worker, panel, disk
  <2>3. QED
    BY <2>1, <2>2 DEF Records, Switches, MicOK, Quiet
<1>17. CASE UNCHANGED vars
  BY <1>17 DEF vars, worker, panel, capture, disk, Records, Switches, MicOK, Quiet
<1>18. QED
  BY <1>1, <1>2, <1>3, <1>4, <1>5, <1>6, <1>7, <1>8, <1>9, <1>10, <1>11, <1>12, <1>13,
     <1>14, <1>15, <1>16, <1>17
    DEF Next, Starting, Polling, Rendering

(* The client's variables keep their types, and a microphone that runs is  *)
(* complete, through every failure of its parts.                           *)
THEOREM AppTypes == Spec => []TypeOK
<1>1. Sound => TypeOK
  BY DEF Sound
<1>2. QED
  BY <1>1, SoundInit, SoundStep, PTL DEF Spec

-----------------------------------------------------------------------------
(* PanelSaved, from the load on; what is drawn was seen open.              *)
Kept ==
    /\ drawing # "no" => lastOpen
    /\ phase # "off" =>
         /\ "vad" \notin edited => Loaded(file).vad = cfg.vad
         /\ "mic" \notin edited => Loaded(file).mic = Cut[cfg.mic]
         /\ "ptt" \notin edited => Loaded(file).ptt = cfg.ptt \/ cfg.ptt = VK_BACK
         /\ ~lastOpen /\ ~failed => edited \subseteq {"ptt"}

LEMMA KeptStep == Sound /\ Kept /\ [Next]_vars => Kept'
<1> SUFFICES ASSUME Sound, Kept, [Next]_vars PROVE Kept'
  OBVIOUS
<1>0. Records /\ cfg \in Configs /\ Quiet /\ lastOpen \in BOOLEAN /\ open \in BOOLEAN
  BY DEF Sound, TypeOK, Records, Switches
<1>1. CASE Exit
  BY <1>1 DEF Exit, Kept
<1>2. CASE Start
  <2>1. drawing' = "no"
    BY <1>2 DEF Start, panel, Quiet, Before, Sound
  <2>2. CASE cfg' = Loaded(file) /\ file' = file /\ edited' = {}
    BY <1>0, <2>1, <2>2, LoadedType DEF Kept
  <2>3. CASE cfg' = DefaultConfig /\ Write(DefaultConfig, {"ptt", "vad", "mic"})
    <3>1. CASE file' = Saved(DefaultConfig) /\ edited' = {}
      BY <2>1, <2>3, <3>1, SavedReturns, DefaultConfigType DEF Kept
    <3>2. CASE edited' = {"ptt", "vad", "mic"} /\ failed'
      BY <2>1, <3>2 DEF Kept
    <3>3. QED
      BY <2>3, <3>1, <3>2 DEF Write
  <2>4. QED
    BY <1>2, <2>2, <2>3 DEF Start, Load
<1>3. CASE UNCHANGED <<cfg, disk, lastOpen, drawing>> /\ phase # "off"
  BY <1>3 DEF Kept, disk
<1>4. CASE StartCapture \/ StartDevice \/ StartPanel \/ PollInstall \/ PollBound \/ PollStatus
  BY <1>3, <1>4 DEF StartCapture, StartDevice, StartPanel, PollInstall, PollBound, PollStatus, panel
<1>5. ASSUME NEW down, PollPanel(down) \/ PollRebind(down) \/ PollKeys(down) \/ PollMute(down)
      PROVE  Kept'
  BY <1>3, <1>5 DEF PollPanel, PollRebind, PollKeys, PollMute, panel
<1>6. CASE PollBind
  <2>1. cfg'.vad = cfg.vad /\ cfg'.mic = cfg.mic
    BY <1>0, <1>6 DEF PollBind, Configs
  <2>2. /\ phase = "bind" /\ UNCHANGED <<file, failed, lastOpen, drawing>>
        /\ edited' = edited \cup {"ptt"}
    BY <1>6 DEF PollBind, panel
  <2>3. QED
    BY <2>1, <2>2 DEF Kept
<1>7. CASE FrameBegin
  <2>1. /\ cfg' = cfg /\ phase' = phase /\ lastOpen' = open
        /\ drawing' = IF open THEN "panel" ELSE "no"
        /\ IF open # lastOpen THEN Persist ELSE UNCHANGED disk
    BY <1>7 DEF FrameBegin, worker
  <2>2. CASE UNCHANGED disk
    BY <1>0, <2>1, <2>2 DEF Kept, disk, Persist, Write
  <2>3. CASE ~open /\ Write(cfg, edited)
    <3>1. CASE file' = Saved(cfg) /\ edited' = {}
      BY <1>0, <2>1, <2>3, <3>1, SavedReturns DEF Kept
    <3>2. CASE file' = file /\ edited' = edited /\ failed'
      BY <2>1, <2>3, <3>2 DEF Kept
    <3>3. QED
      BY <2>3, <3>1, <3>2 DEF Write
  <2>4. QED
    BY <2>1, <2>2, <2>3 DEF Persist
<1>8. CASE FrameDraw
  <2>1. lastOpen' /\ UNCHANGED <<file, failed, phase>>
    BY <1>8 DEF FrameDraw, Kept, worker
  <2>2. ASSUME NEW v \in BOOLEAN, Mode(v) PROVE Kept'
    <3>1. cfg'.ptt = cfg.ptt /\ cfg'.mic = cfg.mic /\ edited' = edited \cup {"vad"}
      BY <1>0, <2>2 DEF Mode, Configs
    <3>2. QED
      BY <2>1, <3>1 DEF Kept
  <2>3. ASSUME NEW d \in Mics, Select(d) PROVE Kept'
    <3>1. cfg'.ptt = cfg.ptt /\ cfg'.vad = cfg.vad /\ edited' = edited \cup {"mic"}
      BY <1>0, <2>3 DEF Select, Configs
    <3>2. QED
      BY <2>1, <3>1 DEF Kept
  <2>4. CASE UNCHANGED <<cfg, edited>>
    BY <2>1, <2>4 DEF Kept
  <2>5. QED
    BY <1>8, <2>2, <2>3, <2>4 DEF FrameDraw, Edit
<1>9. CASE FrameMode
  BY <1>9 DEF FrameMode, worker, disk, Kept
<1>10. CASE Capturing
  BY <1>10 DEF Capturing, worker, panel, disk, Kept
<1>11. CASE UNCHANGED vars
  BY <1>11 DEF vars, worker, panel, disk, Kept
<1>12. QED
  BY <1>1, <1>2, <1>4, <1>5, <1>6, <1>7, <1>8, <1>9, <1>10, <1>11
    DEF Next, Starting, Polling, Rendering

(* The file brings back what was not edited since it was last good, and    *)
(* closing the panel makes it good unless it cannot be opened, whatever    *)
(* the worker does while the renderer saves.                               *)
THEOREM SettingsSurvive == Spec => []PanelSaved
<1>1. Init => Kept
  BY DEF Init, Kept
<1>2. Kept => PanelSaved
  BY DEF Kept, PanelSaved, InLoop, Before
<1>3. QED
  BY <1>1, <1>2, SoundInit, SoundStep, KeptStep, PTL DEF Spec

-----------------------------------------------------------------------------
(* AsShown: a setter's steps part the settings, the switches and the HUD   *)
(* only while it is under way, and a frame passes a switch only when the   *)
(* switch is open.                                                         *)
Passed ==
    /\ shut \subseteq Closed(cap) \cap {"key"}
    /\ gate \in {"idle", "send"} => shut = {}
Shown ==
    /\ phase \notin {"off", "capture"} /\ drawing # "mode" => cap.vad = cfg.vad
    /\ phase \notin Before => set.vad = cfg.vad /\ (phase # "bind" => set.ptt = cfg.ptt)
    /\ cap.muted = muted
    /\ phase \notin {"mute", "status"} => hud = [ptt |-> cap.ptt, muted |-> cap.muted]

LEMMA PassedStep == Sound /\ Passed /\ [Next]_vars => Passed'
<1> SUFFICES ASSUME Sound, Passed, [Next]_vars PROVE Passed'
  OBVIOUS
<1>1. CASE Exit
  BY <1>1 DEF Exit, Passed
<1>2. ASSUME NEW c, Flip(c), gate' = gate PROVE Passed'
  BY <1>2 DEF Flip, Passed
<1>3. CASE UNCHANGED <<cap, gate, shut>>
  BY <1>3 DEF Passed, Closed
<1>4. CASE Start \/ StartDevice \/ StartPanel
  BY <1>3, <1>4 DEF Start, StartDevice, StartPanel, capture
<1>5. CASE StartCapture \/ FrameMode \/ (\E down : PollKeys(down) \/ PollMute(down))
  BY <1>2, <1>5 DEF StartCapture, FrameMode, PollKeys, PollMute
<1>6. CASE \/ PollInstall \/ PollBind \/ PollBound \/ PollStatus \/ FrameBegin \/ FrameDraw
           \/ (\E down : PollPanel(down) \/ PollRebind(down))
  BY <1>3, <1>6 DEF PollInstall, PollBind, PollBound, PollStatus, FrameBegin, FrameDraw,
                    PollPanel, PollRebind, capture
<1>7. CASE Capturing
  <2>1. cap' = cap
    BY <1>7 DEF Capturing
  <2>2. CASE GateMuted
    <3>1. ~cap.muted /\ shut' = Closed(cap) /\ gate' = "mode"
      BY <2>2 DEF GateMuted
    <3>2. QED
      BY <2>1, <3>1 DEF Passed, Closed
  <2>3. CASE (GateMode \/ GateKey \/ Send) /\ shut' = IF gate' = "idle" THEN {} ELSE shut
    <3>1. shut' \subseteq Closed(cap') \cap {"key"}
      BY <2>1, <2>3 DEF Passed, Closed
    <3>2. CASE gate' = "send"
      <4>1. cap.vad \/ cap.ptt
        BY <2>3, <3>2 DEF GateMode, GateKey, Send
      <4>2. "key" \notin Closed(cap')
        BY <2>1, <4>1 DEF Closed
      <4>3. QED
        BY <3>1, <4>2 DEF Passed
    <3>3. CASE gate' # "send"
      BY <2>3, <3>1, <3>3 DEF Passed
    <3>4. QED
      BY <3>2, <3>3
  <2>4. QED
    BY <1>7, <2>2, <2>3 DEF Capturing
<1>8. CASE UNCHANGED vars
  BY <1>3, <1>8 DEF vars, capture
<1>9. QED
  BY <1>1, <1>4, <1>5, <1>6, <1>7, <1>8 DEF Next, Starting, Polling, Rendering

LEMMA ShownStep == Sound /\ Shown /\ [Next]_vars => Shown'
<1> SUFFICES ASSUME Sound, Shown, [Next]_vars PROVE Shown'
  OBVIOUS
<1>0. /\ cfg \in Configs /\ Quiet /\ phase \in Before \cup Looping
      /\ cap \in [vad : BOOLEAN, ptt : BOOLEAN, muted : BOOLEAN]
      /\ set \in [ptt : Keys, vad : BOOLEAN]
  BY DEF Sound, TypeOK, Records, Switches
<1>1. CASE Exit
  BY <1>1 DEF Exit, Fresh, Shown, Before
<1>2. CASE Start
  BY <1>2 DEF Start, panel, capture, Shown, Before
<1>3. CASE StartCapture
  <2>1. cap'.vad = cfg.vad /\ cap'.ptt = cap.ptt /\ cap'.muted = cap.muted
    BY <1>0, <1>3 DEF StartCapture, Flip
  <2>2. QED
    BY <1>3, <2>1 DEF StartCapture, panel, Shown, Before
<1>4. CASE StartDevice
  BY <1>4 DEF StartDevice, panel, Shown, Before
<1>5. CASE StartPanel
  <2>1. /\ UNCHANGED <<cap, muted, hud, cfg, drawing>>
        /\ set'.vad = cfg.vad /\ set'.ptt = cfg.ptt /\ phase = "wire" /\ phase' = "install"
    BY <1>5 DEF StartPanel, capture
  <2>2. QED
    BY <2>1 DEF Shown, Before
<1>6. CASE PollInstall \/ PollBound \/ \E down : PollPanel(down)
  <2>1. /\ UNCHANGED <<cap, cfg, set, muted, hud, drawing>>
        /\ phase \in {"install", "bound", "panel"} /\ phase' \in {"panel", "keys", "rebind"}
    BY <1>6 DEF PollInstall, PollBound, PollPanel, panel, capture
  <2>2. QED
    BY <2>1 DEF Shown, Before
<1>7. ASSUME NEW down, PollRebind(down) PROVE Shown'
  <2>1. phase = "rebind" /\ UNCHANGED <<cap, cfg, muted, hud, drawing>>
    BY <1>7 DEF PollRebind, capture
  <2>2. CASE set' = set /\ phase' \in {"keys", "bound"}
    BY <2>1, <2>2 DEF Shown, Before
  <2>3. ASSUME NEW k, set' = [set EXCEPT !.ptt = k], phase' = "bind" PROVE Shown'
    <3>1. set'.vad = set.vad
      BY <1>0, <2>3
    <3>2. QED
      BY <2>1, <2>3, <3>1 DEF Shown, Before
  <2>4. QED
    BY <1>7, <2>2, <2>3 DEF PollRebind
<1>8. CASE PollBind
  <2>1. cfg'.ptt = set.ptt /\ cfg'.vad = cfg.vad
    BY <1>0, <1>8 DEF PollBind, Configs
  <2>2. /\ UNCHANGED <<cap, set, muted, hud, drawing>>
        /\ phase = "bind" /\ phase' = "bound"
    BY <1>8 DEF PollBind, panel, capture
  <2>3. QED
    BY <2>1, <2>2 DEF Shown, Before
<1>9. ASSUME NEW down, PollKeys(down) PROVE Shown'
  <2>1. cap'.vad = cap.vad /\ cap'.muted = cap.muted
    BY <1>0, <1>9 DEF PollKeys, Flip
  <2>2. UNCHANGED <<cfg, set, muted, drawing>> /\ phase = "keys" /\ phase' = "mute"
    BY <1>9 DEF PollKeys, panel
  <2>3. QED
    BY <2>1, <2>2 DEF Shown, Before
<1>10. ASSUME NEW down, PollMute(down) PROVE Shown'
  <2>1. /\ cap'.vad = cap.vad
        /\ cap'.muted = IF Pressed(VK_F9, down) THEN ~muted ELSE cap.muted
    BY <1>0, <1>10 DEF PollMute, Flip
  <2>2. /\ UNCHANGED <<cfg, set, drawing>> /\ phase = "mute" /\ phase' = "status"
        /\ muted' = IF Pressed(VK_F9, down) THEN ~muted ELSE muted
    BY <1>10 DEF PollMute, panel
  <2>3. cap'.muted = muted'
    BY <2>1, <2>2 DEF Shown
  <2>4. QED
    BY <2>1, <2>2, <2>3 DEF Shown, Before
<1>11. CASE PollStatus
  BY <1>11 DEF PollStatus, panel, capture, Shown, Before
<1>12. CASE FrameBegin
  <2>1. UNCHANGED <<cap, cfg, set, muted, hud, phase>> /\ drawing # "mode"
    BY <1>12 DEF FrameBegin, worker, capture
  <2>2. QED
    BY <2>1 DEF Shown
<1>13. CASE FrameDraw
  <2>1. /\ phase \notin Before /\ UNCHANGED <<phase, muted, hud, cap>>
        /\ drawing # "mode"
    BY <1>0, <1>13 DEF FrameDraw, Quiet, worker
  <2>2. ASSUME NEW v \in BOOLEAN, Mode(v) PROVE Shown'
    <3>1. /\ cfg'.vad = v /\ cfg'.ptt = cfg.ptt /\ drawing' = "mode"
          /\ set'.vad = v /\ set'.ptt = set.ptt
      BY <1>0, <2>2 DEF Mode, Configs
    <3>2. QED
      BY <2>1, <3>1 DEF Shown
  <2>3. ASSUME NEW d, Select(d) PROVE Shown'
    <3>1. cfg'.vad = cfg.vad /\ cfg'.ptt = cfg.ptt /\ set' = set
      BY <1>0, <2>3 DEF Select, Configs
    <3>2. QED
      BY <2>1, <3>1 DEF Shown, Before
  <2>4. CASE UNCHANGED <<set, cfg>>
    BY <2>1, <2>4 DEF Shown, Before
  <2>5. QED
    BY <1>13, <2>2, <2>3, <2>4 DEF FrameDraw, Edit
<1>14. CASE FrameMode
  <2>1. cap'.vad = cfg.vad /\ cap'.muted = cap.muted /\ cap'.ptt = cap.ptt
    BY <1>0, <1>14 DEF FrameMode, Flip, Configs
  <2>2. UNCHANGED <<cfg, set, muted, hud, phase>>
    BY <1>14 DEF FrameMode, worker
  <2>3. QED
    BY <2>1, <2>2 DEF Shown
<1>15. CASE Capturing
  BY <1>15 DEF Capturing, worker, panel, Shown
<1>16. CASE UNCHANGED vars
  BY <1>16 DEF vars, worker, panel, capture, Shown
<1>17. QED
  BY <1>1, <1>2, <1>3, <1>4, <1>5, <1>6, <1>7, <1>8, <1>9, <1>10, <1>11, <1>12, <1>13,
     <1>14, <1>15, <1>16
    DEF Next, Starting, Polling, Rendering

(* What the panel and the HUD show is what the capture does, but for the   *)
(* setter that is under way: the settings in use, the chosen microphone or *)
(* the default; and a frame that was begun with a switch closed leaves only *)
(* if that switch was opened before the frame passed it.                   *)
THEOREM PanelTellsTruth == Spec => []AsShown
<1>1. Init => Shown
  <2> SUFFICES ASSUME Init PROVE Shown
    OBVIOUS
  <2>1. cap = [vad |-> FALSE, ptt |-> FALSE, muted |-> FALSE] /\ hud = [ptt |-> FALSE, muted |-> FALSE]
    BY DEF Init, Fresh
  <2>2. cap.muted = FALSE /\ hud = [ptt |-> cap.ptt, muted |-> cap.muted]
    BY <2>1
  <2>3. phase = "off" /\ muted = FALSE
    BY DEF Init
  <2>4. QED
    BY <2>2, <2>3 DEF Shown, Before
<1>2. Init => Passed
  BY DEF Init, Passed
<1>3. Sound /\ Shown /\ Passed => AsShown
  <2> SUFFICES ASSUME Sound, Shown, Passed, InLoop PROVE AsShown
    BY DEF AsShown
  <2>1. phase \notin Before /\ phase \notin {"off", "capture"}
    BY DEF InLoop, Before
  <2>2. Complete(mic, {cfg.mic, DefaultMic})
    BY DEF Sound, MicOK
  <2>3. QED
    BY <2>1, <2>2 DEF AsShown, Shown, Passed, Complete
<1>4. QED
  BY <1>1, <1>2, <1>3, SoundInit, SoundStep, PassedStep, ShownStep, PTL DEF Spec
=============================================================================
