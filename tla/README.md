# OMP-Voice: TLA+ models, checks and proofs

This directory specifies the parts of OMP-Voice in which order and failure
matter, checks them with TLC on small instances, and proves the central results
with TLAPS for every value of the constants. Source paths are relative to the
repository root.

## 1. Inventory

A player's voice passes through three programs. The **bridge** (SA-MP plugin or
open.mp component) lives in the game server. It launches the **relay** as a
child process, sends it control packets over loopback UDP and sends each client
one token datagram. The **client** (an ASI in the game) presents the token to the
relay, gets an encrypted UDP session and exchanges Opus frames over it.

| component | state | operations | interacts with |
|---|---|---|---|
| relay sessions (`relay/`) | `m_sessions`, `m_addrIndex`, `m_pending`, `m_names`, `m_haveBridge` | bind token, name, gone; handshake, sealed audio, ping, bye; cleanup pass | three threads under one mutex; datagrams from clients; status events to the bridge; calls the engine |
| routing engine (`core/src/engine.cpp`, `registry.cpp`, `spatial_grid.cpp`) | players, channels, memberships (stored on both sides), mutes, grid cells and `m_where`, near sets, talking flags | one control packet, one audio frame, one tick | called by the relay with the mutex held; emits streams and status events through callbacks |
| bus router (`core/src/bus_router.cpp`) | decoders, encoders, stream ids per (speaker, listener, channel) | mix a frame into filtered channel buses, squelch on key, prune | called by the engine |
| control link (`core/src/control_link.cpp`) | the bridge's mirror of the registry, channel allocator, status queue | push position/meta/channels, receive status | bridge thread and a status thread; one unacknowledged datagram per change |
| bridges (`samp/src/plugin.cpp`, `omp/src/component.cpp`) | which players were seen | connect, disconnect, tick, natives, re-mint on SessionTimeout | game server, control link, watchdog |
| watchdog (`shared/relay_launcher.h`, `restart_policy.h`) | process handle, crash times, backoff | poll, back off, spawn, give up, kill | the relay process |
| client connection (`client/src/voice_client.cpp`, `net_session.cpp`) | token inbox, `m_established`, `m_nak`, keys, counters, `m_lastRx` | connect with backoff, receive, heartbeat, stop | connection, receive, inbox and capture threads without locks |
| client playback (`client/src/audio_playback.cpp`) | one jitter buffer per stream | push frame, pull frame | receive thread and audio thread under one mutex |
| client application (`client/src/dllmain.cpp`, `audio_capture.cpp`, `voice_panel.cpp`, `d3d9_overlay.cpp`, `client_config.h`) | settings in use, settings file, panel, render hook, microphone stream | start, exit, poll the keyboard, draw a frame, switch devices, save and load | worker thread and the game's render thread, without locks; the capture thread |
| codecs, filters, overlay drawing, INI parsing, vendored SDK | device handles, filter state | I/O, floating point, parsing | - |

What is hard to test here: the interleavings of four client threads that share
plain flags; UDP between every pair of programs (lost, late, duplicated,
reordered); a relay that is restarted with empty tables; tokens that expire or are
superseded between two packets; state that is stored twice (memberships, the grid,
the bridge's mirror, the settings shown and used) and updated incrementally; ids that the
game server reuses; devices that fail half-way; backoffs and time windows. `PROJECT.json`
lists each hazard with its source line and the properties that would catch it.

What makes each part correct, in a sentence: a relay session comes only from a
live single-use token, can be reached under its address, processes no datagram
twice and does not outlive its client; the engine's redundant structures agree,
a frame reaches exactly the listeners it should, once, and whoever stops talking is
reported; the bridge's mirror and the gamemode's view agree with the relay wherever
nothing was lost; the client always gets out of a dead session, tries every fresh token
and can be stopped at any moment; both ends of a link find back to one session; the playback
plays what it can in order; the player sees and keeps the settings in use; the watchdog
restarts, gives up and ends the relay when it should.

## 2. Modules

| module | models | state and actions |
|---|---|---|
| `RelaySession` | `relay/src/relay.cpp`, replay check of `shared/crypto.cpp` | variables carry the `m_` names; `BindToken`, `PlayerName`, `PlayerGone`, `EngineControl` are the branches of `controlLoop`; `HandshakeNak`, `HandshakeDeriveFails`, `HandshakeAck` the exits of `handleHandshake`; `AudioUp`, `Ping`, `Bye`, `DropEncrypted` those of `handleEncrypted`; `Cleanup` is one pass of `cleanupLoop` |
| `SessionSpec` | what the relay promises, without addresses, counters or clocks | `Bind`, `Grant`, `Receive`, `Lapse` |
| `RelayRefinement` | the mapping of `RelaySession` to `SessionSpec` | `KeepsPromise` is `SessionSpec!Spec` under the mapping |
| `EngineCore` | engine, registry, grid, `proximity.cpp` | one action per control packet (`Config`, `PlayerPos`, `PlayerMeta` ... `PlayerGone`), `AudioFrame`, `EngineTick`; grid operations, `EffectiveRange` and `Evaluate` are operators of the same names |
| `BusRouter` | `core/src/bus_router.cpp` composed with the engine | the engine's handlers end in calls of the router, so each action is the `EngineCore` action joined with the router's part: `SpeakerFrame`, `Key`, `DestroyChannel`, `RemovePlayer`; `Pass` is every packet the router has no part in, `Slot` the clock, `CleanupTick` the tick |
| `ControlLink` | `control_link.cpp`, `plugin.cpp`, and what the relay's registry makes of each packet | one action per native, `ProcessTick`, `RelayControl`, status events, `Crash` and `Restart` of the relay |
| `ReplicaSpec` | what the control link promises the game server, without datagrams, queues or processes: a registry and a copy that takes each operation as a whole or never | `Change`, `Connect`, `Disconnect`, `Departs`, what the gamemode is shown |
| `LinkRefinement` | the mapping of `ControlLink` to `ReplicaSpec` | the copy is the relay's table once it has read the wire, the picture shown is the gamemode's once the queue is handled; `LinkPromise` |
| `ClientSession` | `VoiceClient::loop`, `Session`, `TokenInbox` | program counters `pc` (connection thread) and `rpc` (receive thread); one action per access to shared state |
| `VoiceLink` | bridge, relay and client of one player, over a lossy network | the handlers of the three programs as one action each, in ticks of the client's receive timeout |
| `Playback` | `client/src/audio_playback.cpp` | one stream's jitter buffer and adaptive target (`Push`, `Tick`, `RemoveSpeaker`), and the render device with its mix thread (`RestartOnDevice`, `OpenAndStart`) |
| `PlayoutSpec` | what the playback promises of one speaker's frames: a priority queue, as a set | `Arrive`, `Play`, `Forget` |
| `PlayoutRefinement` | the mapping of `Playback` to `PlayoutSpec` | what waits is the set of frames in the buffer; `PlayoutPromise` |
| `ClientApp` | `dllmain.cpp`, `audio_capture.cpp`, `voice_panel.cpp`, the hook of `d3d9_overlay.cpp`, `client_config.h` | the worker's start in four steps (`Start` .. `StartPanel`) and its poll in its setters (`PollInstall`, `PollPanel`, `PollRebind`, `PollBind`, `PollBound`, `PollKeys`, `PollMute`, `PollStatus`); a frame of the renderer (`FrameBegin`, `FrameDraw`, `FrameMode`); a frame of the capture thread (`GateMuted`, `GateMode`, `GateKey`, `Send`); `Exit`; the file by `Write` and `Load` |
| `Watchdog` | restart policy and watchdog thread | the thread's program counter, crash times as ages, the code's milliseconds |
| `MCRelaySession`, `MCBusRouter`, `MCClientApp` | - | model values, places, tunings and names of the small instances |
| `RelaySessionProofs`, `BusRouterProofs`, `ControlLinkProofs`, `WatchdogProofs`, `ClientSessionProofs`, `PlaybackProofs`, `ClientAppProofs` | - | theorems about the module of that name (`BusRouterProofs`: about `EngineCore`, too), see section 4 |
| `InductionLemmas` | - | induction over the natural numbers in a form the provers can use |

How the models abstract:

* A handler of the relay or the engine runs with `m_mtx` held from its first
  access to its last, so it is one action. The client has no such lock, so the
  actions of `ClientSession` and `ClientApp` are the accesses, or stretches of code
  that touch nothing another thread touches. In `ClientApp` each setter of the worker is a step
  of its own, and so is each read of a switch by the capture thread. What stays merged: `Select` stores
  the name and switches the stream (only the renderer reads that name before the next start), `setStatus`'s stores (the HUD could
  be drawn between them), and `Send` encodes a frame and hands it over. `VoiceLink` takes `ClientSession`'s
  threads as settled and looks at whole handlers only.
* Keys are numbers: a sealed datagram opens only under the key it was sealed with.
  The replay check of `crypto::open`, the exemption of counter 0 included, is
  translated; clients count from 1. MACs, nonces and derivation are not; `HandshakeDeriveFails` is the
  path on which derivation fails. In `VoiceLink` both ends have the same keys exactly when
  they derived them from the same two key pairs.
* The network is not a variable of `RelaySession`: any sealed datagram any client
  can have sealed may arrive at any time, any number of times. That
  includes loss, duplication and reordering. `VoiceLink`, whose question is whether the
  link recovers, has the datagrams under way as a variable and counts what goes wrong.
* Times are ages that saturate one past what they are compared with. This is an
  exact abstraction, as no comparison can tell larger values apart, and needs
  no bound on the clock.
* The engine's world is one-dimensional: a place is a dimension (interior and virtual world),
  a coordinate and a vehicle. Ranges, presets, overrides and their clamp, occlusion and
  `evaluate()` are computed in whole 1/100000ths; panning is left out. As in the code cells are larger than any
  range; that the neighbour scan then misses nobody is not assumed but part of `LoudestHeard`.
* `nearestAdmit` evicts the first weakest entry of an unordered map; the model
  lets any weakest one go.
* The last pass of `tick` that rebuilds the grid comes every 1024 ticks; the model
  lets any tick do so.
* A bus frame is the set of voices mixed into it. Time in the router passes in slots
  of one frame; a listener's policy is the default one, which lowers buses but silences none;
  the channel mask is any choice at each frame. Speakerphone is off, its default.
* In `ControlLink` the loopback socket keeps order and drops what does not fit; a registry is
  its channel table, whose other side (`Player.channels`) is `EngineCore`'s subject.
* In `Playback` streams are independent, so one is modelled. Frames may be pushed in any
  order; the replay checks of relay and client in fact drop overtaken datagrams, so the
  program uses less of the buffer than the model allows. Sequence numbers do not wrap.
* In `ClientSession` an Ack answers the key pair the client holds or an earlier
  one. `later` and `lag` keep what the unsigned difference in `tick()` can be.
* `ClientApp` keeps one setting of each kind the panel edits: the mode, the microphone, a key; volumes,
  written with six digits, are left out. `Cut` is what `load()` leaves of a device's name: the part before the first `;`, trimmed. The theorems
  take any function that changes nothing the second time. A file that is not there and one that was emptied by a save cut
  short both read as the defaults. `play`, fixed for a behaviour, only bounds what the player and the system do in it.
* History variables (`owner`, `spent`, `opened`, `reopened`, `talking`,
  `frame`, `bus`, `played`, `late`, `steady`, `phase` of `ClientSession`, `stale`, `torn`, `vague`, `missed`,
  `edited`, `failed`, `shut`, `heard`, `outage`) record what was promised or shown to the outside; no
  guard reads them.
* Operators marked "Mutant" are deliberate bugs, used to see that a property can
  fail; the specifications do not use them.

## 3. Runs

| run | configuration | properties | shows |
|---|---|---|---|
| `relay_sessions` | `RelaySession.cfg`: 2 players, 2 addresses with different IPs, 3 tokens, 2 accepted handshakes, one counter per key and direction (230k states) | `TypeOK`, `SessionsIndexed`, `NoReplay`, `KeepsPromise`, `TokenGate`, `DownlinkFresh`, `TimeoutReported`, `NoZombie`, `PendingDrains` | the relay implements `SessionSpec` under address changes, takeovers of an address, replays, expiry and supersession in any order; sessions and tokens drain |
| `relay_gone` | `RelayGone.cfg` | `GoneIsClean`, violated | see findings |
| `engine_proximity` | `EngineProximity.cfg`: 3 players, 2 places on either side of a cell border, nearest-1, two tunings, players who deafen themselves and ask for more range than they get (542k) | `GridExact`, `LoudestHeard`, `TalkAgrees` | the incremental grid, the nearest-N cap with entries that go stale, ranges that change under the speakers; silence is reported |
| `engine_bus` | `EngineBus.cfg`: 2 players in 2 rooms with pair mutes, 1 channel that is plain or radio, frames fresh for one slot (859k) | `MembershipSymmetric`, `BusStateOwned`, `BusAudience`, `NoEcho`, `GoneLeavesNothing` | joins, leaves, keys, frames, mutes, destroys, re-creations and disconnects in any order; a bus repeats no voice heard in person, although it mixes earlier frames; a reused id inherits nothing |
| `bridge` | `ControlLink.cfg`: 1 player, 2 channel ids (one of them the reserved 0), 2 datagrams in the socket, 2 status events, crashes (432k) | `MirrorAgrees`, `ViewFollows`, `GhostFree`, `LinkPromise` | the link implements `ReplicaSpec`; the two registries and the gamemode's view differ only where something was lost |
| `client_session` | `ClientSession.cfg`: 2 tokens, connect and receive timeouts 1, ping interval 0, backoff 1 and 2 (241k) | `MarkFresh`, `StopFinal`, `StopTerminates`, `SilenceDetected`, `Heartbeat`, `TokenPresented` | the two threads, stop() and a network that dies, delays and duplicates |
| `client_drop` | `ClientDrop.cfg` | `DropOnlyOnSilence`, violated | see findings |
| `voice_link` | `VoiceLink.cfg`: timeouts in the code's proportions (1, 2 and 4 ticks for 8, 15 and 30 s), 2 faults, 1 departure (111k) | `BackInTime`, `LinkSettles` | whatever two datagrams between client and relay are lost or late, the player has voice again within 6 ticks and keeps it |
| `link_token` | `LinkToken.cfg` | `LinkSettles`, violated | see findings |
| `watchdog` | `Watchdog.cfg`: the code's timings, lives of 0, 4, 12 and 15 seconds, spawns that fail (236k) | `NeverGivesUp`, `NoOrphan`, `Restarted`, `CrashLoopEnds` | restart, give-up and shutdown |
| `playback` | `Playback.cfg`: 6 frames, depths 1 to 3, cap 4 (189k) | `MixerHasDevice`, `PlayoutPromise`, `EvictsOnlyWhenReady`, `PlayoutStarts` | the jitter buffer implements `PlayoutSpec` under loss, delay, reordering, removal and device switches that fail at any point |
| `client_app` | `ClientApp.cfg`: 2 microphones, of which one has a `;` in its name and is cut to the other's, the keys B and Backspace to bind, a hook tried every second poll, five scenarios (540k) | `PanelSaved`, `AsShown`, `PanelFollows` | starts, exits, failing devices, hooks and files, and key presses that meet a frame half drawn or half captured |

Why the bounds are enough. Two players and two addresses are the least at which
an address can pass from one session to another, and the entry of a former
address can point at the wrong player; the third token lets a player hold one
while another is superseded; two handshakes are a session and its successor, and
the proofs remove all these bounds for the invariants and the refinement. One listener and
two speakers are the least at which a cap of 1 has to choose; two places, near
each other under one tuning and apart under the other, give every volume that decides something.
The flags *dead* and *muted* and the presets other than normal are modelled and stay out of
`engine_proximity` for its size: each of the two flags is one test of the speaker, and a preset selects one of the three ranges. Channels do not influence
each other's buses, so one suffices; it can be destroyed and re-created under
its members. Two players are enough for `NoEcho`: the second
speaks after it got the first one's frame, and its own frame starts the mix of both. Two ids make the allocator wrap to the reserved id and to a live channel; socket and
queue of length 2 overflow at once. One behaviour of `bridge` creates and destroys channels and changes either
their settings or their members, or it has voice events and no channels; disconnects, crashes and overflows are in all three.
A run that mixes them with the refinement checked takes too long; the theorems cover any mix. In the same way a behaviour of
`client_app` pairs the mode with the microphone or the key and a file that fails, or one of the three with talking. `BackInTime` is tight: with `MaxOutage` 5 it fails.
With three faults in a row the token can expire before the client gets through, and then only a
new connection helps. Six frames fill the scaled jitter buffer past its cap and empty it again. With the
client's timeouts at 1, each can run out before or after any step of the other thread. The watchdog needs no
scaling: only the lengths of a relay's life are sampled, at the two sides of
what the policy calls healthy.

Symmetry is used in `engine_bus` and `engine_proximity` only. `GoneLeavesNothing` is an action
property that treats all players alike; no run with symmetry checks liveness.

**Fairness.** `RelaySession` assumes that time passes and the cleanup pass runs (a thread that
sleeps 200 ms); nothing obliges the bridge, a client or the network to do
anything. `Playback` assumes that the mix thread ticks while it runs; no frame need arrive.
`ClientSession` assumes that both threads run and the clock moves (`recvFrom` has a 200 ms timeout, every wait is a
polling loop), and that a socket that can be opened again and again is opened at
last and does not refuse every send. No token and no datagram need ever arrive.
`VoiceLink` assumes that the threads of the three programs run and the clock advances, and no more: no fault,
departure or other player's voice ever has to happen. `ClientApp` assumes that the worker polls, the game draws,
and hooking the renderer succeeds at last if it is tried for ever. `Watchdog` assumes only that the thread and the
caller of `kill()` run; no spawn need succeed. `ControlLink` has safety properties only and no fairness.
Deadlock checking is off only in `watchdog`: after `kill()` nothing is left to do.

### Findings

* `relay_gone`: on `CtrlPlayerGone` the relay erases the roster name only; the session
  lives on until it falls silent. `shared/protocol.h` says "full cleanup".
* `client_drop`: `tick()` samples the clock before it reads `m_lastRx`; a datagram
  stamped in between makes the unsigned difference wrap and drops the session.
* `link_token`: a token travels in one datagram. If it is lost, or the relay is restarted and
  forgets it, the player stays without voice: the re-request that `docs/NETWORKING.md` and a
  comment in `plugin.cpp` rely on is not in the code. The bridge mints again only when a session times
  out, and a restarted relay has no session that could.

### Observations

Met while modelling; either no document contradicts the code, or the modules state the code's side as it is.

* Relay and engine. `audioLoop` looks into its maps once without the lock, for a log line, while other threads change them:
  undefined behaviour, which the model leaves out. Double-play suppression asks `evaluate()` whether a speaker is
  audible in person, not whether the listener hears the speaker; with a per-pair mute the
  listener gets the voice neither way while the two are near, although `registry.h:53` says "Channels are unaffected". It asks at the moment of the mix, which another member's frame can
  start up to 60 ms later: a listener who heard a voice in person gets the same frame again on the bus if in between
  one of the two moved out of earshot, or the speaker's range or the tuning was lowered. Hence the exception in `NoEcho`.
  When `CtrlConfig` lowers the shout range, a stored override above it keeps its value until the next `CtrlPlayerMeta`. A key
  that is released after the player has changed channels is reported for the new ones.
* Bridge. Natives called before the relay is up are lost and not repeated after a restart, `CtrlConfig` included; a
  `SessionTimeout` of a player who has left mints a token nobody receives; `SetPlayerRange` resets the flags that
  `SetPlayerFlags` set, and the reverse; the channel allocator wraps to the reserved id 0 and to live channels. `setPlayerName` is never called.
* Watchdog. `CrashLoopEnds` holds for a crash loop that
  begins after a healthy life. If lives of, say, 12 seconds have driven the backoff
  to its 30 seconds first, a relay that then dies at once every time is respawned
  for ever, since at most three crashes fall into a window. A failed spawn leaves
  `m_lastSpawnMs` as it was, so a row of them also resets the backoff as if the
  relay had been healthy.
* Client. `m_tx++` is executed by two threads without synchronisation, so a counter can repeat and the relay
  drops the datagram as a replay. A stream whose speaker stops talking underruns like one
  whose link is bad, so on a clean link, too, each longer pause raises the jitter target towards its ceiling.
  Local mutes and volumes are kept per player id and never cleared, so the next player with the id inherits them.
  Backspace as push-to-talk key is saved as "8" and loaded as the digit key; a key rebound after the panel
  was closed is not saved, nor is anything while the panel is open when the game ends. A hook that was created
  but could not be enabled is never repaired. Capture starts without an encoder when creating it fails.
  `save()` says nothing when it cannot open the file, and `load()` takes a file it cannot open for a missing one: the game then
  starts with the defaults and writes them over the settings as soon as it can. A microphone whose name contains a `;` is saved whole
  and loaded cut, so the next start does not find it, or finds another one with the shorter name. A game that ends during a save leaves
  the file empty. `show_overlay` and `overlay_key` are written as constants, whatever was loaded. The worker tells capture first and
  the HUD afterwards (`dllmain.cpp:271`, `275`, `283`), so for a part of a poll the HUD is behind and a frame can leave that
  it does not show yet; and the frame the capture thread has in hand when a switch is closed still leaves.

## 4. Proofs

Each theorem holds for all values of the constants that satisfy the assumptions of the
module it is about. These say that the constants have the types the code gives them (ids, ages and limits are
natural numbers, players finite, null values outside their sets, tunings
with ranges above 0) and, where a proof needs it, how the limits compare: a base delay at most the largest one
(`Watchdog`, `ClientSession`), jitter targets between floor, ceiling and cap (`Playback`), key codes in the
range `keyNameToVK` reads and a `Cut` that changes nothing the second time (`ClientApp`). One is a relation of tunings: `WindowAssumption` of `Watchdog`
says that the crash window is shorter than as many healthy lives as it tolerates crashes
(6 times 15 s against 60 s); with other values `NeverGivesUp` is false. TLC evaluates all of them on every run.

Every temporal theorem has the same shape: an inductive invariant, which TLC checked on the runs' instances before
it was proved; a lemma for the initial states; a lemma for the step with one case per action; and a last step by
`PTL`. An action property comes from the invariant and one lemma about a step.

### Relay sessions (`RelaySessionProofs`)

`TypeCorrect`; `RelayInvariant` (`NoReplay`), `SessionsReachable` (`SessionsIndexed`), `SessionsCapped`
(`SessionCap`); the action properties `TokenGated`, `DownlinkStaysFresh`, `TimeoutsReported`; the refinement
`PromiseKept` (`KeepsPromise`).

`NoReplay` is not inductive: that a counter is fresh depends on the mark of the
session that holds its key, and a new session starts with mark 0.
`OpenedBelowMark` relates every processed pair to that mark, and needs in turn
`KeysDistinct` (no two sessions hold one key, and the next key is unused).
`SessionsIndexed` is inductive by itself only because a new session claims
its address before it is stored and a removal erases just the addresses of the
removed sessions. `TokenGate` needs `PendingSound`: a token in the table was never
redeemed and belongs to the player it was minted for. `TimeoutReported` needs
`BridgeKnown`, since `emitStatus` says nothing before the first control packet.
The actions that change neither
keys nor processed counters share the lemmas `QuietStep`, `SpendStep` and
`DropStep`. The action properties and the cap rest on one lemma, `SessionFate`: a
step keeps a player's session (same key, counters not lower), ends it (a Bye that was
processed, or a reported timeout) or grants it (from a sound token).

The refinement maps the token table to the token with which each player may open a session now:
an entry that has expired and is not yet swept counts for nothing, so the passing of a second can be a `Lapse`.
It needs one invariant more, `OnePerPlayer`, since otherwise a player's token would not be a function. `BindToken` maps to `Bind`,
an accepted handshake to `Grant`, an audio frame, a ping or a bye that opens to `Receive`, the clock, the cleanup pass and a
rejected handshake that uses up its token to `Lapse`, everything else to a stutter.

### Engine and bus router (`BusRouterProofs`)

`BusTypeCorrect`; `MembershipsAgree`, `GridIsExact`, `TalkingAgrees`, `BusStateIsOwned`, `BusReachesMembers`
(`BusAudience`), `NoDoublePlay` (`NoEcho`), `LoudestAreHeard`; the action property `LeavesNothing`
(`GoneLeavesNothing`).

The four structural invariants are proved together with the types: each engine action changes at most a few of
the redundant structures, so the proof of each names the actions that touch its variables and settles the
rest in one step (`GridSteps`, `TalkSteps`, `RegistrySteps`). `BusStateOwned` needs
`MembershipSymmetric`, since the router prunes a channel or a player by what the registry lists.
`GridSearchIsComplete` (`GridTransparent`) and `NearestNIsKept` (`NearestCap`) are stated in `BusRouterProofs` itself.
`BusAudience` speaks of the frames of the last step and follows from the step alone once the
state before it satisfies the invariants. `NoEcho` looks back as far as a frame can be mixed, and needs `HeardCarries`: whoever got
a frame in person and has not moved since, as `heard` records, is somebody the speaker still carries to, so that a mix
started by anyone leaves the voice out (`EchoStep`).

`LoudestHeard` is the deep one. `SpanCovers` shows that the cells `queryNeighbours` scans contain every
place within the range, for any cell size and range, negative coordinates included (the model, like the code, divides
rounding down); with `GridExact`, everybody in earshot is among the
candidates. `Replaced` and `AdmissionsBounded` show that `nearestAdmit` never makes a near set larger than
`NearestN` (`NearBounded`, a part of `NearestCap`); so a candidate that is refused finds the set full, of entries that
are fresh and at least as loud, since the weakest was compared. That volumes are numbers at all takes
`PowerPositive`, by induction over the falloff exponent.

Two results come out of these lemmas. `GridTransparent`: for a living speaker, the candidates are exactly the present players on
the grid whom a look at everyone would yield, so the grid can be taken out of the argument about any other property.
`NearestCap`: a near set holds at most `NearestN` entries, each of another speaker (`AdmissionsDistinct`), and whoever
gets a frame has an entry of its speaker with its volume and age 0, so that nobody is heard who is not counted.

### Control link (`ControlLinkProofs`)

`LinkTypes`; `BridgeMirrored` (`MirrorAgrees`), `TalkersFollow` (`ViewFollows`), `NoGhosts` (`GhostFree`); the refinement
`LinkImplements` (`LinkPromise`).

The first three properties speak of what a state will become when the datagrams or events under way are applied, in order:
folds over a queue of any length. `AllAppliedAppend` and `AllAppliedTail` say what a fold does when the bridge
appends to the queue and when the relay takes its head, and likewise `AllToldAppend` and `AllToldTail`; with them a
native is one more `Applied` on either side, and reading a datagram changes nothing. None of the three is inductive:

* `MirrorAgrees` needs `FreshOff`: a channel that does not exist is in the bridge's mirror as a new
  one is, so that creating it is the same on both sides.
* `ViewFollows` needs `Heard`, which drops its exception for a player whose departure is under way in one
  direction: such a player may look silent too early, but never talking.
* `GhostFree` needs `Settled`: nothing that follows the notice of departure on the wire, or is on the wire once it has
  been read, brings the player back.

The refinement maps the relay's copy to the relay's table once the relay has read the wire, and the gamemode's picture to
its view once the queue is handled. Under this mapping a native changes registry and copy in one step, or the registry
alone when the socket is full or the relay is down (`SendMaps`, `ChangeMaps`); reading a datagram or an event is a stutter (`ReadMaps`), except that a
notice of departure ends the player's speech; an event that the queue has no room for leaves the picture as it is (`EmitMaps`); and a crash
empties the copy (`CrashMaps`). It needs `Settled` in one place: a player who starts
to talk at the relay is in the game, or its departure is still to be read, or its notice was lost (`StartMaps`).

### Watchdog (`WatchdogProofs`)

`HealthyRelayKept` (`NeverGivesUp`), `KillIsFinal` (`NoOrphan`), `RestartsSpaced` (`BackedOff`) and `GivesUpOnTheWindow` (`Limited`
and the action property `Recent`; these are stated in `WatchdogProofs`). The first says nothing of the window, so the
invariant is about the ages of the crashes kept: while every life was healthy, each is at least `HealthyAfter` older
than the next (`Spaced`), which survives the passing of time (`AgedSpaced`) and the pruning, a loop over the
crashes that keeps their order (`PrunedKeeps`). `NeverTooMany` then counts: that many spaced ages do
not fit into the window. `KillIsFinal` needs only that the flag, once cleared, stays so and that the
thread has ended before the process is killed.

`BackedOff` says that no relay is spawned sooner after its crash was detected than the backoff asks, which is never
less than the base delay nor more than the cap (`BackoffBounds`, by induction over the doubling loop): the new crash is the last
of the pruned list, and only the wait takes the thread to the spawn. `Limited` says that the watchdog has given up exactly when the
list is longer than `MaxInWindow`, so the list is bounded while it restarts, and `Recent` that all the crashes it gave up on
lie in the window. `Restarted` and `CrashLoopEnds`, which say that it does restart and does give up, are liveness and stay with TLC.

### Client (`ClientSessionProofs`, `PlaybackProofs`, `ClientAppProofs`)

* `ClientTypes`, `MarkIsFresh` (`MarkFresh`), `StopIsFinal` (`StopFinal`), for any tokens, timeouts and backoffs.
* `PlaybackTypes` (the target stays between floor and ceiling and the buffer below its cap), `MixerIsSafe`
  (`MixerHasDevice`), and the action properties `NeverStarvedByCap` (`EvictsOnlyWhenReady`: a target never exceeds the ceiling,
  which is below the cap) and `BufferReorders` (`PlayoutInOrder`); the refinement `BufferImplements` (`PlayoutPromise`). The invariant
  of the last two, `Ordered`, says that the buffer
  is sorted, that a frame is in the network, in the buffer or through, and that what is buffered comes
  after what was played unless it was late; `InsertAfter` and `SortedInsert` say that the insertion puts a frame at its place.
  For the refinement the buffer is read as a set: `InsertRange` (an insertion adds the frame), `FrontIsEarliest` (taking the front removes the
  least) and `SortedCard` (no frame is in it twice, so its length is what the cap compares). `PlayoutInOrder` says of single frames
  what the refinement says of the whole; it is proved only, and `late` serves it alone.
* `AppTypes`, `SettingsSurvive` (`PanelSaved`), `PanelTellsTruth` (`AsShown`). The lemmas `KeyReturns` and `SavedReturns` show for every
  setting that what is saved is loaded as it was, but for Backspace and the cut of a name. `PanelSaved` needs `Kept`: it holds from the load on, and the
  renderer draws only while it saw the panel open, so that what it edits is saved when it sees it closed, unless the file fails.
  `AsShown` needs `Shown` for each step of the start and of a poll; `MicOK`: whatever
  of the four steps of a device switch fails, a microphone that runs is complete and is the chosen one or the default; and `Passed`: of the
  switches that were closed when a frame was begun and stayed so (`shut`), only the key's can be left while the frame is under way, and none when it goes.

### Induction

The library's induction theorems take an operator as a parameter, which the provers cannot instantiate.
`InductionLemmas` states the same facts with sets and functions: `Least` (from the library's theorem that the order of the natural
numbers is well-founded), `UpTo` (a set that contains 0 and is closed under the next number up to n contains 0..n) and
`Recursion` (a function defined by an initial value and n steps exists). `Unfolds` names what such a
function satisfies; `OneMore` and `OneLess` compare folds of which one takes a step more, at the end or at the beginning. For
this reason the loops of the models are recursive functions inside a definition (`Power`, `Pruned`, `AllApplied`, `AllTold`).

### Only model-checked

* The liveness properties (`NoZombie`, `PendingDrains`, `LinkSettles`,
  `PlayoutStarts`, `StopTerminates`, `SilenceDetected`, `Heartbeat`,
  `TokenPresented`, `Restarted`, `CrashLoopEnds`, `PanelFollows`): the prover handles neither
  fairness nor ENABLED.
* `BackInTime` of `VoiceLink`: its bound of 6 ticks is specific to the proportions of the timeouts and to two faults,
  and a proof would have to enumerate how far three programs and the network can have got in each of the 6 ticks.
  With three faults it is false, so no induction over the number of faults can give it.

### Only proved

`SessionCap` (with as many players as the table has entries no run can exceed it); `PlayoutInOrder`, which the refinement that
`playback` checks leaves nothing of; the four properties stated in `BusRouterProofs` and `WatchdogProofs`; and that the other
modules than `RelaySession` are well typed.

## 5. Not modelled

Of the engine: speakerphone routing (three players and a channel are more states than a run can visit), mix policy,
priorities and the radio-key status event. Of the playback: the mixing arithmetic and the per-speaker
settings. Of the client's interface: the HUD's list of talkers, drawing, and the GDI window of builds without the
panel. The codec wrappers, the filters, noise suppression and voice detection are floating point without state that a model would
tell apart; the relay's flat INI file is read once. The open.mp component is a skeleton that forwards to the
same control link and discards the token it gets. The vendored SDKs are third-party code.

## 6. Plan

1. Speakerphone and mix policy on top of `BusRouter`, with fewer actions than the full engine; sequence
   numbers that wrap or restart in `Playback`.
2. Properties of `VoiceLink` that do not depend on the bound: what a step may do to either end of the link.
3. The bridge re-sending its mirror to a restarted relay, should the code come to do so: `ReplicaSpec` with a step that makes
   the copies equal, and the liveness property that it happens.
