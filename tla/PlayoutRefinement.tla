-------------------------- MODULE PlayoutRefinement -------------------------
(* Playback implements PlayoutSpec: the frames that wait are those of the  *)
(* jitter buffer.                                                          *)
EXTENDS Playback

waitingBar == Range(jitter)

Promise == INSTANCE PlayoutSpec WITH Cap <- JitterCap, waiting <- waitingBar

(* The jitter buffer is a priority queue: in whatever order frames are     *)
(* pushed, and whatever prebuffering, underruns, the cap and device        *)
(* switches do in between, it plays the earliest frame there is, none      *)
(* twice, and throws none away but the earliest of a buffer that is full.  *)
PlayoutPromise == Promise!Spec
=============================================================================
