----------------------------- MODULE MCBusRouter ----------------------------
(* Worlds and settings for checking BusRouter and EngineCore.              *)
EXTENDS BusRouter, TLC

Symmetry == Permutations(Players) \cup Permutations(Channels)

(* Two places on either side of a cell border; cells are larger than any   *)
(* range, as in the code.  The server may lower the ranges, so that voices *)
(* do not carry from one place to the other.                               *)
StreetPlaces == {Origin, <<0, -1, 0>>}
StreetTuning == [whisper |-> 1, normal |-> 2, shout |-> 3, falloffExp |-> 2, occlusion |-> TRUE]
StreetTunings == {StreetTuning, [StreetTuning EXCEPT !.normal = 1]}
StreetMetas == {DefaultMeta, [DefaultMeta EXCEPT !.flags = {"deafen"}, !.over = 5]}

(* Two rooms, the simplest world in which distance matters. *)
RoomPlaces == {Origin, <<1, 0, 0>>}
RoomMetas == {DefaultMeta}
RoomTunings == {StreetTuning}
=============================================================================
