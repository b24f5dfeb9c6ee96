----------------------------- MODULE MCClientApp ----------------------------
(* Microphones for checking ClientApp: the name of `dock` contains a ';',  *)
(* and what is in front of it is the name `usb`.                           *)
EXTENDS ClientApp

CONSTANTS usb, dock

TwoNames == {usb, dock, DefaultMic}
CutDock == [d \in TwoNames |-> IF d = dock THEN usb ELSE d]
=============================================================================
