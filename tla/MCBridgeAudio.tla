--------------------------- MODULE MCBridgeAudio ---------------------------
(* The instances of MCBridge with the history of BridgeAudio. *)
EXTENDS MCBridge, BridgeAudio
=============================================================================
