--------------------------- MODULE MCVoicePackets ---------------------------
(* Numbers that wrap after a few frames, and room for an extension.        *)
EXTENDS VoicePackets
=============================================================================
