---------------------------- MODULE MCVoiceTask ----------------------------
(* One voice task with its web socket, against a call that may do anything *)
(* with its handle.                                                        *)
EXTENDS VoiceTask
=============================================================================
