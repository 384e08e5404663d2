------------------------- MODULE MCModuleLifecycle -------------------------
(* Two channels, so that each call can be in the way of the other's        *)
(* frames, its request and its end, while the module comes and goes.       *)
EXTENDS ModuleLifecycle

CONSTANTS c1, c2

MCChannels == {c1, c2}
=============================================================================
