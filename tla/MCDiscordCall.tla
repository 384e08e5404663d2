--------------------------- MODULE MCDiscordCall ---------------------------
(* One call, all of its threads and tasks, every channel at capacity one.  *)
EXTENDS DiscordCall
=============================================================================
