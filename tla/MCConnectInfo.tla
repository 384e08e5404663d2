--------------------------- MODULE MCConnectInfo ---------------------------
(* Two calls in a row, while other users come and go and Discord changes   *)
(* the voice server.                                                       *)
EXTENDS ConnectInfo
=============================================================================
