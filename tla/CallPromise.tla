---------------------------- MODULE CallPromise ----------------------------
(***************************************************************************)
(* What one call promises to Asterisk and to Discord, whatever happens in  *)
(* between: the bot takes its seat in the voice channel at most once and   *)
(* gives it back before Asterisk is told that the call is over or gets its *)
(* hangup back; the channel is answered only for a seat that was taken,    *)
(* and carries audio only once it is answered.                             *)
(***************************************************************************)
VARIABLES seat,      \* "none", "joined" or "left"
          answered,  \* Asterisk has been told that the call is answered
          audio,     \* Asterisk has been given audio
          over,      \* Asterisk has been told that the call is over
          released   \* Asterisk has hung up, and has its hangup back

pvars == <<seat, answered, audio, over, released>>

Init == /\ seat = "none"
        /\ answered = FALSE /\ audio = FALSE /\ over = FALSE /\ released = FALSE

Join == /\ seat = "none" /\ ~over /\ ~released
        /\ seat' = "joined"
        /\ UNCHANGED <<answered, audio, over, released>>

Leave == /\ seat # "left"
         /\ seat' = "left"
         /\ UNCHANGED <<answered, audio, over, released>>

Answer == /\ seat # "none" /\ ~over /\ ~released
          /\ answered' = TRUE
          /\ UNCHANGED <<seat, audio, over, released>>

Hear == /\ answered
        /\ audio' = TRUE
        /\ UNCHANGED <<seat, answered, over, released>>

ReportEnd == /\ seat # "joined" /\ ~released
             /\ over' = TRUE
             /\ UNCHANGED <<seat, answered, audio, released>>

Release == /\ seat # "joined"
           /\ released' = TRUE
           /\ UNCHANGED <<seat, answered, audio, over>>

Next == Join \/ Leave \/ Answer \/ Hear \/ ReportEnd \/ Release

Spec == Init /\ [][Next]_pvars
=============================================================================
