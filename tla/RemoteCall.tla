----------------------------- MODULE RemoteCall -----------------------------
(***************************************************************************)
(* What the callers of requests may rely on, whatever is between them and  *)
(* their servers.  A call ends with its server's answer or with an error,  *)
(* with an error only if the server is gone; a notice, which has a caller  *)
(* waiting as well, is never answered and ends with an error; and when the *)
(* server goes neither stays pending.                                      *)
(***************************************************************************)
CONSTANTS Servers, Callers,
          To  \* To[r]: the server r calls

VARIABLES up,      \* the servers there are
          outcome  \* outcome[r]: the state of the caller's current call

callVars == <<up, outcome>>

Init == /\ up = {}
        /\ outcome = [r \in Callers |-> "idle"]

Start(k) == /\ k \notin up
            /\ up' = up \cup {k}

Call(r) == /\ outcome[r] = "idle"
           /\ outcome' = [outcome EXCEPT ![r] = IF To[r] \in up THEN "pending" ELSE "failed"]
           /\ UNCHANGED up

Notify(r) == /\ outcome[r] = "idle"
             /\ outcome' = [outcome EXCEPT ![r] = IF To[r] \in up THEN "notified" ELSE "failed"]
             /\ UNCHANGED up

Answer(r) == /\ To[r] \in up
             /\ outcome[r] = "pending"
             /\ outcome' = [outcome EXCEPT ![r] = "answered"]

\* The notice has arrived.
Notice(r) == /\ To[r] \in up
             /\ outcome[r] = "notified"
             /\ outcome' = [outcome EXCEPT ![r] = "failed"]
             /\ UNCHANGED up

\* Servers end, perhaps with the answers to some last calls.
Stop(K) == /\ K \subseteq up /\ K # {}
           /\ up' = up \ K
           /\ outcome' \in [Callers -> {"idle", "pending", "notified", "answered", "failed"}]
           /\ \A r \in Callers :
                CASE To[r] \in K /\ outcome[r] = "pending" -> outcome'[r] \in {"answered", "failed"}
                  [] To[r] \in K /\ outcome[r] = "notified" -> outcome'[r] = "failed"
                  [] OTHER -> outcome'[r] = outcome[r]

Return(r) == /\ outcome[r] \in {"answered", "failed"}
             /\ outcome' = [outcome EXCEPT ![r] = "idle"]
             /\ UNCHANGED up

Next == \/ \E k \in Servers : Start(k) /\ UNCHANGED outcome
        \/ \E r \in Callers : Call(r) \/ Notify(r) \/ Notice(r) \/ Return(r)
        \/ \E r \in Callers : Answer(r) /\ UNCHANGED up
        \* the answer to a call may come from a server it starts
        \/ \E r \in Callers, k \in Servers : Answer(r) /\ Start(k)
        \/ \E K \in SUBSET Servers : Stop(K)

Spec == Init /\ [][Next]_callVars
=============================================================================
