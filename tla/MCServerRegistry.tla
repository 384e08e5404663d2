-------------------------- MODULE MCServerRegistry --------------------------
(* Two calls compete for one server while a third uses another one.        *)
EXTENDS ServerRegistry

CONSTANTS s1, s2, c1, c2, c3

MCServers == {s1, s2}
MCCalls == {c1, c2, c3}
MCServerOf == [c \in MCCalls |-> IF c = c3 THEN s2 ELSE s1]
=============================================================================
