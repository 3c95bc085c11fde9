------------------------------- MODULE MCDskDns -------------------------------
(* Two domains, one of them in both families; the first call tries both    *)
(* domains along a search path, the last one asks for the other family.    *)
EXTENDS DskDns

CONSTANTS a, b, a6, c1, c2, c3, c4

MCDomain == [n \in Names |-> IF n = b THEN b ELSE a]
MCFamily == [n \in Names |-> n = a6]
MCTries == [c \in Callers |-> CASE c = c1 -> <<a, b>> [] c = c2 -> <<b>>
                               [] c = c4 -> <<a6>> [] OTHER -> <<a>>]
=============================================================================
