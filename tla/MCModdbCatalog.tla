--------------------------- MODULE MCModdbCatalog ---------------------------
(* Instance of ModdbCatalog for TLC. What is kept for one key neither reads nor   *)
(* writes another's, so all callers of a behaviour ask for one key: either *)
(* the plain catalog or a filtered one. The theorems cover mixtures.                *)
EXTENDS ModdbCatalog

MCInit == Init /\ \E k \in Keys : key = [c \in Callers |-> k]

MCSpec == MCInit /\ [][Next]_vars /\ Fairness
=============================================================================
