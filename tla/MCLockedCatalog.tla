--------------------------- MODULE MCLockedCatalog ---------------------------
(* Instance of LockedCatalog for TLC. What is kept for one key neither reads nor   *)
(* writes another's, so all callers of a behaviour ask for one key: either *)
(* versions or servers. The theorems cover mixtures.                *)
EXTENDS LockedCatalog

MCInit == Init /\ \E k \in Keys : key = [c \in Callers |-> k]

MCSpec == MCInit /\ [][Next]_vars /\ Fairness
=============================================================================
