--------------------------- MODULE MCModdbDetails ---------------------------
(* Instance of ModdbDetails for TLC: the mod with ID 1 is renamed, and the *)
(* mod with ID 2, new in the second version, takes the slug it gave up.    *)
(* One caller asks for that slug only and waits for as long as it takes;   *)
(* the other asks for the slug or for the ID 1 and may lose patience.      *)
(* Entries under names that nobody asks for do not expire.                 *)
EXTENDS ModdbDetails

CONSTANTS one, two, old, new, patient

MCIds == {one, two}
MCSlugs == {old, new}
MCSlugOf == << [i \in MCIds |-> IF i = one THEN old ELSE Absent],
               [i \in MCIds |-> IF i = one THEN new ELSE old] >>

OnePatient == /\ ~ctx'[patient]
              /\ name'[patient] \in {Blank, old}

KeptUnasked == \A n \in Names \ Asked : details[n] # None => details'[n] # None

MCSpec == Init /\ [][Next /\ OnePatient /\ KeptUnasked]_vars /\ Fairness
=============================================================================
