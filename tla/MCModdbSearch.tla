---------------------------- MODULE MCModdbSearch ----------------------------
(* Instance of ModdbSearch for TLC: pages of up to three mods, some of them *)
(* past the end of the list or of an int, and two workers.                  *)
EXTENDS ModdbSearch

MCQueries == {[page |-> 0, size |-> 3], [page |-> 2, size |-> 1], [page |-> 1, size |-> 9],
              [page |-> 9, size |-> 2], [page |-> 12, size |-> 3]}
=============================================================================
